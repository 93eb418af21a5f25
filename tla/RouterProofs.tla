------------------------------ MODULE RouterProofs ------------------------------
(***************************************************************************)
(* From a request to its handler, for any routes' paths, hosts, methods    *)
(* and project names: the login limiter first, on its own, then the router *)
(* that uses it.                                                           *)
(***************************************************************************)
EXTENDS Router, FiniteSetTheorems, SequenceTheorems, WellFoundedInduction, TLAPS

(***************************************************************************)
(* The sliding window holds for every window, every limit and any number   *)
(* of addresses; the bounds MaxTime and MaxAttempts may be any numbers.    *)
(***************************************************************************)

LEMMA LimiterInitial == LimiterInit => LimiterIInv
<1> SUFFICES ASSUME LimiterInit PROVE LimiterIInv
  OBVIOUS
<1>1. LimiterTypeOK
  BY DEF LimiterInit, LimiterTypeOK
<1>2. PastOnly
  BY FS_EmptySet DEF LimiterInit, PastOnly
<1>3. Remembers
  BY DEF LimiterInit, Remembers, InWindow
<1>4. AtMostMax
  <2>1. \A ip, t : InWindow(ip, t) = {}
    BY DEF LimiterInit, InWindow
  <2> QED
    BY <2>1, FS_EmptySet, LimiterAssumption DEF AtMostMax
<1>5. RefusedOnlyWhenFull
  BY DEF LimiterInit, RefusedOnlyWhenFull
<1> QED
  BY <1>1, <1>2, <1>3, <1>4, <1>5 DEF LimiterIInv

\* Every window is a finite set.
LEMMA WindowFinite ==
  ASSUME IsFiniteSet(allowed), NEW ip, NEW t
  PROVE  IsFiniteSet(InWindow(ip, t)) /\ Cardinality(InWindow(ip, t)) \in Nat
<1>1. InWindow(ip, t) \subseteq allowed
  BY DEF InWindow
<1> QED
  BY <1>1, FS_Subset, FS_CardinalityType

\* A slice cut to the attempts that still count is the present window.
LEMMA ValidIsWindow ==
  ASSUME LimiterIInv, NEW ip \in Ip
  PROVE  Valid(attempts[ip]) = InWindow(ip, now)
BY LimiterAssumption DEF LimiterIInv, LimiterTypeOK, PastOnly, Remembers, Valid, InWindow, Attempt

LEMMA RefuseStep ==
  ASSUME LimiterIInv, NEW ip \in Ip,
         Cardinality(Valid(attempts[ip])) >= Max,
         attempts' = [attempts EXCEPT ![ip] = Valid(attempts[ip])],
         refused' = refused \cup {ip},
         UNCHANGED <<now, allowed>>
  PROVE  LimiterIInv'
<1> USE DEF LimiterIInv
<1>1. Valid(attempts[ip]) = InWindow(ip, now)
  BY ValidIsWindow
<1>2. LimiterTypeOK'
  BY DEF LimiterTypeOK, Valid
<1>3. PastOnly'
  BY DEF PastOnly
<1>4. Remembers'
  BY <1>1 DEF Remembers, InWindow, LimiterTypeOK
<1>5. AtMostMax'
  BY DEF AtMostMax, InWindow
<1>6. RefusedOnlyWhenFull'
  BY <1>1 DEF RefusedOnlyWhenFull, InWindow
<1> QED
  BY <1>2, <1>3, <1>4, <1>5, <1>6

\* Only the window that ends now gains the new attempt, and it had room.
LEMMA RecordStep ==
  ASSUME LimiterIInv, NEW ip \in Ip, NEW attempt,
         ~(Cardinality(Valid(attempts[ip])) >= Max),
         attempt = [ip |-> ip, time |-> now, number |-> Cardinality(allowed)],
         attempts' = [attempts EXCEPT ![ip] = Valid(attempts[ip]) \cup {attempt}],
         allowed' = allowed \cup {attempt},
         UNCHANGED <<now, refused>>
  PROVE  LimiterIInv'
<1> USE LimiterAssumption DEF LimiterIInv
<1>1. Valid(attempts[ip]) = InWindow(ip, now)
  BY ValidIsWindow
<1>2. IsFiniteSet(allowed) /\ Cardinality(allowed) \in Nat
  BY FS_CardinalityType DEF PastOnly
<1>3. attempt \in Attempt /\ attempt \notin allowed
  <2>1. attempt \in Attempt
    BY <1>2 DEF Attempt, LimiterTypeOK
  <2>2. attempt.number = Cardinality(allowed)
    OBVIOUS
  <2> QED
    BY <1>2, <2>1, <2>2 DEF PastOnly
<1>4. IsFiniteSet(allowed') /\ Cardinality(allowed') = Cardinality(allowed) + 1
  BY <1>2, <1>3, FS_AddElement
<1>5. LimiterTypeOK'
  BY <1>3 DEF LimiterTypeOK, Valid
<1>6. PastOnly'
  <2>1. ASSUME NEW a \in allowed'
        PROVE  a.time <= now /\ a.number < Cardinality(allowed')
    <3>1. CASE a = attempt
      BY <1>2, <1>4, <3>1 DEF LimiterTypeOK
    <3>2. CASE a \in allowed
      <4>1. a.time <= now /\ a.number < Cardinality(allowed) /\ a.number \in Nat
        BY <3>2 DEF PastOnly, LimiterTypeOK, Attempt
      <4> QED
        BY <1>2, <1>4, <4>1
    <3> QED
      BY <3>1, <3>2
  <2> QED
    BY <1>4, <2>1 DEF PastOnly
<1>7. /\ \A i, t : (i # ip \/ ~(t - Window < now /\ now <= t)) => (InWindow(i, t))' = InWindow(i, t)
      /\ (InWindow(ip, now))' = InWindow(ip, now) \cup {attempt}
  BY DEF InWindow, LimiterTypeOK
<1>8. Remembers'
  <2>1. ASSUME NEW i \in Ip, i # ip
        PROVE  /\ (InWindow(i, now))' \subseteq attempts'[i]
               /\ attempts'[i] \subseteq {a \in allowed' : a.ip = i}
    BY <1>7, <2>1 DEF Remembers, LimiterTypeOK, InWindow
  <2>2. /\ (InWindow(ip, now))' \subseteq attempts'[ip]
        /\ attempts'[ip] \subseteq {a \in allowed' : a.ip = ip}
    BY <1>1, <1>7 DEF LimiterTypeOK, InWindow
  <2> QED
    BY <2>1, <2>2 DEF Remembers
<1>9. IsFiniteSet(InWindow(ip, now)) /\ Cardinality(InWindow(ip, now)) \in Nat
  BY <1>2, WindowFinite
<1>10. AtMostMax'
  <2>1. Cardinality((InWindow(ip, now))') <= Max
    <3>1. attempt \notin InWindow(ip, now)
      BY <1>3 DEF InWindow
    <3>2. Cardinality(InWindow(ip, now) \cup {attempt}) = Cardinality(InWindow(ip, now)) + 1
      BY <1>9, <3>1, FS_AddElement
    <3> QED
      BY <1>1, <1>7, <1>9, <3>2
  <2>2. ASSUME NEW i \in Ip, NEW t \in 0 .. now
        PROVE  Cardinality((InWindow(i, t))') <= Max
    <3>1. CASE i = ip /\ t = now
      BY <2>1, <3>1
    <3>2. CASE i # ip \/ t # now
      <4>1. (InWindow(i, t))' = InWindow(i, t)
        BY <1>7, <3>2 DEF LimiterTypeOK
      <4> QED
        BY <4>1 DEF AtMostMax
    <3> QED
      BY <3>1, <3>2
  <2> QED
    BY <2>2 DEF AtMostMax
<1>11. RefusedOnlyWhenFull'
  <2>1. ASSUME NEW i \in refused
        PROVE  Cardinality((InWindow(i, now))') >= Max
    <3>1. Cardinality(InWindow(i, now)) >= Max
      BY DEF RefusedOnlyWhenFull
    <3>2. i # ip
      BY <1>1, <3>1
    <3> QED
      BY <1>7, <3>1, <3>2
  <2> QED
    BY <2>1 DEF RefusedOnlyWhenFull
<1> QED
  BY <1>5, <1>6, <1>8, <1>10, <1>11

LEMMA CleanupStep ==
  ASSUME LimiterIInv, Cleanup
  PROVE  LimiterIInv'
<1> USE DEF LimiterIInv, Cleanup
<1>1. LimiterTypeOK'
  BY DEF LimiterTypeOK, Valid
<1>2. PastOnly'
  BY DEF PastOnly
<1>3. Remembers'
  <2>1. \A ip \in Ip : attempts'[ip] = InWindow(ip, now)
    BY ValidIsWindow
  <2> QED
    BY <2>1 DEF Remembers, InWindow
<1>4. AtMostMax'
  BY DEF AtMostMax, InWindow
<1>5. RefusedOnlyWhenFull'
  BY DEF RefusedOnlyWhenFull, InWindow
<1> QED
  BY <1>1, <1>2, <1>3, <1>4, <1>5

\* The window that ends at the new time holds nothing the last one did not.
LEMMA TickStep ==
  ASSUME LimiterIInv, Tick
  PROVE  LimiterIInv'
<1> USE LimiterAssumption DEF LimiterIInv, Tick
<1>1. LimiterTypeOK'
  BY DEF LimiterTypeOK
<1>2. PastOnly'
  BY DEF PastOnly, LimiterTypeOK, Attempt
<1>3. \A ip \in Ip : /\ (InWindow(ip, now))' \subseteq InWindow(ip, now)
                     /\ \A t \in 0 .. now : (InWindow(ip, t))' = InWindow(ip, t)
  BY DEF InWindow, PastOnly, LimiterTypeOK, Attempt
<1>4. Remembers'
  BY <1>3 DEF Remembers
<1>5. AtMostMax'
  <2>1. ASSUME NEW ip \in Ip, NEW t \in 0 .. now'
        PROVE  Cardinality((InWindow(ip, t))') <= Max
    <3>1. CASE t \in 0 .. now
      BY <1>3, <3>1 DEF AtMostMax
    <3>2. CASE t = now'
      <4>1. Cardinality(InWindow(ip, now)) <= Max
        BY DEF AtMostMax, LimiterTypeOK
      <4>2. IsFiniteSet(InWindow(ip, now)) /\ Cardinality(InWindow(ip, now)) \in Nat
        BY WindowFinite DEF PastOnly
      <4>3. (InWindow(ip, t))' = (InWindow(ip, now))'
        BY <3>2 DEF InWindow
      <4>4. /\ Cardinality((InWindow(ip, now))') \in Nat
            /\ Cardinality((InWindow(ip, now))') <= Cardinality(InWindow(ip, now))
        BY <1>3, <4>2, FS_Subset, FS_CardinalityType
      <4> QED
        BY <4>1, <4>2, <4>3, <4>4
    <3> QED
      BY <3>1, <3>2 DEF LimiterTypeOK
  <2> QED
    BY <2>1 DEF AtMostMax
<1>6. RefusedOnlyWhenFull'
  BY DEF RefusedOnlyWhenFull
<1> QED
  BY <1>1, <1>2, <1>4, <1>5, <1>6

LEMMA LimiterStutter ==
  ASSUME LimiterIInv, UNCHANGED limiterVars
  PROVE  LimiterIInv'
<1>1. now' = now /\ attempts' = attempts /\ allowed' = allowed /\ refused' = refused
  BY DEF limiterVars
<1>2. LimiterTypeOK' /\ PastOnly'
  BY <1>1 DEF LimiterIInv, LimiterTypeOK, PastOnly
<1>3. Remembers' /\ AtMostMax' /\ RefusedOnlyWhenFull'
  BY <1>1 DEF LimiterIInv, Remembers, AtMostMax, RefusedOnlyWhenFull, InWindow
<1> QED
  BY <1>2, <1>3 DEF LimiterIInv

\* LimiterIInv holds in every state.
THEOREM LimiterInductive == LimiterSpec => []LimiterIInv
<1>1. LimiterInit => LimiterIInv
  BY LimiterInitial
<1>2. LimiterIInv /\ [LimiterNext]_limiterVars => LimiterIInv'
  <2> SUFFICES ASSUME LimiterIInv, [LimiterNext]_limiterVars PROVE LimiterIInv'
    OBVIOUS
  <2>1. ASSUME NEW ip \in Ip, Allow(ip) PROVE LimiterIInv'
    <3>1. CASE Cardinality(Valid(attempts[ip])) >= Max
      BY <2>1, <3>1, RefuseStep DEF Allow
    <3>2. CASE ~(Cardinality(Valid(attempts[ip])) >= Max)
      BY <2>1, <3>2, RecordStep DEF Allow
    <3> QED
      BY <3>1, <3>2
  <2> QED
    BY <2>1, CleanupStep, TickStep, LimiterStutter DEF LimiterNext
<1> QED
  BY <1>1, <1>2, PTL DEF LimiterSpec

\* allow never lets more than Max requests of one address through in any window
\* of length Window, whatever cleanup removes in between.
THEOREM LimitHolds == LimiterSpec => []AtMostMax
<1>1. LimiterIInv => AtMostMax
  BY DEF LimiterIInv
<1> QED
  BY <1>1, LimiterInductive, PTL

\* allow refuses a request only if its own address used up the present window.
THEOREM RefusalsJustified == LimiterSpec => []RefusedOnlyWhenFull
<1>1. LimiterIInv => RefusedOnlyWhenFull
  BY DEF LimiterIInv
<1> QED
  BY <1>1, LimiterInductive, PTL

-----------------------------------------------------------------------------
(***************************************************************************)
(* The router uses the limiter as it is: every step of the router is a     *)
(* step of the limiter or leaves the limiter alone.                        *)
(***************************************************************************)

LEMMA RouterStepLimits ==
  ASSUME [Next]_vars
  PROVE  [LimiterNext]_limiterVars
<1>1. ASSUME NEW ip \in Ip, Limit(ip) PROVE LimiterNext
  BY <1>1 DEF Limit, LimiterNext
<1>2. CASE Background
  BY <1>2 DEF Background, LimiterNext
<1>3. CASE UNCHANGED vars
  BY <1>3 DEF vars
<1>4. ASSUME NEW r, Proceed(r) PROVE UNCHANGED limiterVars
  BY <1>4 DEF Proceed
<1>5. CASE Finish
  BY <1>5 DEF Finish
<1>6. CASE Dispatch
  BY <1>4, <1>5, <1>6 DEF Dispatch
<1>7. CASE Authenticate \/ RequireJSON \/ Serve \/ Answer \/ ServeApi
  BY <1>4, <1>5, <1>7 DEF Authenticate, RequireJSON, Serve, Answer, ServeApi
<1>8. CASE Mirror \/ AgentProxy
  BY <1>4, <1>5, <1>8 DEF Mirror, AgentProxy
<1>9. CASE Login \/ SessionEnds
  BY <1>9 DEF Login, SessionEnds
<1>10. ASSUME NEW name \in Name, CreateProject(name) PROVE UNCHANGED limiterVars
  BY <1>10 DEF CreateProject
<1>11. ASSUME NEW p \in projects, DeleteProject(p) PROVE UNCHANGED limiterVars
  BY <1>11 DEF DeleteProject
<1>12. ASSUME NEW q \in Request, NEW cookie \in BOOLEAN, Arrive(q, cookie)
       PROVE  UNCHANGED limiterVars
  BY <1>12 DEF Arrive
<1> QED
  BY <1>1, <1>2, <1>3, <1>6, <1>7, <1>8, <1>9, <1>10, <1>11, <1>12 DEF Next

\* Behind the routes the limiter behaves as it does on its own.
THEOREM RouterUsesLimiter == Spec => LimiterSpec
<1>1. Init => LimiterInit
  BY DEF Init
<1>2. [Next]_vars => [LimiterNext]_limiterVars
  BY RouterStepLimits
<1> QED
  BY <1>1, <1>2, PTL DEF Spec, LimiterSpec

\* POST /api/login, whatever else the router does between two requests: at most
\* Max of one address in any window, and a refusal only when it is used up.
THEOREM LoginIsLimited == Spec => [](AtMostMax /\ RefusedOnlyWhenFull)
BY RouterUsesLimiter, LimitHolds, RefusalsJustified, PTL

-----------------------------------------------------------------------------
(***************************************************************************)
(* Induction over a number, by its least counterexample.                   *)
(***************************************************************************)

LEMMA LeastNumber ==
  ASSUME NEW T, T \subseteq Nat, T # {}
  PROVE  \E x \in T : \A y \in T : ~(y < x)
<1> DEFINE R == {ss \in Nat \X Nat : ss[1] < ss[2]}
<1>1. IsWellFoundedOn(R, Nat)
  BY NatLessThanWellFounded DEF OpToRel
<1> HIDE DEF R
<1>2. \E x \in T : \A y \in T : ~(<<y, x>> \in R)
  BY <1>1, WFMin
<1> QED
  BY <1>2 DEF R

(***************************************************************************)
(* path.Clean.                                                             *)
(***************************************************************************)

\* d holds what is left of the first segments of path, up to n of them.
Cleaning(path, n, d) ==
    d = [i \in 0 .. n |-> IF i = 0 THEN <<>> ELSE CleanSegment(d[i - 1], path[i])]

LEMMA CleaningExists ==
  ASSUME NEW path, NEW n \in Nat
  PROVE  \E d : Cleaning(path, n, d)
<1> DEFINE T == {k \in Nat : ~ \E d : Cleaning(path, k, d)}
<1> SUFFICES ASSUME T # {} PROVE FALSE
  OBVIOUS
<1>1. PICK k \in T : \A j \in T : ~(j < k)
  BY LeastNumber, T \subseteq Nat
<1>2. CASE k = 0
  <2>1. Cleaning(path, 0, [i \in 0 .. 0 |-> <<>>])
    BY DEF Cleaning
  <2> QED
    BY <1>2, <2>1
<1>3. CASE k # 0
  <2>1. k - 1 \in Nat /\ k - 1 \notin T /\ k \in Nat
    BY <1>1, <1>3
  <2>2. PICK d : Cleaning(path, k - 1, d)
    BY <2>1
  <2> DEFINE e == [i \in 0 .. k |-> IF i < k THEN d[i] ELSE CleanSegment(d[k - 1], path[k])]
  <2>3. \A i \in 0 .. k - 1 : e[i] = d[i]
    BY <2>1
  <2>4. ASSUME NEW i \in 0 .. k
        PROVE  e[i] = IF i = 0 THEN <<>> ELSE CleanSegment(e[i - 1], path[i])
    <3>1. CASE i = k
      BY <1>3, <2>1, <2>3, <3>1
    <3>2. CASE i # k
      <4>1. i \in 0 .. k - 1 /\ (i # 0 => i - 1 \in 0 .. k - 1)
        BY <2>1, <3>2
      <4>2. d[i] = IF i = 0 THEN <<>> ELSE CleanSegment(d[i - 1], path[i])
        BY <2>2, <4>1 DEF Cleaning
      <4> QED
        BY <2>3, <4>1, <4>2
    <3> QED
      BY <3>1, <3>2
  <2>5. e = [i \in 0 .. k |-> e[i]]
    OBVIOUS
  <2> HIDE DEF e
  <2>6. Cleaning(path, k, e)
    BY <2>4, <2>5 DEF Cleaning
  <2> QED
    BY <2>6
<1> QED
  BY <1>2, <1>3

\* Segments: the strings.  (The provers do not know that these two are strings.)
Segment == STRING \cup {"v1", "projects"}

\* The segments a clean path may have.
Plain == Segment \ {"", ".", ".."}

LEMMA CleanSegmentPlain ==
  ASSUME NEW done \in Seq(Plain), NEW s \in STRING
  PROVE  CleanSegment(done, s) \in Seq(Plain)
<1>1. CASE s \in {"", "."}
  BY <1>1 DEF CleanSegment
<1>2. CASE s = ".."
  <2>1. Len(done) - 1 \in Int /\ \A i \in 1 .. Len(done) - 1 : done[i] \in Plain
    OBVIOUS
  <2>2. SubSeq(done, 1, Len(done) - 1) \in Seq(Plain)
    BY <2>1, SubSeqProperties
  <2> QED
    BY <1>2, <2>2 DEF CleanSegment
<1>3. CASE s \notin {"", ".", ".."}
  <2>1. s \in Plain
    BY <1>3 DEF Plain, Segment
  <2>2. CleanSegment(done, s) = Append(done, s)
    BY <1>3 DEF CleanSegment
  <2>3. Append(done, s) \in Seq(Plain)
    BY <2>1, AppendProperties
  <2> QED
    BY <2>2, <2>3
<1> QED
  BY <1>1, <1>2, <1>3

\* What Clean returns has no segment left that a server would resolve.
LEMMA CleanIsPlain ==
  ASSUME NEW path \in Seq(STRING)
  PROVE  Clean(path) \in Seq(Plain)
<1> DEFINE n == Len(path)
           d == CHOOSE c : Cleaning(path, n, c)
<1>1. Clean(path) = d[n]
  BY DEF Clean, Cleaning
<1>2. n \in Nat
  OBVIOUS
<1>3. Cleaning(path, n, d)
  BY <1>2, CleaningExists
<1> HIDE DEF d
<1> DEFINE T == {k \in 0 .. n : d[k] \notin Seq(Plain)}
<1>4. T = {}
  <2> SUFFICES ASSUME T # {} PROVE FALSE
    OBVIOUS
  <2>1. PICK k \in T : \A j \in T : ~(j < k)
    BY LeastNumber, T \subseteq Nat
  <2>2. CASE k = 0
    BY <1>2, <1>3, <2>2 DEF Cleaning
  <2>3. CASE k # 0
    <3>1. k \in 1 .. n /\ k - 1 \in 0 .. n
      BY <1>2, <2>3
    <3>2. d[k - 1] \in Seq(Plain)
      BY <2>1, <3>1
    <3>3. path[k] \in STRING
      BY <3>1
    <3>4. d[k] = CleanSegment(d[k - 1], path[k])
      BY <1>3, <2>3 DEF Cleaning
    <3> QED
      BY <3>2, <3>3, <3>4, CleanSegmentPlain
  <2> QED
    BY <2>2, <2>3
<1> QED
  BY <1>1, <1>2, <1>4

-----------------------------------------------------------------------------
(***************************************************************************)
(* The mux finds a route for every method and path.                        *)
(***************************************************************************)

\* r is the most specific of the routes that match.
MostSpecific(routes, method, path, r) ==
    /\ r \in routes /\ TakesMethod(r.method, method) /\ Covers(r.pattern, path)
    /\ \A o \in routes : TakesMethod(o.method, method) /\ Covers(o.pattern, path)
                            => Covers(o.pattern, r.pattern) /\ TakesMethod(o.method, r.method)

LEMMA MuxFinds ==
  ASSUME NEW routes, NEW method, NEW path, \E r : MostSpecific(routes, method, path, r)
  PROVE  MostSpecific(routes, method, path, Mux(routes, method, path))
BY DEF MostSpecific, Mux

\* Which paths the patterns match.
LEMMA PatternsCover ==
  ASSUME NEW path \in Seq(STRING)
  PROVE  /\ Covers(<<"**">>, path) <=> Len(path) >= 1
         /\ Covers(<<"api", "**">>, path) <=> Len(path) >= 2 /\ path[1] = "api"
         /\ Covers(<<"api", "login">>, path)
                <=> Len(path) = 2 /\ path[1] = "api" /\ path[2] = "login"
         /\ Covers(<<"api", "shell">>, path)
                <=> Len(path) = 2 /\ path[1] = "api" /\ path[2] = "shell"
         /\ Covers(<<"api", "shell", "*">>, path)
                <=> Len(path) = 3 /\ path[1] = "api" /\ path[2] = "shell"
         /\ Covers(<<"api", "shell", "*", "connect">>, path)
                <=> Len(path) = 4 /\ path[1] = "api" /\ path[2] = "shell" /\ path[4] = "connect"
         /\ Covers(<<"api", "projects", "*", "shell">>, path)
                <=> Len(path) = 4 /\ path[1] = "api" /\ path[2] = "projects" /\ path[4] = "shell"
         /\ Covers(<<"api", "pi", "**">>, path)
                <=> Len(path) >= 3 /\ path[1] = "api" /\ path[2] = "pi"
         /\ Covers(<<"api", "projects", "*", "agent", "**">>, path)
                <=> Len(path) >= 5 /\ path[1] = "api" /\ path[2] = "projects" /\ path[4] = "agent"
<1> USE DEF Covers, Seqs!Last
<1>1. Covers(<<"**">>, path) <=> Len(path) >= 1
  OBVIOUS
<1>2. Covers(<<"api", "**">>, path) <=> Len(path) >= 2 /\ path[1] = "api"
  OBVIOUS
<1>3. Covers(<<"api", "login">>, path)
         <=> Len(path) = 2 /\ path[1] = "api" /\ path[2] = "login"
  OBVIOUS
<1>4. Covers(<<"api", "shell">>, path)
         <=> Len(path) = 2 /\ path[1] = "api" /\ path[2] = "shell"
  OBVIOUS
<1>5. Covers(<<"api", "shell", "*">>, path)
         <=> Len(path) = 3 /\ path[1] = "api" /\ path[2] = "shell"
  OBVIOUS
<1>6. Covers(<<"api", "shell", "*", "connect">>, path)
         <=> Len(path) = 4 /\ path[1] = "api" /\ path[2] = "shell" /\ path[4] = "connect"
  OBVIOUS
<1>7. Covers(<<"api", "projects", "*", "shell">>, path)
         <=> Len(path) = 4 /\ path[1] = "api" /\ path[2] = "projects" /\ path[4] = "shell"
  OBVIOUS
<1>8. Covers(<<"api", "pi", "**">>, path)
         <=> Len(path) >= 3 /\ path[1] = "api" /\ path[2] = "pi"
  OBVIOUS
<1>9. Covers(<<"api", "projects", "*", "agent", "**">>, path)
         <=> Len(path) >= 5 /\ path[1] = "api" /\ path[2] = "projects" /\ path[4] = "agent"
  OBVIOUS
<1> HIDE DEF Covers, Seqs!Last
<1> QED
  BY <1>1, <1>2, <1>3, <1>4, <1>5, <1>6, <1>7, <1>8, <1>9

LoginRoute == Route("POST", <<"api", "login">>, <<"json", "limit", "login">>)

ApiRoute == Route("ANY", <<"api", "**">>, <<"auth", "json", "api">>)
SpaRoute == Route("ANY", <<"**">>, <<"spa">>)
ShellNew == Route("POST", <<"api", "shell">>, <<"auth", "shell">>)
ShellPut == Route("PUT", <<"api", "shell", "*">>, <<"auth", "json", "shell">>)
ShellConnect == Route("GET", <<"api", "shell", "*", "connect">>, <<"auth", "shell">>)
ShellProject == Route("POST", <<"api", "projects", "*", "shell">>, <<"auth", "shell">>)
PiRoute(m) == Route(m, <<"api", "pi", "**">>, <<"auth", "mirror">>)

PiMethod == {"GET", "POST", "PUT", "PATCH", "DELETE"}

\* The routes with a pattern that is no catch-all.
Narrow ==
    {LoginRoute, ShellNew, ShellPut, ShellConnect, ShellProject} \cup {PiRoute(m) : m \in PiMethod}

LEMMA RoutesAre == Routes = {ApiRoute, SpaRoute} \cup Narrow
BY DEF Routes, Narrow, LoginRoute, ApiRoute, SpaRoute, PiRoute, PiMethod,
       ShellRoutes, ShellNew, ShellPut, ShellConnect, ShellProject

\* At most one narrow route takes a request, and the catch-alls cover it.
LEMMA NarrowIsUnique ==
  ASSUME NEW path \in Seq(STRING), NEW method,
         NEW r \in Narrow, TakesMethod(r.method, method), Covers(r.pattern, path),
         NEW o \in Narrow, TakesMethod(o.method, method), Covers(o.pattern, path)
  PROVE  o = r
<1> DEFINE served == IF method = "HEAD" THEN "GET" ELSE method
           IsFor(n) ==
             \/ n = LoginRoute /\ path[2] = "login"
             \/ n = ShellNew /\ path[2] = "shell" /\ Len(path) = 2
             \/ n = ShellPut /\ path[2] = "shell" /\ Len(path) = 3
             \/ n = ShellConnect /\ path[2] = "shell" /\ Len(path) = 4
             \/ n = ShellProject /\ path[2] = "projects"
             \/ n = PiRoute(served) /\ path[2] = "pi"
<1>1. ASSUME NEW n \in Narrow, TakesMethod(n.method, method), Covers(n.pattern, path)
      PROVE  IsFor(n)
  <2>1. CASE n = LoginRoute
    BY <1>1, <2>1, PatternsCover DEF LoginRoute, Route
  <2>2. CASE n = ShellNew
    BY <1>1, <2>2, PatternsCover DEF ShellNew, Route
  <2>3. CASE n = ShellPut
    BY <1>1, <2>3, PatternsCover DEF ShellPut, Route
  <2>4. CASE n = ShellConnect
    BY <1>1, <2>4, PatternsCover DEF ShellConnect, Route
  <2>5. CASE n = ShellProject
    BY <1>1, <2>5, PatternsCover DEF ShellProject, Route
  <2>6. ASSUME NEW m \in PiMethod, n = PiRoute(m)
        PROVE  path[2] = "pi" /\ m = served
    <3>1. path[2] = "pi"
      BY <1>1, <2>6, PatternsCover DEF PiRoute, Route
    <3>2. TakesMethod(m, method)
      BY <1>1, <2>6 DEF PiRoute, Route
    <3> QED
      BY <3>1, <3>2 DEF TakesMethod, PiMethod
  <2> QED
    BY <2>1, <2>2, <2>3, <2>4, <2>5, <2>6 DEF Narrow
<1>2. IsFor(r)
  BY <1>1
<1>3. IsFor(o)
  BY <1>1
<1> HIDE DEF served
<1>4. PICK second \in {"login", "shell", "projects", "pi"} : second = path[2]
  BY <1>2
<1>5. CASE second = "login" \/ second = "projects" \/ second = "pi"
  BY <1>2, <1>3, <1>4, <1>5
<1>6. CASE second = "shell"
  <2>1. \/ r = ShellNew /\ Len(path) = 2
        \/ r = ShellPut /\ Len(path) = 3
        \/ r = ShellConnect /\ Len(path) = 4
    BY <1>2, <1>4, <1>6
  <2>2. \/ o = ShellNew /\ Len(path) = 2
        \/ o = ShellPut /\ Len(path) = 3
        \/ o = ShellConnect /\ Len(path) = 4
    BY <1>3, <1>4, <1>6
  <2>3. PICK k \in Nat : k = Len(path)
    OBVIOUS
  <2>4. CASE k = 2
    BY <2>1, <2>2, <2>3, <2>4
  <2>5. CASE k = 3
    BY <2>1, <2>2, <2>3, <2>5
  <2>6. CASE k = 4
    BY <2>1, <2>2, <2>3, <2>6
  <2> QED
    BY <2>1, <2>3, <2>4, <2>5, <2>6
<1> QED
  BY <1>4, <1>5, <1>6

LEMMA NarrowIsNarrow ==
  ASSUME NEW r \in Narrow
  PROVE  Covers(<<"**">>, r.pattern) /\ Covers(<<"api", "**">>, r.pattern) /\ Covers(r.pattern, r.pattern)
<1> USE DEF Covers, Seqs!Last, Route
<1>1. CASE r = LoginRoute
  BY <1>1 DEF LoginRoute
<1>2. CASE r = ShellNew
  BY <1>2 DEF ShellNew
<1>3. CASE r = ShellPut
  BY <1>3 DEF ShellPut
<1>4. CASE r = ShellConnect
  BY <1>4 DEF ShellConnect
<1>5. CASE r = ShellProject
  BY <1>5 DEF ShellProject
<1>6. ASSUME NEW m \in PiMethod, r = PiRoute(m)
      PROVE  /\ Covers(<<"**">>, r.pattern) /\ Covers(<<"api", "**">>, r.pattern)
             /\ Covers(r.pattern, r.pattern)
  BY <1>6 DEF PiRoute
<1> HIDE DEF Covers, Route
<1> QED
  BY <1>1, <1>2, <1>3, <1>4, <1>5, <1>6 DEF Narrow

\* Every request to the dashboard has one most specific route.
LEMMA RouteExists ==
  ASSUME NEW path \in Seq(STRING) \ {<<>>}, NEW method
  PROVE  \E r : MostSpecific(Routes, method, path, r)
<1>1. /\ ApiRoute.method = "ANY" /\ ApiRoute.pattern = <<"api", "**">>
      /\ SpaRoute.method = "ANY" /\ SpaRoute.pattern = <<"**">>
  BY DEF ApiRoute, SpaRoute, Route
<1>2. \A m : TakesMethod("ANY", m) /\ TakesMethod(m, m)
  BY DEF TakesMethod
<1>3. CASE \E r \in Narrow : TakesMethod(r.method, method) /\ Covers(r.pattern, path)
  <2>1. PICK r \in Narrow : TakesMethod(r.method, method) /\ Covers(r.pattern, path)
    BY <1>3
  <2>2. ASSUME NEW o \in Routes, TakesMethod(o.method, method), Covers(o.pattern, path)
        PROVE  Covers(o.pattern, r.pattern) /\ TakesMethod(o.method, r.method)
    <3>1. CASE o \in Narrow
      <4>1. o = r
        BY <2>1, <2>2, <3>1, NarrowIsUnique
      <4> QED
        BY <1>2, <4>1, NarrowIsNarrow
    <3>2. CASE o \in {ApiRoute, SpaRoute}
      BY <1>1, <1>2, <3>2, NarrowIsNarrow
    <3> QED
      BY <3>1, <3>2, RoutesAre
  <2>3. MostSpecific(Routes, method, path, r)
    BY <2>1, <2>2, RoutesAre DEF MostSpecific
  <2> QED
    BY <2>3
<1>4. CASE ~ \E r \in Narrow : TakesMethod(r.method, method) /\ Covers(r.pattern, path)
  <2>1. CASE Covers(<<"api", "**">>, path)
    <3>1. Covers(<<"api", "**">>, <<"api", "**">>) /\ Covers(<<"**">>, <<"api", "**">>)
      BY DEF Covers, Seqs!Last
    <3>2. MostSpecific(Routes, method, path, ApiRoute)
      BY <1>1, <1>2, <1>4, <2>1, <3>1, RoutesAre DEF MostSpecific
    <3> QED
      BY <3>2
  <2>2. CASE ~Covers(<<"api", "**">>, path)
    <3>1. Covers(<<"**">>, <<"**">>) /\ Covers(<<"**">>, path)
      BY DEF Covers, Seqs!Last
    <3>2. MostSpecific(Routes, method, path, SpaRoute)
      BY <1>1, <1>2, <1>4, <2>2, <3>1, RoutesAre DEF MostSpecific
    <3> QED
      BY <3>2
  <2> QED
    BY <2>1, <2>2
<1> QED
  BY <1>3, <1>4

LEMMA ApiRouteExists ==
  ASSUME NEW path \in Seq(STRING) \ {<<>>}, NEW method
  PROVE  \E r : MostSpecific(ApiRoutes, method, path, r)
<1> DEFINE any == Route("ANY", <<"**">>, <<"handler">>)
           agent(m) == Route(m, <<"api", "projects", "*", "agent", "**">>, <<"agent">>)
           methods == {"GET", "POST", "PATCH", "DELETE"}
<1>1. ApiRoutes = {any} \cup {agent(m) : m \in methods}
  BY DEF ApiRoutes
<1>2. /\ any.method = "ANY" /\ any.pattern = <<"**">>
      /\ \A m : agent(m).method = m /\ agent(m).pattern = <<"api", "projects", "*", "agent", "**">>
  BY DEF Route
<1>3. \A m : TakesMethod("ANY", m) /\ TakesMethod(m, m)
  BY DEF TakesMethod
<1>4. Covers(<<"**">>, path)
  BY DEF Covers, Seqs!Last
<1>a. /\ Covers(<<"**">>, <<"**">>)
      /\ Covers(<<"**">>, <<"api", "projects", "*", "agent", "**">>)
      /\ Covers(<<"api", "projects", "*", "agent", "**">>, <<"api", "projects", "*", "agent", "**">>)
  BY DEF Covers, Seqs!Last
<1>5. \A m, k \in methods : TakesMethod(m, method) /\ TakesMethod(k, method) => m = k
  BY DEF TakesMethod
<1> HIDE DEF any, agent, methods
<1>6. CASE \E m \in methods : /\ TakesMethod(m, method)
                              /\ Covers(<<"api", "projects", "*", "agent", "**">>, path)
  <2>1. PICK m \in methods : /\ TakesMethod(m, method)
                             /\ Covers(<<"api", "projects", "*", "agent", "**">>, path)
    BY <1>6
  <2>2. MostSpecific(ApiRoutes, method, path, agent(m))
    BY <1>1, <1>2, <1>3, <1>4, <1>a, <1>5, <2>1 DEF MostSpecific
  <2> QED
    BY <2>2
<1>7. CASE ~ \E m \in methods : /\ TakesMethod(m, method)
                                /\ Covers(<<"api", "projects", "*", "agent", "**">>, path)
  <2>1. MostSpecific(ApiRoutes, method, path, any)
    BY SMTT(30), <1>1, <1>2, <1>3, <1>4, <1>a, <1>7 DEF MostSpecific
  <2> QED
    BY <2>1
<1> QED
  BY <1>6, <1>7

-----------------------------------------------------------------------------
(***************************************************************************)
(* The invariant of the router.                                            *)
(***************************************************************************)

\* What is left to run of a request that needs no session, that has still to
\* show one, and that has shown one.
Public == {<<"json", "limit", "login">>, <<"limit", "login">>, <<"login">>, <<"spa">>}

Locked ==
    { <<"auth", "shell">>, <<"auth", "json", "shell">>, <<"auth", "json", "api">>,
      <<"auth", "mirror">>, <<"auth", "app">> }

Unlocked ==
    { <<"shell">>, <<"json", "shell">>, <<"json", "api">>, <<"api">>, <<"handler">>,
      <<"agent">>, <<"mirror">>, <<"forward">>, <<"app">> }

Handled ==
    [host : Seq(STRING) \ {<<>>}, method : STRING, path : Seq(STRING) \ {<<>>},
     rest : Seq(STRING), json : BOOLEAN, cookie : BOOLEAN, valid : BOOLEAN, pc : {"host", "run", "served"},
     chain : {<<>>} \cup Public \cup Locked \cup Unlocked, to : Seq(Segment), port : Nat]

\* ReachesOwnApp's conclusion for request r, when rows were there.
OwnApp(r, rows) ==
    \E p \in rows, env \in {"prod", "dev"} : r.host = Url(p, env) /\ r.port = PortOf(p, env)

\* ForwardsInside's conclusion, likewise.
Inside(r, rows) ==
    LET under(p) == Seqs!IsPrefix(<<"v1", "projects", Slug[p.name]>>, r.to) IN
    /\ \A i \in DOMAIN r.to : r.to[i] \notin {"", ".", ".."}
    /\ IF r.path[2] = "pi"
       THEN \/ Seqs!IsPrefix(<<"v1", "sessions">>, r.to) /\ r.method = "GET"
            \/ Seqs!IsPrefix(<<"v1", "auth">>, r.to)
            \/ Seqs!IsPrefix(<<"v1", "custom">>, r.to)
            \/ \E p \in rows : under(p) /\ Len(r.to) > 3 /\ r.to[4] = "sessions"
       ELSE \E p \in rows : p.id = r.path[3] /\ under(p)

\* A request r that is being handled, when rows were there since it arrived.
InOrder(r, rows) ==
    /\ r \in Handled
    /\ r.pc # "host" => r.chain # <<>>
    /\ r.pc = "served" => r.chain \in Unlocked \cup {<<"spa">>}
    /\ r.chain \in Unlocked => r.valid
    /\ r.chain \in {<<"auth", "mirror">>, <<"mirror">>} => r.path[2] = "pi"
    /\ r.chain = <<"agent">> => r.path[2] = "projects"
    /\ r.chain = <<"forward">> => Inside(r, rows)
    /\ r.chain \in {<<"auth", "app">>, <<"app">>} => OwnApp(r, rows)

\* The table has a name just once; all versions checked it against the pattern.
NamesInv ==
    /\ \A p \in projects : NamePattern(p.name)
    /\ \A p, q \in projects : p.name = q.name => p = q

\* While a request is handled, seen has every row of the table, and no session
\* begins: a cookie that is good now was good on arrival.
HandlingInv ==
    request.pc # "idle" =>
        /\ InOrder(request, seen)
        /\ projects \subseteq seen
        /\ request.pc \in {"host", "run"} /\ request.cookie /\ live => request.valid

RouterIInv == RouterTypeOK /\ NamesInv /\ HandlingInv

-----------------------------------------------------------------------------
(***************************************************************************)
(* Which chains begin with which step.                                     *)
(***************************************************************************)

LEMMA LockedChains ==
  ASSUME NEW c \in Locked
  PROVE  /\ Head(c) = "auth"
         /\ Tail(c) \in {<<"shell">>, <<"json", "shell">>, <<"json", "api">>, <<"mirror">>, <<"app">>}
         /\ Tail(c) = <<"mirror">> => c = <<"auth", "mirror">>
         /\ Tail(c) = <<"app">> => c = <<"auth", "app">>
         /\ c \notin Unlocked /\ c # <<>>
<1>1. CASE c = <<"auth", "shell">>
  BY <1>1 DEF Unlocked
<1>2. CASE c = <<"auth", "json", "shell">>
  BY <1>2 DEF Unlocked
<1>3. CASE c = <<"auth", "json", "api">>
  BY <1>3 DEF Unlocked
<1>4. CASE c = <<"auth", "mirror">>
  BY <1>4 DEF Unlocked
<1>5. CASE c = <<"auth", "app">>
  BY <1>5 DEF Unlocked
<1> QED
  BY <1>1, <1>2, <1>3, <1>4, <1>5 DEF Locked

LEMMA PublicChains ==
  ASSUME NEW c \in Public
  PROVE  /\ Head(c) \in {"json", "limit", "login", "spa"}
         /\ Head(c) = "json" => Tail(c) = <<"limit", "login">>
         /\ Head(c) = "limit" => Tail(c) = <<"login">>
         /\ Head(c) = "spa" => c = <<"spa">>
         /\ c \notin Unlocked /\ c \notin Locked /\ c # <<>>
<1>1. CASE c = <<"json", "limit", "login">>
  BY <1>1 DEF Unlocked, Locked
<1>2. CASE c = <<"limit", "login">>
  BY <1>2 DEF Unlocked, Locked
<1>3. CASE c = <<"login">>
  BY <1>3 DEF Unlocked, Locked
<1>4. CASE c = <<"spa">>
  BY <1>4 DEF Unlocked, Locked
<1> QED
  BY <1>1, <1>2, <1>3, <1>4 DEF Public

LEMMA UnlockedChains ==
  ASSUME NEW c \in Unlocked
  PROVE  /\ Head(c) \in {"shell", "json", "api", "handler", "agent", "mirror", "forward", "app"}
         /\ Head(c) = "json" => Tail(c) \in {<<"shell">>, <<"api">>}
         /\ Head(c) = "api" => c = <<"api">>
         /\ Head(c) = "agent" => c = <<"agent">>
         /\ Head(c) = "mirror" => c = <<"mirror">>
         /\ Head(c) = "forward" => c = <<"forward">>
         /\ Head(c) = "app" => c = <<"app">>
         /\ c # <<>>
<1>1. CASE c = <<"shell">> \/ c = <<"handler">>
  BY <1>1
<1>2. CASE c = <<"json", "shell">>
  BY <1>2
<1>5. CASE c = <<"json", "api">>
  BY <1>5
<1>3. CASE c = <<"api">> \/ c = <<"agent">>
  BY <1>3
<1>4. CASE c = <<"mirror">> \/ c = <<"forward">> \/ c = <<"app">>
  BY <1>4
<1> QED
  BY <1>1, <1>2, <1>3, <1>4, <1>5 DEF Unlocked

\* The same, seen from the step: what is left once it has passed.
LEMMA ChainSteps ==
  ASSUME NEW c \in Public \cup Locked \cup Unlocked
  PROVE  /\ Head(c) = "auth" => c \in Locked
         /\ Head(c) = "json" =>
               \/ c \in Unlocked /\ Tail(c) \in {<<"shell">>, <<"api">>}
               \/ Tail(c) = <<"limit", "login">>
         /\ Head(c) = "limit" => Tail(c) = <<"login">>
         /\ Head(c) = "api" => c = <<"api">>
         /\ Head(c) = "agent" => c = <<"agent">>
         /\ Head(c) = "mirror" => c = <<"mirror">>
         /\ Head(c) \in {"shell", "handler", "spa", "forward", "app"} => c \in Unlocked \cup {<<"spa">>}
<1>1. CASE c \in Public
  BY <1>1, PublicChains
<1>2. CASE c \in Locked
  BY <1>2, LockedChains
<1>3. CASE c \in Unlocked
  BY <1>3, UnlockedChains
<1> QED
  BY <1>1, <1>2, <1>3

\* The chain the mux gives a request to the dashboard.
LEMMA RouteChain ==
  ASSUME NEW path \in Seq(STRING) \ {<<>>}, NEW method
  PROVE  LET c == Mux(Routes, method, path).chain IN
         /\ c \in {<<"json", "limit", "login">>, <<"spa">>, <<"auth", "shell">>,
                   <<"auth", "json", "shell">>, <<"auth", "json", "api">>, <<"auth", "mirror">>}
         /\ c = <<"auth", "mirror">> => path[2] = "pi"
<1>1. PICK r : r = Mux(Routes, method, path) /\ r \in Routes /\ Covers(r.pattern, path)
  BY MuxFinds, RouteExists DEF MostSpecific
<1> SUFFICES /\ r.chain \in {<<"json", "limit", "login">>, <<"spa">>, <<"auth", "shell">>,
                             <<"auth", "json", "shell">>, <<"auth", "json", "api">>,
                             <<"auth", "mirror">>}
             /\ r.chain = <<"auth", "mirror">> => path[2] = "pi"
  BY <1>1
<1>2. CASE r = ApiRoute
  BY <1>2 DEF ApiRoute, Route
<1>3. CASE r = SpaRoute
  BY <1>3 DEF SpaRoute, Route
<1>4. CASE r = LoginRoute
  BY <1>4 DEF LoginRoute, Route
<1>5. CASE r = ShellNew \/ r = ShellPut
  BY <1>5 DEF ShellNew, ShellPut, Route
<1>6. CASE r = ShellConnect \/ r = ShellProject
  BY <1>6 DEF ShellConnect, ShellProject, Route
<1>7. ASSUME NEW m \in PiMethod, r = PiRoute(m)
      PROVE  r.chain = <<"auth", "mirror">> /\ path[2] = "pi"
  BY <1>1, <1>7, PatternsCover DEF PiRoute, Route
<1>8. r \in {ApiRoute, SpaRoute, LoginRoute, ShellNew, ShellPut, ShellConnect, ShellProject}
      \/ \E m \in PiMethod : r = PiRoute(m)
  BY <1>1, RoutesAre DEF Narrow
<1> QED
  BY <1>2, <1>3, <1>4, <1>5, <1>6, <1>7, <1>8

LEMMA ApiRouteChain ==
  ASSUME NEW path \in Seq(STRING) \ {<<>>}, NEW method
  PROVE  LET c == Mux(ApiRoutes, method, path).chain IN
         /\ c \in {<<"handler">>, <<"agent">>}
         /\ c = <<"agent">> => path[2] = "projects"
<1>1. PICK r : r = Mux(ApiRoutes, method, path) /\ r \in ApiRoutes /\ Covers(r.pattern, path)
  BY MuxFinds, ApiRouteExists DEF MostSpecific
<1> SUFFICES /\ r.chain \in {<<"handler">>, <<"agent">>}
             /\ r.chain = <<"agent">> => path[2] = "projects"
  BY <1>1
<1>2. CASE r = Route("ANY", <<"**">>, <<"handler">>)
  BY <1>2 DEF Route
<1>3. ASSUME NEW m, r = Route(m, <<"api", "projects", "*", "agent", "**">>, <<"agent">>)
      PROVE  r.chain = <<"agent">> /\ path[2] = "projects"
  BY <1>1, <1>3, PatternsCover DEF Route
<1> QED
  BY <1>1, <1>2, <1>3 DEF ApiRoutes

-----------------------------------------------------------------------------
(***************************************************************************)
(* The steps of a request.                                                 *)
(***************************************************************************)

\* A request that is handled further, with what was learnt about its session.
LEMMA ProceedStep ==
  ASSUME RouterIInv, request.pc # "idle", NEW r, Proceed(r), InOrder(r, seen),
         r.cookie = request.cookie, r.valid = request.valid,
         r.pc \in {"host", "run"} => request.pc \in {"host", "run"}
  PROVE  RouterIInv'
<1>1. request' = r /\ projects' = projects /\ issued' = issued /\ live' = live /\ seen' = seen
  BY DEF Proceed
<1>2. RouterTypeOK' /\ NamesInv'
  BY <1>1 DEF RouterIInv, RouterTypeOK, NamesInv
<1>3. HandlingInv'
  BY <1>1 DEF RouterIInv, HandlingInv
<1> QED
  BY <1>2, <1>3 DEF RouterIInv

\* An answer; only a login changes live.
LEMMA FinishStep ==
  ASSUME RouterIInv, request' = [pc |-> "idle"], seen' = {}, live' \in BOOLEAN,
         UNCHANGED <<projects, issued>>
  PROVE  RouterIInv'
<1>1. RouterTypeOK' /\ NamesInv'
  BY DEF RouterIInv, RouterTypeOK, NamesInv
<1>2. HandlingInv'
  BY DEF HandlingInv
<1> QED
  BY <1>1, <1>2 DEF RouterIInv

LEMMA AnswerStep ==
  ASSUME RouterIInv, Finish
  PROVE  RouterIInv'
BY FinishStep DEF Finish, RouterIInv, RouterTypeOK

\* A request that only drops what has run of its chain.
LEMMA PassStep ==
  ASSUME RouterIInv, request.pc = "run", Proceed(Passed),
         Tail(request.chain) \in Unlocked => request.valid,
         Tail(request.chain) \in {<<"shell">>, <<"json", "shell">>, <<"json", "api">>, <<"api">>,
                                  <<"mirror">>, <<"app">>, <<"limit", "login">>, <<"login">>},
         Tail(request.chain) = <<"mirror">> => request.path[2] = "pi",
         Tail(request.chain) = <<"app">> => OwnApp(request, seen)
  PROVE  RouterIInv'
<1> DEFINE c == Tail(request.chain)
           r == Passed
<1>1. InOrder(request, seen)
  BY DEF RouterIInv, HandlingInv
<1>2. c \in Public \cup Locked \cup Unlocked
  BY DEF Public, Unlocked
<1>3. /\ r = [request EXCEPT !.chain = c]
      /\ request \in Handled
  BY <1>1 DEF Passed, InOrder
<1>4. c # <<>> /\ c \notin {<<"auth", "mirror">>, <<"agent">>, <<"forward">>, <<"auth", "app">>}
  <2>1. c # <<>>
    BY <1>2, PublicChains, LockedChains, UnlockedChains
  <2> QED
    BY <2>1
<1> HIDE DEF c, r
<1>5. /\ r \in Handled /\ r.chain = c /\ r.pc = "run"
      /\ r.cookie = request.cookie /\ r.valid = request.valid
      /\ r.host = request.host /\ r.path = request.path /\ r.port = request.port
  BY <1>2, <1>3 DEF Handled
<1>6. OwnApp(request, seen) => OwnApp(r, seen)
  BY <1>5 DEF OwnApp
<1>7. InOrder(r, seen)
  BY <1>4, <1>5, <1>6 DEF InOrder, c
<1> QED
  BY <1>5, <1>7, ProceedStep DEF r

\* What is known of a request in the middle of its chain.
LEMMA Running ==
  ASSUME RouterIInv, request.pc = "run"
  PROVE  /\ InOrder(request, seen) /\ request \in Handled
         /\ request.chain \in Public \cup Locked \cup Unlocked
         /\ request.cookie /\ live => request.valid
BY DEF RouterIInv, HandlingInv, InOrder, Handled

LEMMA AuthenticateStep ==
  ASSUME RouterIInv, Authenticate
  PROVE  RouterIInv'
<1>1. CASE Finish
  BY <1>1, AnswerStep
<1>2. CASE request.cookie /\ live /\ Proceed(Passed)
  <2> DEFINE c == request.chain
  <2>1. request.pc = "run" /\ Head(c) = "auth"
    BY DEF Authenticate, Runs
  <2>2. c \in Locked /\ request.valid
    BY <1>2, <2>1, Running, ChainSteps
  <2>3. /\ Tail(c) \in {<<"shell">>, <<"json", "shell">>, <<"json", "api">>, <<"mirror">>, <<"app">>}
        /\ Tail(c) = <<"mirror">> => c = <<"auth", "mirror">>
        /\ Tail(c) = <<"app">> => c = <<"auth", "app">>
    BY <2>2, LockedChains
  <2>4. /\ Tail(c) = <<"mirror">> => request.path[2] = "pi"
        /\ Tail(c) = <<"app">> => OwnApp(request, seen)
    BY <2>1, <2>3, Running DEF InOrder
  <2> QED
    BY <1>2, <2>1, <2>2, <2>3, <2>4, PassStep
<1> QED
  BY <1>1, <1>2 DEF Authenticate

LEMMA RequireJSONStep ==
  ASSUME RouterIInv, RequireJSON
  PROVE  RouterIInv'
<1>1. CASE Finish
  BY <1>1, AnswerStep
<1>2. CASE Proceed(Passed)
  <2> DEFINE c == request.chain
  <2>1. request.pc = "run" /\ Head(c) = "json"
    BY DEF RequireJSON, Runs
  <2>2. \/ c \in Unlocked /\ Tail(c) \in {<<"shell">>, <<"api">>}
        \/ Tail(c) = <<"limit", "login">>
    BY <2>1, Running, ChainSteps
  <2>3. <<"limit", "login">> \notin Unlocked
    BY DEF Unlocked
  <2>4. c \in Unlocked => request.valid
    BY <2>1, Running DEF InOrder
  <2>5. Tail(c) \in Unlocked => request.valid
    BY <2>2, <2>3, <2>4
  <2>6. Tail(c) # <<"mirror">> /\ Tail(c) # <<"app">>
    BY <2>2
  <2>7. Tail(c) \in {<<"shell">>, <<"api">>, <<"limit", "login">>}
    BY <2>2
  <2> QED
    BY <1>2, <2>1, <2>5, <2>6, <2>7, PassStep
<1> QED
  BY <1>1, <1>2 DEF RequireJSON

LEMMA LimitStep ==
  ASSUME RouterIInv, NEW ip \in Ip, Limit(ip)
  PROVE  RouterIInv'
<1>1. request.pc = "run" /\ Head(request.chain) = "limit" /\ UNCHANGED <<projects, issued, live>>
  BY DEF Limit, Runs
<1>2. CASE request' = [pc |-> "idle"] /\ seen' = {}
  BY <1>1, <1>2, FinishStep DEF RouterIInv, RouterTypeOK
<1>3. CASE request' = Passed /\ UNCHANGED seen
  <2>1. Tail(request.chain) = <<"login">>
    BY <1>1, Running, ChainSteps
  <2> DEFINE r == Passed
  <2>2. r = [request EXCEPT !.chain = <<"login">>] /\ request \in Handled
    BY <1>1, <2>1, Running DEF Passed
  <2>3. <<"login">> \in Public /\ <<"login">> \notin Unlocked
    BY DEF Public, Unlocked
  <2> HIDE DEF r
  <2>4. /\ r \in Handled /\ r.chain = <<"login">> /\ r.pc = "run"
        /\ r.cookie = request.cookie /\ r.valid = request.valid
    BY <1>1, <2>2, <2>3 DEF Handled
  <2>5. InOrder(r, seen)
    BY <2>3, <2>4 DEF InOrder
  <2>6. request' = r
    BY <1>3 DEF r
  <2>7. HandlingInv'
    BY <1>1, <1>3, <2>4, <2>5, <2>6 DEF RouterIInv, HandlingInv
  <2>8. RouterTypeOK' /\ NamesInv'
    BY <1>1, <1>3 DEF RouterIInv, RouterTypeOK, NamesInv
  <2> QED
    BY <2>7, <2>8 DEF RouterIInv
<1> QED
  BY <1>2, <1>3 DEF Limit

LEMMA ServeApiStep ==
  ASSUME RouterIInv, ServeApi
  PROVE  RouterIInv'
<1>1. request.pc = "run" /\ Head(request.chain) = "api"
  BY DEF ServeApi, Runs
<1>2. request.chain = <<"api">> /\ request \in Handled /\ request.valid
  <2>1. request.chain = <<"api">> /\ request \in Handled
    BY <1>1, Running, ChainSteps
  <2>2. <<"api">> \in Unlocked
    BY DEF Unlocked
  <2> QED
    BY <1>1, <2>1, <2>2, Running DEF InOrder
<1>3. PICK c : c = Mux(ApiRoutes, request.method, request.path).chain
  OBVIOUS
<1>4. c \in {<<"handler">>, <<"agent">>} /\ (c = <<"agent">> => request.path[2] = "projects")
  <2>1. request.path \in Seq(STRING) \ {<<>>}
    BY <1>2 DEF Handled
  <2> QED
    BY <1>3, <2>1, ApiRouteChain
<1>5. PICK r : r = [request EXCEPT !.chain = c]
  OBVIOUS
<1>6. c \in Unlocked
  BY <1>4 DEF Unlocked
<1>7. /\ r \in Handled /\ r.chain = c /\ r.pc = "run" /\ r.path = request.path
      /\ r.cookie = request.cookie /\ r.valid = request.valid
  BY <1>1, <1>2, <1>5, <1>6 DEF Handled
<1>8. c # <<>> /\ c \notin {<<"auth", "mirror">>, <<"mirror">>, <<"forward">>, <<"auth", "app">>, <<"app">>}
  BY <1>4
<1>9. InOrder(r, seen)
  BY <1>2, <1>4, <1>7, <1>8 DEF InOrder
<1> QED
  BY <1>1, <1>3, <1>5, <1>7, <1>9, ProceedStep DEF ServeApi

LEMMA ServeStep ==
  ASSUME RouterIInv, Serve
  PROVE  RouterIInv'
<1>1. request.pc = "run" /\ Head(request.chain) \in {"shell", "handler", "spa", "forward", "app"}
  BY DEF Serve
<1>2. InOrder(request, seen) /\ request \in Handled
  BY <1>1, Running
<1>3. request.chain \in Unlocked \cup {<<"spa">>}
  BY <1>1, Running, ChainSteps
<1>4. PICK r : r = [request EXCEPT !.pc = "served"]
  OBVIOUS
<1>5. /\ r \in Handled /\ r.chain = request.chain /\ r.pc = "served"
      /\ r.cookie = request.cookie /\ r.valid = request.valid
      /\ r.host = request.host /\ r.method = request.method /\ r.path = request.path
      /\ r.port = request.port /\ r.to = request.to
  BY <1>2, <1>4 DEF Handled
<1>6. OwnApp(request, seen) => OwnApp(r, seen)
  BY <1>5 DEF OwnApp
<1>7. Inside(request, seen) => Inside(r, seen)
  BY <1>5 DEF Inside
<1>8. InOrder(r, seen)
  BY <1>1, <1>2, <1>3, <1>5, <1>6, <1>7 DEF InOrder
<1> QED
  BY <1>1, <1>4, <1>5, <1>8, ProceedStep DEF Serve

LEMMA ArriveStep ==
  ASSUME RouterIInv, NEW q \in Request, NEW cookie \in BOOLEAN, Arrive(q, cookie)
  PROVE  RouterIInv'
<1>1. request' = Arrived(q, cookie) /\ seen' = projects /\ UNCHANGED <<projects, issued, live>>
  BY DEF Arrive
<1>2. live \in BOOLEAN
  BY DEF RouterIInv, RouterTypeOK
<1>3. PICK r : r = Arrived(q, cookie)
  OBVIOUS
<1>4. /\ q.host \in Seq(STRING) \ {<<>>} /\ q.method \in STRING
      /\ q.path \in Seq(STRING) \ {<<>>} /\ q.rest \in Seq(STRING) /\ q.json \in BOOLEAN
  BY RouterAssumption
<1>5. r \in Handled
  BY <1>2, <1>3, <1>4 DEF Arrived, Handled, NoPort
<1>6. r.pc = "host" /\ r.chain = <<>> /\ r.cookie = cookie /\ r.valid = (cookie /\ live)
  BY <1>3 DEF Arrived
<1>7. <<>> \notin Unlocked
  BY UnlockedChains
<1>8. InOrder(r, projects)
  BY <1>5, <1>6, <1>7 DEF InOrder
<1>9. HandlingInv'
  BY <1>1, <1>3, <1>6, <1>8 DEF HandlingInv
<1>10. RouterTypeOK' /\ NamesInv'
  BY <1>1 DEF RouterIInv, RouterTypeOK, NamesInv
<1> QED
  BY <1>9, <1>10 DEF RouterIInv

\* More rows make no request worse.
LEMMA MoreRows ==
  ASSUME NEW r, NEW rows, NEW more, rows \subseteq more, InOrder(r, rows)
  PROVE  InOrder(r, more)
<1>1. OwnApp(r, rows) => OwnApp(r, more)
  BY DEF OwnApp
<1>2. Inside(r, rows) => Inside(r, more)
  BY DEF Inside
<1> QED
  BY <1>1, <1>2 DEF InOrder

LEMMA DeleteProjectStep ==
  ASSUME RouterIInv, NEW p \in projects, DeleteProject(p)
  PROVE  RouterIInv'
<1>1. projects' = projects \ {p} /\ UNCHANGED <<issued, live, request, seen>>
  BY DEF DeleteProject
<1>2. RouterTypeOK' /\ NamesInv'
  BY <1>1 DEF RouterIInv, RouterTypeOK, NamesInv
<1>3. HandlingInv'
  BY <1>1 DEF RouterIInv, HandlingInv
<1> QED
  BY <1>2, <1>3 DEF RouterIInv

LEMMA CreateProjectStep ==
  ASSUME RouterIInv, NEW name \in Name, CreateProject(name)
  PROVE  RouterIInv'
<1> DEFINE NewRow(prod, dev) == [id |-> Ids[issued + 1], name |-> name, prod |-> prod, dev |-> dev]
<1>0. PICK prod \in Port, dev \in Port :
        /\ projects' = projects \cup {NewRow(prod, dev)}
        /\ seen' = IF request.pc = "idle" THEN seen ELSE seen \cup {NewRow(prod, dev)}
  BY DEF CreateProject
<1>1. PICK row :
        /\ row = [id |-> Ids[issued + 1], name |-> name, prod |-> prod, dev |-> dev]
        /\ projects' = projects \cup {row}
        /\ seen' = IF request.pc = "idle" THEN seen ELSE seen \cup {row}
  BY <1>0
<1> HIDE DEF NewRow
<1>2. /\ NamePattern(name) /\ GetByName(name) = {} /\ issued < Len(Ids)
      /\ issued' = issued + 1 /\ UNCHANGED <<live, request>>
  BY DEF CreateProject, ValidateName
<1>3. issued + 1 \in DOMAIN Ids /\ issued + 1 \in 0 .. Len(Ids)
  BY <1>2, RouterAssumption DEF RouterIInv, RouterTypeOK
<1>4. row \in Row
  BY <1>1, <1>3 DEF Row
<1>5. RouterTypeOK'
  BY <1>1, <1>2, <1>3, <1>4 DEF RouterIInv, RouterTypeOK
<1>6. NamesInv'
  <2>1. row.name = name /\ \A p \in projects : p.name # name
    BY <1>1, <1>2 DEF GetByName
  <2> QED
    BY <1>1, <1>2, <2>1 DEF RouterIInv, NamesInv
<1>7. HandlingInv'
  <2>1. seen \subseteq seen' /\ (request.pc # "idle" => row \in seen')
    BY <1>1
  <2> QED
    BY <1>1, <1>2, <2>1, MoreRows DEF RouterIInv, HandlingInv
<1> QED
  BY <1>5, <1>6, <1>7 DEF RouterIInv

LEMMA OtherStep ==
  ASSUME RouterIInv, UNCHANGED <<projects, issued, request, seen>>,
         live' \in BOOLEAN, live' => live
  PROVE  RouterIInv'
<1>1. RouterTypeOK' /\ NamesInv'
  BY DEF RouterIInv, RouterTypeOK, NamesInv
<1>2. HandlingInv'
  BY DEF RouterIInv, HandlingInv
<1> QED
  BY <1>1, <1>2 DEF RouterIInv

\* A sequence is its front and its last element.
LEMMA FrontAndLast ==
  ASSUME NEW s \in Seq(STRING), s # <<>>
  PROVE  /\ SubSeq(s, 1, Len(s) - 1) \in Seq(STRING)
         /\ s = SubSeq(s, 1, Len(s) - 1) \o <<Seqs!Last(s)>>
<1>1. Len(s) \in 1 .. Len(s) /\ 1 \in 1 .. Len(s)
  BY EmptySeq
<1>2. SubSeq(s, 1, Len(s)) = SubSeq(s, 1, Len(s) - 1) \o <<s[Len(s)]>>
  BY <1>1, SubSeqRecursiveSecond
<1>3. SubSeq(s, 1, Len(s)) = s
  BY SubSeqFull
<1>4. \A i \in 1 .. Len(s) - 1 : s[i] \in STRING
  OBVIOUS
<1>5. SubSeq(s, 1, Len(s) - 1) \in Seq(STRING)
  BY <1>4, SubSeqProperties
<1> QED
  BY <1>2, <1>3, <1>5 DEF Seqs!Last

LEMMA ConcatTwo ==
  ASSUME NEW S, NEW s \in Seq(S), NEW a \in S, NEW b \in S
  PROVE  (s \o <<a>>) \o <<b>> = s \o <<a, b>>
<1>1. /\ <<a>> \in Seq(S) /\ Len(<<a>>) = 1 /\ <<a>>[1] = a
      /\ <<b>> \in Seq(S) /\ Len(<<b>>) = 1 /\ <<b>>[1] = b
  OBVIOUS
<1>2. <<a, b>> \in Seq(S) /\ Len(<<a, b>>) = 2 /\ <<a, b>>[1] = a /\ <<a, b>>[2] = b
  OBVIOUS
<1> DEFINE u == s \o <<a>>
           v == u \o <<b>>
           w == s \o <<a, b>>
           n == Len(s)
<1>3. /\ u \in Seq(S) /\ Len(u) = n + 1 /\ u[n + 1] = a /\ \A i \in 1 .. n : u[i] = s[i]
      /\ n \in Nat
  BY <1>1, ConcatProperties
<1>4. /\ w \in Seq(S) /\ Len(w) = n + 2 /\ w[n + 1] = a /\ w[n + 2] = b
      /\ \A i \in 1 .. n : w[i] = s[i]
  BY <1>2, ConcatProperties
<1> HIDE DEF u
<1>5. /\ v \in Seq(S) /\ Len(v) = n + 2 /\ v[n + 2] = b
      /\ \A i \in 1 .. n + 1 : v[i] = u[i]
  BY <1>1, <1>3, ConcatProperties
<1> HIDE DEF v, w, n
<1>6. ASSUME NEW i \in 1 .. n + 2 PROVE v[i] = w[i]
  <2>1. i \in 1 .. n \/ i = n + 1 \/ i = n + 2
    BY <1>3
  <2>2. CASE i \in 1 .. n
    BY <1>3, <1>4, <1>5, <2>2
  <2>3. CASE i = n + 1
    BY <1>3, <1>4, <1>5, <2>3
  <2>4. CASE i = n + 2
    BY <1>4, <1>5, <2>4
  <2> QED
    BY <2>1, <2>2, <2>3, <2>4
<1>7. v = w
  BY <1>4, <1>5, <1>6, SeqEqual
<1> QED
  BY <1>7 DEF u, v, w

\* The project that is looked up for a host name has that host name.
LEMMA FoundByHost ==
  ASSUME NEW host \in Seq(STRING) \ {<<>>}, Seqs!Last(host) = ".base",
         NEW p, p.name = LookupName(Label(host))
  PROVE  \E env \in {"prod", "dev"} : host = Url(p, env) /\ TargetPort(Label(host), p) = PortOf(p, env)
<1>1. PICK label : label = Label(host)
  OBVIOUS
<1>2. label \in Seq(STRING) /\ host = label \o <<".base">>
  BY <1>1, FrontAndLast DEF Label
<1>3. CASE WantDev(label)
  <2>1. label = p.name \o <<"-dev">> /\ p.name \in Seq(STRING)
    BY <1>1, <1>2, <1>3, FrontAndLast DEF WantDev, LookupName
  <2>2. host = p.name \o <<"-dev", ".base">>
    BY <1>2, <2>1, ConcatTwo
  <2>3. host = Url(p, "dev") /\ TargetPort(label, p) = PortOf(p, "dev")
    BY <1>3, <2>2 DEF Url, TargetPort, PortOf
  <2> QED
    BY <1>1, <2>3
<1>4. CASE ~WantDev(label)
  <2>1. host = Url(p, "prod") /\ TargetPort(label, p) = PortOf(p, "prod")
    BY <1>1, <1>2, <1>4 DEF Url, TargetPort, PortOf, LookupName
  <2> QED
    BY <1>1, <2>1
<1> QED
  BY <1>3, <1>4

LEMMA DispatchStep ==
  ASSUME RouterIInv, Dispatch
  PROVE  RouterIInv'
<1>1. request.pc = "host"
  BY DEF Dispatch
<1>2. InOrder(request, seen) /\ request \in Handled /\ projects \subseteq seen
  BY <1>1 DEF RouterIInv, HandlingInv, InOrder
<1>3. CASE Finish
  BY <1>3, AnswerStep
<1>4. CASE Proceed([request EXCEPT !.pc = "run",
                      !.chain = Mux(Routes, request.method, request.path).chain])
  <2>1. PICK c : c = Mux(Routes, request.method, request.path).chain
    OBVIOUS
  <2>2. request.path \in Seq(STRING) \ {<<>>}
    BY <1>2 DEF Handled
  <2>3. /\ c \in {<<"json", "limit", "login">>, <<"spa">>, <<"auth", "shell">>,
                  <<"auth", "json", "shell">>, <<"auth", "json", "api">>, <<"auth", "mirror">>}
        /\ c = <<"auth", "mirror">> => request.path[2] = "pi"
    BY <2>1, <2>2, RouteChain
  <2>4. c \in Public \cup Locked
    BY <2>3 DEF Public, Locked
  <2>5. c \notin Unlocked /\ c # <<>>
    BY <2>4, PublicChains, LockedChains
  <2>6. <<"mirror">> \in Unlocked /\ <<"agent">> \in Unlocked /\ <<"forward">> \in Unlocked /\ <<"app">> \in Unlocked
    BY DEF Unlocked
  <2>7. c # <<"auth", "app">>
    BY <2>3
  <2>8. PICK r : r = [request EXCEPT !.pc = "run", !.chain = c]
    OBVIOUS
  <2>9. /\ r \in Handled /\ r.chain = c /\ r.pc = "run" /\ r.path = request.path
        /\ r.cookie = request.cookie /\ r.valid = request.valid
    BY <1>2, <2>4, <2>8 DEF Handled
  <2>10. InOrder(r, seen)
    BY <2>3, <2>5, <2>6, <2>7, <2>9 DEF InOrder
  <2> QED
    BY <1>1, <1>4, <2>1, <2>8, <2>9, <2>10, ProceedStep
<1>5. ASSUME request.host \notin Alias, ~Finish
      PROVE  RouterIInv'
  <2>1. PICK label : label = Label(request.host)
    OBVIOUS
  <2>2. PICK p \in Found(label) :
          Proceed([request EXCEPT !.pc = "run", !.chain = <<"auth", "app">>,
                                  !.port = TargetPort(label, p)])
    BY <1>5, <2>1 DEF Dispatch
  <2>3. Seqs!Last(request.host) = ".base"
    BY <1>5 DEF Dispatch
  <2>4. p \in projects /\ p \in seen /\ p.name = LookupName(label)
    BY <1>2, <2>2 DEF Found, GetByName
  <2>5. request.host \in Seq(STRING) \ {<<>>}
    BY <1>2 DEF Handled
  <2>6. PICK port : port = TargetPort(label, p)
    OBVIOUS
  <2>7. port \in Nat
    <3>1. p \in Row
      BY <2>4 DEF RouterIInv, RouterTypeOK
    <3> QED
      BY <2>6, <3>1, RouterAssumption DEF Row, TargetPort, NoPort
  <2>8. PICK r : r = [request EXCEPT !.pc = "run", !.chain = <<"auth", "app">>, !.port = port]
    OBVIOUS
  <2>9. <<"auth", "app">> \in Locked
    BY DEF Locked
  <2>10. /\ r \in Handled /\ r.chain = <<"auth", "app">> /\ r.pc = "run"
         /\ r.host = request.host /\ r.port = port
         /\ r.cookie = request.cookie /\ r.valid = request.valid
    BY <1>2, <2>7, <2>8, <2>9 DEF Handled
  <2>11. OwnApp(r, seen)
    BY <2>1, <2>3, <2>4, <2>5, <2>6, <2>10, FoundByHost DEF OwnApp
  <2>12. <<"auth", "app">> \notin Unlocked
    BY DEF Unlocked
  <2>13. InOrder(r, seen)
    BY <2>10, <2>11, <2>12 DEF InOrder
  <2> QED
    BY <1>1, <2>2, <2>6, <2>8, <2>10, <2>13, ProceedStep
<1> QED
  BY <1>3, <1>4, <1>5 DEF Dispatch

LEMMA PlainSegments ==
  ASSUME NEW s \in Seq(Plain)
  PROVE  s \in Seq(Segment) /\ \A i \in DOMAIN s : s[i] \notin {"", ".", ".."}
<1>1. Plain \subseteq Segment /\ \A x \in Plain : x \notin {"", ".", ".."}
  BY DEF Plain
<1>2. s \in Seq(Segment)
  BY <1>1, SeqMonotonic
<1>3. \A i \in DOMAIN s : s[i] \in Plain
  OBVIOUS
<1> QED
  BY <1>1, <1>2, <1>3

LEMMA ElementsOf ==
  ASSUME NEW S, NEW s \in Seq(S)
  PROVE  \A i \in DOMAIN s : s[i] \in S
OBVIOUS

LEMMA SequenceOver ==
  ASSUME NEW S, NEW T, NEW s \in Seq(S), \A i \in DOMAIN s : s[i] \in T
  PROVE  s \in Seq(T)
<1>1. Len(s) \in Int /\ \A i \in 1 .. Len(s) : s[i] \in T
  OBVIOUS
<1>2. SubSeq(s, 1, Len(s)) \in Seq(T)
  BY <1>1, SubSeqProperties
<1> QED
  BY <1>2, SubSeqFull

LEMMA TripleIsSequence ==
  ASSUME NEW S, NEW x \in S, NEW y \in S, NEW z \in S
  PROVE  <<x, y, z>> \in Seq(S) /\ Len(<<x, y, z>>) = 3
OBVIOUS

LEMMA PrefixOfTwo ==
  ASSUME NEW S, NEW s \in Seq(S), Len(s) >= 2
  PROVE  Seqs!IsPrefix(<<s[1], s[2]>>, s)
<1> DEFINE a == <<s[1], s[2]>>
           b == SubSeq(s, 1, 2)
<1>1. /\ a \in Seq(S) /\ Len(a) = 2 /\ a[1] = s[1] /\ a[2] = s[2]
      /\ SubSeq(a, 1, 2) = a
  <2>1. s[1] \in S /\ s[2] \in S
    OBVIOUS
  <2>2. a \in Seq(S) /\ Len(a) = 2 /\ a[1] = s[1] /\ a[2] = s[2]
    BY <2>1
  <2> QED
    BY <2>2, SubSeqFull
<1>2. b \in Seq(S) /\ Len(b) = 2 /\ b[1] = s[1] /\ b[2] = s[2]
  <2>1. \A i \in 1 .. 2 : s[i] \in S
    OBVIOUS
  <2> QED
    BY <2>1, SubSeqProperties
<1> HIDE DEF a, b
<1>3. a = b
  <2>1. \A i \in 1 .. 2 : a[i] = b[i]
    BY <1>1, <1>2
  <2> QED
    BY <1>1, <1>2, <2>1, SeqEqual
<1>4. Len(a) <= Len(s) /\ SubSeq(a, 1, Len(a)) = SubSeq(s, 1, Len(a))
  BY <1>1, <1>3 DEF b
<1> QED
  BY <1>4 DEF Seqs!IsPrefix, a

LEMMA PrefixOfThree ==
  ASSUME NEW S, NEW s \in Seq(S), Len(s) >= 3
  PROVE  Seqs!IsPrefix(<<s[1], s[2], s[3]>>, s)
<1> DEFINE a == <<s[1], s[2], s[3]>>
           b == SubSeq(s, 1, 3)
<1>1. /\ a \in Seq(S) /\ Len(a) = 3 /\ a[1] = s[1] /\ a[2] = s[2] /\ a[3] = s[3]
      /\ SubSeq(a, 1, 3) = a
  <2>1. s[1] \in S /\ s[2] \in S /\ s[3] \in S
    OBVIOUS
  <2>2. a \in Seq(S) /\ Len(a) = 3 /\ a[1] = s[1] /\ a[2] = s[2] /\ a[3] = s[3]
    BY <2>1
  <2> QED
    BY <2>2, SubSeqFull
<1>2. b \in Seq(S) /\ Len(b) = 3 /\ b[1] = s[1] /\ b[2] = s[2] /\ b[3] = s[3]
  <2>1. \A i \in 1 .. 3 : s[i] \in S
    OBVIOUS
  <2> QED
    BY <2>1, SubSeqProperties
<1> HIDE DEF a, b
<1>3. a = b
  <2>1. \A i \in 1 .. 3 : a[i] = b[i]
    BY <1>1, <1>2
  <2> QED
    BY <1>1, <1>2, <2>1, SeqEqual
<1>4. Len(a) <= Len(s) /\ SubSeq(a, 1, Len(a)) = SubSeq(s, 1, Len(a))
  BY <1>1, <1>3 DEF b
<1> QED
  BY <1>4 DEF Seqs!IsPrefix, a

\* What the mirror lets through is inside.
LEMMA MirrorInside ==
  ASSUME NEW r, NEW rows, r.to \in Seq(Plain), r.path[2] = "pi", projects \subseteq rows,
         MirrorAccessAllowed(r.method, r.to)
  PROVE  Inside(r, rows)
<1>0. PICK to : to = r.to
  OBVIOUS
<1>1. to \in Seq(Segment) /\ \A i \in DOMAIN to : to[i] \notin {"", ".", ".."}
  BY <1>0, PlainSegments
<1>2. Len(to) >= 2 /\ to[1] = "v1"
  BY <1>0 DEF MirrorAccessAllowed
<1>3. Seqs!IsPrefix(<<"v1", to[2]>>, to)
  BY <1>1, <1>2, PrefixOfTwo
<1>4. CASE to[2] \in {"auth", "custom"} \/ (to[2] = "sessions" /\ r.method = "GET")
  BY <1>0, <1>1, <1>3, <1>4 DEF Inside
<1>5. CASE to[2] = "projects" /\ Len(to) >= 4 /\ to[4] = "sessions"
           /\ \E p \in projects : Slug[p.name] = to[3]
  <2>1. PICK p \in rows : Slug[p.name] = to[3]
    BY <1>5
  <2>2. Seqs!IsPrefix(<<"v1", "projects", Slug[p.name]>>, to)
    <3>1. Len(to) \in Nat
      BY <1>1, LenProperties
    <3>2. Len(to) >= 3
      BY <1>5, <3>1
    <3>3. Seqs!IsPrefix(<<to[1], to[2], to[3]>>, to)
      BY <1>1, <3>2, PrefixOfThree
    <3> QED
      BY <1>2, <1>5, <2>1, <3>3
  <2>3. Len(to) > 3
    <3>1. Len(to) \in Nat
      BY <1>1, LenProperties
    <3> QED
      BY <1>5, <3>1
  <2> QED
    BY <1>0, <1>1, <1>5, <2>1, <2>2, <2>3 DEF Inside
<1> QED
  BY <1>0, <1>4, <1>5 DEF MirrorAccessAllowed

LEMMA ForwardChain == <<"forward">> \in Unlocked /\ <<"forward">> \in Public \cup Locked \cup Unlocked
BY DEF Unlocked

\* A request that goes to the agent-server.
LEMMA ForwardStep ==
  ASSUME RouterIInv, request.pc = "run", request.chain \in Unlocked, NEW to \in Seq(Segment),
         Proceed([request EXCEPT !.chain = <<"forward">>, !.to = to]),
         Inside([request EXCEPT !.chain = <<"forward">>, !.to = to], seen)
  PROVE  RouterIInv'
<1>1. request \in Handled /\ request.valid
  BY Running DEF InOrder
<1>2. PICK r : r = [request EXCEPT !.chain = <<"forward">>, !.to = to]
  OBVIOUS
<1>3. /\ r \in Handled /\ r.chain = <<"forward">> /\ r.pc = "run"
      /\ r.cookie = request.cookie /\ r.valid = request.valid
  BY <1>1, <1>2, ForwardChain DEF Handled
<1>4. InOrder(r, seen)
  BY <1>1, <1>2, <1>3 DEF InOrder
<1> QED
  BY <1>2, <1>3, <1>4, ProceedStep

LEMMA MirrorStep ==
  ASSUME RouterIInv, Mirror
  PROVE  RouterIInv'
<1>1. CASE Finish
  BY <1>1, AnswerStep
<1>2. PICK path : path = Clean(request.rest)
  OBVIOUS
<1>3. CASE /\ MirrorAccessAllowed(request.method, path)
           /\ Proceed([request EXCEPT !.chain = <<"forward">>, !.to = path])
  <2>1. request.pc = "run" /\ Head(request.chain) = "mirror"
    BY DEF Mirror, Runs
  <2>2. request.chain = <<"mirror">> /\ request \in Handled /\ request.path[2] = "pi"
    BY <2>1, Running, ChainSteps DEF InOrder
  <2>3. path \in Seq(Plain)
    <3>1. request.rest \in Seq(STRING)
      BY <2>2 DEF Handled
    <3> QED
      BY <1>2, <3>1, CleanIsPlain
  <2>4. path \in Seq(Segment)
    BY <2>3, PlainSegments
  <2>5. PICK r : r = [request EXCEPT !.chain = <<"forward">>, !.to = path]
    OBVIOUS
  <2>6. r.to = path /\ r.path = request.path /\ r.method = request.method
    BY <2>2, <2>5 DEF Handled
  <2>7. projects \subseteq seen
    BY <2>1 DEF RouterIInv, HandlingInv
  <2>8. Inside(r, seen)
    BY <1>3, <2>2, <2>3, <2>6, <2>7, MirrorInside
  <2>9. <<"mirror">> \in Unlocked
    BY DEF Unlocked
  <2> QED
    BY <1>3, <2>1, <2>2, <2>4, <2>5, <2>8, <2>9, ForwardStep
<1> QED
  BY <1>1, <1>2, <1>3 DEF Mirror

LEMMA AgentProxyStep ==
  ASSUME RouterIInv, AgentProxy
  PROVE  RouterIInv'
<1>1. CASE Finish
  BY <1>1, AnswerStep
<1>2. ASSUME NEW p \in projects, p.id = request.path[3],
             Proceed([request EXCEPT !.chain = <<"forward">>,
                        !.to = CleanAgentServerPath(<<"v1", "projects", Slug[p.name]>>, request.rest)])
      PROVE  RouterIInv'
  <2>1. request.pc = "run" /\ Head(request.chain) = "agent"
    BY DEF AgentProxy, Runs
  <2>2. request.chain = <<"agent">> /\ request \in Handled /\ request.path[2] = "projects"
    BY <2>1, Running, ChainSteps DEF InOrder
  <2>3. PICK rest : rest = Clean(request.rest)
    OBVIOUS
  <2>4. rest \in Seq(Plain)
    <3>1. request.rest \in Seq(STRING)
      BY <2>2 DEF Handled
    <3> QED
      BY <2>3, <3>1, CleanIsPlain
  <2>5. PICK slug : slug = Slug[p.name]
    OBVIOUS
  <2>6. slug \in Plain
    <3>1. slug \in STRING /\ slug \notin {"", ".", ".."}
      BY <1>2, <2>5, RouterAssumption DEF RouterIInv, RouterTypeOK, Row, NamesInv, NamePattern
    <3> QED
      BY <3>1 DEF Plain, Segment
  <2>7. "v1" \in Plain /\ "projects" \in Plain
    BY DEF Plain, Segment
  <2>8. PICK prefix : prefix = <<"v1", "projects", slug>>
    OBVIOUS
  <2>9. prefix \in Seq(Plain) /\ Len(prefix) \in Nat \ {0}
    <3>1. prefix \in Seq(Plain) /\ Len(prefix) = 3
      BY <2>6, <2>7, <2>8, TripleIsSequence
    <3> QED
      BY <3>1
  <2>10. PICK to : to = prefix \o rest
    OBVIOUS
  <2>11. to \in Seq(Plain) /\ Len(to) >= Len(prefix)
    BY <2>4, <2>9, <2>10, ConcatProperties
  <2>12. to \in Seq(Segment) /\ \A i \in DOMAIN to : to[i] \notin {"", ".", ".."}
    BY <2>11, PlainSegments
  <2>13. Seqs!IsPrefix(prefix, to)
    <3>1. 1 \in 1 .. Len(prefix) /\ Len(prefix) \in 1 .. Len(prefix)
      BY <2>9
    <3>2. SubSeq(to, 1, Len(prefix)) = SubSeq(prefix, 1, Len(prefix))
      BY <2>4, <2>9, <2>10, <3>1, SubSeqOfConcat1
    <3> QED
      BY <2>11, <3>2 DEF Seqs!IsPrefix
  <2>14. PICK r : r = [request EXCEPT !.chain = <<"forward">>, !.to = to]
    OBVIOUS
  <2>15. r.to = to /\ r.path = request.path
    BY <2>2, <2>14 DEF Handled
  <2>16. p \in seen
    BY <1>2, <2>1 DEF RouterIInv, HandlingInv
  <2>17. Inside(r, seen)
    BY <1>2, <2>2, <2>5, <2>8, <2>12, <2>13, <2>15, <2>16 DEF Inside
  <2>18. Proceed(r)
    BY <1>2, <2>3, <2>5, <2>8, <2>10, <2>14 DEF CleanAgentServerPath
  <2>19. <<"agent">> \in Unlocked
    BY DEF Unlocked
  <2> QED
    BY <2>1, <2>2, <2>12, <2>14, <2>17, <2>18, <2>19, ForwardStep
<1> QED
  BY <1>1, <1>2 DEF AgentProxy

-----------------------------------------------------------------------------
(***************************************************************************)
(* The theorems about the router.                                          *)
(***************************************************************************)

LEMMA RouterInitial ==
  ASSUME Init
  PROVE  RouterIInv
<1>1. PICK old \in [1 .. Legacy -> LegacyRow], kept \in SUBSET (1 .. Legacy) :
        /\ \A i, j \in kept : i # j => old[i].name # old[j].name
        /\ projects = {old[i] : i \in kept}
  BY DEF Init
<1>2. issued = Legacy /\ live = FALSE /\ request = [pc |-> "idle"] /\ seen = {}
  BY DEF Init
<1>3. \A i \in kept : old[i] \in Row /\ NamePattern(old[i].name)
  BY <1>1 DEF LegacyRow
<1>4. RouterTypeOK
  <2>1. projects \subseteq Row
    BY <1>1, <1>3
  <2>2. Len(Ids) \in Nat /\ Legacy \in 0 .. Len(Ids)
    BY RouterAssumption, LenProperties
  <2> QED
    BY <1>2, <2>1, <2>2 DEF RouterTypeOK
<1>5. NamesInv
  BY <1>1, <1>3 DEF NamesInv
<1>6. HandlingInv
  BY <1>2 DEF HandlingInv
<1> QED
  BY <1>4, <1>5, <1>6 DEF RouterIInv

LEMMA RouterStep ==
  ASSUME RouterIInv, [Next]_vars
  PROVE  RouterIInv'
<1>0. live \in BOOLEAN
  BY DEF RouterIInv, RouterTypeOK
<1>1. CASE SessionEnds
  BY <1>0, <1>1, OtherStep DEF SessionEnds
<1>2. CASE Background
  BY <1>0, <1>2, OtherStep DEF Background, routerVars
<1>3. CASE UNCHANGED vars
  BY <1>0, <1>3, OtherStep DEF vars, routerVars
<1>4. CASE Login
  BY <1>0, <1>4, FinishStep DEF Login
<1>5. CASE Answer
  BY <1>5, AnswerStep DEF Answer
<1> QED
  BY <1>1, <1>2, <1>3, <1>4, <1>5, CreateProjectStep, DeleteProjectStep, ArriveStep,
     DispatchStep, AuthenticateStep, RequireJSONStep, LimitStep, ServeApiStep, MirrorStep,
     AgentProxyStep, ServeStep DEF Next

\* RouterIInv holds in every state.
THEOREM RouterInductive == Spec => []RouterIInv
<1>1. Init => RouterIInv
  BY RouterInitial
<1>2. RouterIInv /\ [Next]_vars => RouterIInv'
  BY RouterStep
<1> QED
  BY <1>1, <1>2, PTL DEF Spec

\* Whatever method, path and host a request has, and whenever its session ends: a
\* handler or backend other than login and the dashboard's files is reached only
\* with a session that was valid while the request was handled.
THEOREM SessionRequired == Spec => []ProtectedNeedsSession
<1>1. RouterIInv => ProtectedNeedsSession
  <2> SUFFICES ASSUME RouterIInv, request.pc = "served", Head(request.chain) # "spa"
               PROVE  request.valid
    BY DEF ProtectedNeedsSession, Served
  <2>1. InOrder(request, seen)
    BY DEF RouterIInv, HandlingInv
  <2>2. Head(<<"spa">>) = "spa"
    OBVIOUS
  <2> QED
    BY <2>1, <2>2 DEF InOrder
<1> QED
  BY <1>1, RouterInductive, PTL

\* Whatever segments the path has, what the agent-server is asked for lies where
\* mirrorAccessAllowed or the project's id let the request in.
THEOREM ForwardedInside == Spec => []ForwardsInside
<1>1. RouterIInv => ForwardsInside
  <2> SUFFICES ASSUME RouterIInv, request.pc = "served", Head(request.chain) = "forward"
               PROVE  Inside(request, seen)
    BY DEF ForwardsInside, Served, Inside
  <2>1. InOrder(request, seen)
    BY DEF RouterIInv, HandlingInv
  <2>2. request.chain \in Unlocked \/ request.chain = <<"spa">>
    BY <2>1 DEF InOrder
  <2>3. Head(<<"spa">>) = "spa"
    OBVIOUS
  <2>4. request.chain = <<"forward">>
    BY <2>2, <2>3, UnlockedChains
  <2> QED
    BY <2>1, <2>4 DEF InOrder
<1> QED
  BY <1>1, RouterInductive, PTL

\* A request for a subdomain reaches a port its host name stood for at some time
\* since the request arrived, however projects come and go meanwhile.
THEOREM OwnAppReached == Spec => []ReachesOwnApp
<1>1. RouterIInv => ReachesOwnApp
  <2> SUFFICES ASSUME RouterIInv, request.pc = "served", Head(request.chain) = "app"
               PROVE  OwnApp(request, seen)
    BY DEF ReachesOwnApp, Served, OwnApp
  <2>1. InOrder(request, seen)
    BY DEF RouterIInv, HandlingInv
  <2>2. request.chain \in Unlocked \/ request.chain = <<"spa">>
    BY <2>1 DEF InOrder
  <2>3. Head(<<"spa">>) = "spa"
    OBVIOUS
  <2>4. request.chain = <<"app">>
    BY <2>2, <2>3, UnlockedChains
  <2> QED
    BY <2>1, <2>4 DEF InOrder
<1> QED
  BY <1>1, RouterInductive, PTL

LEMMA FrontOfConcat ==
  ASSUME NEW S, NEW s \in Seq(S), NEW a \in S
  PROVE  Label(s \o <<a>>) = s
<1>1. /\ <<a>> \in Seq(S) /\ Len(<<a>>) = 1
  OBVIOUS
<1> DEFINE t == s \o <<a>>
           f == SubSeq(t, 1, Len(s))
<1>2. /\ t \in Seq(S) /\ Len(t) = Len(s) + 1
      /\ \A i \in 1 .. Len(s) : t[i] = s[i]
      /\ Len(s) \in Nat
  BY <1>1, ConcatProperties
<1>3. \A i \in 1 .. Len(s) : t[i] \in S
  BY <1>2
<1> HIDE DEF t
<1>4. f \in Seq(S) /\ Len(f) = Len(s) /\ \A i \in 1 .. Len(s) : f[i] = t[i]
  BY <1>2, <1>3, SubSeqProperties
<1> HIDE DEF f
<1>5. f = s
  BY <1>2, <1>4, SeqEqual
<1>6. Len(t) - 1 = Len(s)
  BY <1>2
<1> QED
  BY <1>5, <1>6 DEF Label, f, t

\* The label of an environment of a project whose name ValidateName accepts leads
\* to that environment, if it has a port, and to no other, also while the table has
\* rows of older versions, whose names may end in "-dev".
THEOREM HostNamesUnambiguous == Spec => []UrlsUnambiguous
<1>1. RouterIInv => UrlsUnambiguous
  <2> SUFFICES ASSUME RouterIInv, NEW p \in projects, NEW env \in {"prod", "dev"},
                      ValidateName(p.name)
               PROVE  LET label == Label(Url(p, env)) IN
                      /\ Found(label) = IF PortOf(p, env) = NoPort THEN {} ELSE {p}
                      /\ TargetPort(label, p) = PortOf(p, env)
    BY DEF UrlsUnambiguous
  <2> DEFINE Leads == /\ LookupName(Label(Url(p, env))) = p.name
                      /\ TargetPort(Label(Url(p, env)), p) = PortOf(p, env)
  <2>1. PICK S : S = STRING \cup {"-dev", ".base"}
    OBVIOUS
  <2>2. /\ p.name \in Seq(STRING) /\ p.name # <<>> /\ Seqs!Last(p.name) # "-dev"
    BY RouterAssumption DEF RouterIInv, RouterTypeOK, Row, NamePattern, ValidateName
  <2>3. p.name \in Seq(S) /\ "-dev" \in S /\ ".base" \in S
    BY <2>1, <2>2, SeqMonotonic
  <2>5. ASSUME env = "prod" PROVE Leads
    <3>1. Label(Url(p, env)) = p.name
      BY <2>3, <2>5, FrontOfConcat DEF Url
    <3>2. ~WantDev(p.name)
      BY <2>2 DEF WantDev
    <3> QED
      BY <2>5, <3>1, <3>2 DEF LookupName, TargetPort, PortOf
  <2>6. ASSUME env = "dev" PROVE Leads
    <3>1. PICK label : label = p.name \o <<"-dev">>
      OBVIOUS
    <3>2. /\ label \in Seq(S) /\ label # <<>> /\ Seqs!Last(label) = "-dev" /\ Label(label) = p.name
      <4>1. <<"-dev">> \in Seq(S) /\ Len(<<"-dev">>) = 1 /\ <<"-dev">>[1] = "-dev"
        BY <2>3
      <4>2. /\ label \in Seq(S) /\ Len(label) = Len(p.name) + 1 /\ Len(p.name) \in Nat
            /\ label[Len(p.name) + 1] = "-dev"
        BY <2>3, <3>1, <4>1, ConcatProperties
      <4>3. label # <<>>
        BY <4>2, EmptySeq
      <4>4. Label(label) = p.name
        BY <2>3, <3>1, FrontOfConcat
      <4> QED
        BY <4>2, <4>3, <4>4 DEF Seqs!Last
    <3>3. Url(p, env) = label \o <<".base">>
      BY <2>3, <2>6, <3>1, ConcatTwo DEF Url
    <3>4. Label(Url(p, env)) = label
      BY <2>3, <3>2, <3>3, FrontOfConcat
    <3>5. WantDev(label) /\ LookupName(label) = p.name
      BY <3>2 DEF WantDev, LookupName, Label
    <3> QED
      BY <2>6, <3>4, <3>5 DEF TargetPort, PortOf
  <2>7. GetByName(p.name) = {p}
    BY DEF GetByName, RouterIInv, NamesInv
  <2> QED
    BY <2>5, <2>6, <2>7 DEF Found
<1> QED
  BY <1>1, RouterInductive, PTL
==============================================================================
