--------------------------- MODULE EgressProxyProofs ---------------------------
(***************************************************************************)
(* Proofs about the matcher (module Wildcard), for all patterns and hosts, *)
(* and about module EgressProxy, for any number of requests, any lists of  *)
(* entries and any amount of data.                                         *)
(***************************************************************************)
EXTENDS EgressProxy, SequenceTheorems, WellFoundedInduction, TLAPS

-----------------------------------------------------------------------------
-----------------------------------------------------------------------------
(***************************************************************************)
(* Induction up to a number, by the least counterexample, and recursion    *)
(* over the numbers, for functions: both are first-order.                  *)
(***************************************************************************)

LEMMA InductionUpTo ==
  ASSUME NEW N \in Nat, NEW T, 0 \in T, \A n \in 0 .. N - 1 : n \in T => n + 1 \in T
  PROVE  0 .. N \subseteq T
<1> DEFINE U == {n \in 0 .. N : n \notin T}
           R == {ss \in Nat \X Nat : ss[1] < ss[2]}
<1> SUFFICES ASSUME U # {} PROVE FALSE
  OBVIOUS
<1>1. IsWellFoundedOn(R, Nat)
  BY NatLessThanWellFounded DEF OpToRel
<1>2. U \subseteq Nat
  OBVIOUS
<1> HIDE DEF R
<1>3. PICK n \in U : \A m \in U : ~(<<m, n>> \in R)
  BY <1>1, <1>2, WFMin
<1>4. n # 0 /\ n - 1 \in 0 .. N - 1 /\ n \in 0 .. N /\ n \notin T
  BY <1>3
<1>5. <<n - 1, n>> \in R
  BY <1>4 DEF R
<1>6. n - 1 \in T
  BY <1>3, <1>4, <1>5
<1> QED
  BY <1>4, <1>6

\* d begins with b and goes on with the functions in G.
Iterates(d, N, S, b, G) ==
    d \in [0 .. N -> S] /\ d[0] = b /\ \A n \in 1 .. N : d[n] = G[n][d[n - 1]]

LEMMA RecursionUpTo ==
  ASSUME NEW N \in Nat, NEW S, NEW b \in S, NEW G \in [1 .. N -> [S -> S]]
  PROVE  \E d : Iterates(d, N, S, b, G)
<1> DEFINE Upto(m, d) == d \in [0 .. m -> S] /\ d[0] = b /\ \A n \in 1 .. m : d[n] = G[n][d[n - 1]]
           T == {m \in 0 .. N : \E d : Upto(m, d)}
<1>1. 0 \in T
  <2>1. Upto(0, [n \in 0 .. 0 |-> b])
    OBVIOUS
  <2> HIDE DEF Upto
  <2> QED
    BY <2>1
<1>2. ASSUME NEW m \in 0 .. N - 1, m \in T PROVE m + 1 \in T
  <2>1. PICK d : Upto(m, d)
    BY <1>2
  <2> DEFINE e == [n \in 0 .. m + 1 |-> IF n <= m THEN d[n] ELSE G[m + 1][d[m]]]
  <2>2. \A n \in 0 .. m : e[n] = d[n] /\ d[n] \in S
    BY <2>1
  <2>3. G[m + 1] \in [S -> S] /\ e[m + 1] = G[m + 1][d[m]]
    OBVIOUS
  <2>4. e \in [0 .. m + 1 -> S]
    <3>1. d[m] \in S /\ G[m + 1][d[m]] \in S
      BY <2>2, <2>3
    <3>2. ASSUME NEW n \in 0 .. m + 1 PROVE e[n] \in S
      <4>1. CASE n = m + 1
        BY <2>3, <3>1, <4>1
      <4>2. CASE n \in 0 .. m
        BY <2>2, <4>2
      <4> QED
        BY <4>1, <4>2
    <3> QED
      BY <3>2
  <2>5. ASSUME NEW n \in 1 .. m + 1 PROVE e[n] = G[n][e[n - 1]]
    <3>1. CASE n = m + 1
      BY <2>2, <2>3, <3>1
    <3>2. CASE n # m + 1
      <4>1. n \in 1 .. m /\ n - 1 \in 0 .. m /\ n \in 0 .. m
        BY <3>2
      <4>2. d[n] = G[n][d[n - 1]]
        BY <2>1, <4>1
      <4> QED
        BY <2>2, <4>1, <4>2
    <3> QED
      BY <3>1, <3>2
  <2>6. e[0] = b
    BY <2>1, <2>2
  <2> HIDE DEF e
  <2>7. Upto(m + 1, e)
    BY <2>4, <2>5, <2>6
  <2> QED
    BY <2>7, SMTT(30)
<1> HIDE DEF T
<1>3. 0 .. N \subseteq T
  BY <1>1, <1>2, InductionUpTo
<1>4. PICK d : Upto(N, d)
  BY <1>3 DEF T
<1> QED
  BY <1>4 DEF Iterates

-----------------------------------------------------------------------------
(***************************************************************************)
(* strings.Split.                                                          *)
(***************************************************************************)

Parts(C) == Seq(Seq(C)) \ {<<>>}

\* d[n] has the parts of the first n characters.
Splitting(s, sep, d) ==
    /\ d[0] = << <<>> >>
    /\ \A n \in 1 .. Len(s) : d[n] = SplitStep(d[n - 1], s[n], sep)

\* w is v and an empty part, or v with c at its end.
NewPart(w, v) ==
    Len(w) = Len(v) + 1 /\ w[Len(w)] = <<>> /\ \A k \in 1 .. Len(v) : w[k] = v[k]

LongerPart(w, v, c) ==
    Len(w) = Len(v) /\ w[Len(w)] = Append(v[Len(v)], c) /\ \A k \in 1 .. Len(v) - 1 : w[k] = v[k]

LEMMA LastPart ==
  ASSUME NEW C, NEW v \in Parts(C)
  PROVE  /\ v \in Seq(Seq(C)) /\ Len(v) \in Nat \ {0}
         /\ v[Len(v)] \in Seq(C) /\ Len(v[Len(v)]) \in Nat
BY EmptySeq DEF Parts

\* What one character does.
LEMMA SplitStepParts ==
  ASSUME NEW C, NEW v \in Parts(C), NEW c \in C, NEW sep
  PROVE  /\ SplitStep(v, c, sep) \in Parts(C)
         /\ c = sep => NewPart(SplitStep(v, c, sep), v)
         /\ c # sep => LongerPart(SplitStep(v, c, sep), v, c)
<1> DEFINE w == SplitStep(v, c, sep)
<1>0. Len(v) \in 1 .. Len(v) /\ v[Len(v)] \in Seq(C) /\ v \in Seq(Seq(C))
  BY EmptySeq DEF Parts
<1>1. CASE c = sep
  <2>1. w = Append(v, <<>>) /\ <<>> \in Seq(C)
    BY <1>1 DEF SplitStep
  <2>2. w \in Seq(Seq(C)) /\ Len(w) = Len(v) + 1 /\ w[Len(w)] = <<>> /\ \A k \in 1 .. Len(v) : w[k] = v[k]
    BY <1>0, <2>1, AppendProperties
  <2>3. w # <<>>
    BY <1>0, <2>2
  <2> QED
    BY <1>1, <2>2, <2>3 DEF Parts, NewPart
<1>2. CASE c # sep
  <2>1. w = [v EXCEPT ![Len(v)] = Append(v[Len(v)], c)] /\ Append(v[Len(v)], c) \in Seq(C)
    BY <1>0, <1>2, AppendProperties DEF SplitStep
  <2>2. w \in Seq(Seq(C)) /\ Len(w) = Len(v) /\ w[Len(v)] = Append(v[Len(v)], c)
        /\ \A k \in 1 .. Len(v) - 1 : w[k] = v[k]
    BY <1>0, <2>1, ExceptSeq
  <2>3. w # <<>>
    BY <1>0, <2>2
  <2> QED
    BY <1>2, <2>2, <2>3 DEF Parts, LongerPart
<1> QED
  BY <1>1, <1>2

LEMMA SplitParts ==
  ASSUME NEW C, NEW s \in Seq(C), NEW sep
  PROVE  \E d \in [0 .. Len(s) -> Parts(C)] : Splitting(s, sep, d) /\ Split(s, sep) = d[Len(s)]
<1> DEFINE N == Len(s)
           b == << <<>> >>
           G == [n \in 1 .. N |-> [v \in Parts(C) |-> SplitStep(v, s[n], sep)]]
           Eq(d) == d = [n \in 0 .. N |-> IF n = 0 THEN b ELSE SplitStep(d[n - 1], s[n], sep)]
           e == CHOOSE d : Eq(d)
<1>1. N \in Nat /\ b \in Parts(C)
  BY EmptySeq DEF Parts
<1>2. G \in [1 .. N -> [Parts(C) -> Parts(C)]]
  BY SplitStepParts
<1>3. PICK d \in [0 .. N -> Parts(C)] : d[0] = b /\ \A n \in 1 .. N : d[n] = G[n][d[n - 1]]
  <2> HIDE DEF N, b, G
  <2>1. \E d : Iterates(d, N, Parts(C), b, G)
    BY <1>1, <1>2, RecursionUpTo
  <2> QED
    BY <2>1 DEF Iterates
<1>4. Eq(d)
  <2>1. \A n \in 1 .. N : d[n] = SplitStep(d[n - 1], s[n], sep)
    <3> TAKE n \in 1 .. N
    <3>1. n - 1 \in 0 .. N /\ d[n - 1] \in Parts(C)
      BY <1>1, <1>3
    <3> QED
      BY <1>3, <3>1
  <2> HIDE DEF b, G, N
  <2> QED
    BY <1>1, <1>3, <2>1
<1>5. Eq(e)
  <2> HIDE DEF Eq
  <2> QED
    BY <1>4
<1>6. Split(s, sep) = e[N]
  BY DEF Split
<1> HIDE DEF e, G
<1>7. Splitting(s, sep, e)
  <2>1. \A n \in 0 .. N : e[n] = IF n = 0 THEN b ELSE SplitStep(e[n - 1], s[n], sep)
    <3> HIDE DEF b, N
    <3> QED
      BY <1>5
  <2>2. 0 \in 0 .. N /\ \A n \in 1 .. N : n \in 0 .. N /\ n # 0
    BY <1>1
  <2> QED
    BY <2>1, <2>2 DEF Splitting
<1>8. e \in [0 .. N -> Parts(C)]
  <2> DEFINE T == {n \in 0 .. N : e[n] \in Parts(C)}
  <2>1. 0 \in T
    BY <1>1, <1>7 DEF Splitting
  <2>2. ASSUME NEW n \in 0 .. N - 1, n \in T PROVE n + 1 \in T
    <3>1. e[n + 1] = SplitStep(e[n], s[n + 1], sep) /\ s[n + 1] \in C
      BY <1>1, <1>7 DEF Splitting
    <3> QED
      BY <1>1, <2>2, <3>1, SplitStepParts
  <2> HIDE DEF T, N
  <2>3. 0 .. N \subseteq T
    BY <1>1, <2>1, <2>2, InductionUpTo
  <2>4. \A n \in 0 .. N : e[n] \in Parts(C)
    BY <2>3 DEF T
  <2> QED
    BY <1>5, <2>4
<1> QED
  BY <1>6, <1>7, <1>8

\* The step from one place to the next.
LEMMA SplitNext ==
  ASSUME NEW C, NEW s \in Seq(C), NEW sep,
         NEW d \in [0 .. Len(s) -> Parts(C)], Splitting(s, sep, d), NEW n \in 1 .. Len(s)
  PROVE  /\ s[n] \in C /\ d[n - 1] \in Parts(C) /\ d[n] \in Parts(C)
         /\ s[n] = sep => NewPart(d[n], d[n - 1])
         /\ s[n] # sep => LongerPart(d[n], d[n - 1], s[n])
<1>1. n - 1 \in 0 .. Len(s) /\ n \in 0 .. Len(s) /\ s[n] \in C
  OBVIOUS
<1>2. d[n - 1] \in Parts(C) /\ d[n] \in Parts(C) /\ d[n] = SplitStep(d[n - 1], s[n], sep)
  BY <1>1 DEF Splitting
<1> QED
  BY <1>1, <1>2, SplitStepParts

\* No part has a separator.
FreeOf(v, sep) == \A k \in 1 .. Len(v) : \A j \in 1 .. Len(v[k]) : v[k][j] # sep

\* l is the end of the first n characters of s.
EndAt(s, n, l) == Len(l) \in 0 .. n /\ \A j \in 1 .. Len(l) : l[j] = s[n - Len(l) + j]

LEMMA FreeStep ==
  ASSUME NEW C, NEW v \in Parts(C), NEW w \in Parts(C), NEW c \in C, NEW sep, FreeOf(v, sep),
         NewPart(w, v) \/ (LongerPart(w, v, c) /\ c # sep)
  PROVE  FreeOf(w, sep)
<1> SUFFICES ASSUME NEW k \in 1 .. Len(w), NEW j \in 1 .. Len(w[k]) PROVE w[k][j] # sep
  BY DEF FreeOf
<1>0. Len(v) \in Nat \ {0} /\ v[Len(v)] \in Seq(C) /\ Len(w) \in Nat
  BY LastPart
<1>1. CASE k < Len(w) \/ (NewPart(w, v) /\ k \in 1 .. Len(v))
  <2>1. k \in 1 .. Len(v) /\ w[k] = v[k]
    BY <1>0, <1>1 DEF NewPart, LongerPart
  <2> QED
    BY <2>1 DEF FreeOf
<1>2. CASE NewPart(w, v) /\ k = Len(w)
  BY <1>2 DEF NewPart
<1>3. CASE LongerPart(w, v, c) /\ c # sep /\ k = Len(w)
  <2>1. w[k] = Append(v[Len(v)], c) /\ Len(v) \in 1 .. Len(v)
    BY <1>0, <1>3 DEF LongerPart
  <2>2. \/ j = Len(v[Len(v)]) + 1 /\ w[k][j] = c
        \/ j \in 1 .. Len(v[Len(v)]) /\ w[k][j] = v[Len(v)][j]
    BY <1>0, <2>1, AppendProperties
  <2> QED
    BY <1>3, <2>1, <2>2 DEF FreeOf
<1> QED
  BY <1>0, <1>1, <1>2, <1>3

LEMMA EndStep ==
  ASSUME NEW C, NEW s \in Seq(C), NEW n \in 1 .. Len(s), NEW l \in Seq(C), EndAt(s, n - 1, l)
  PROVE  EndAt(s, n, <<>>) /\ EndAt(s, n, Append(l, s[n]))
<1> DEFINE a == Append(l, s[n])
<1>1. /\ Len(a) = Len(l) + 1 /\ a[Len(l) + 1] = s[n] /\ \A j \in 1 .. Len(l) : a[j] = l[j]
      /\ Len(l) \in Nat /\ n \in Nat /\ s[n] \in C
  BY AppendProperties
<1> HIDE DEF a
<1>2. Len(a) \in 0 .. n
  BY <1>1 DEF EndAt
<1>3. ASSUME NEW j \in 1 .. Len(a) PROVE a[j] = s[n - Len(a) + j]
  <2>1. CASE j = Len(l) + 1
    BY <1>1, <2>1
  <2>2. CASE j \in 1 .. Len(l)
    <3>1. n - Len(a) + j = n - 1 - Len(l) + j
      BY <1>1, <2>2
    <3> QED
      BY <1>1, <2>2, <3>1 DEF EndAt
  <2> QED
    BY <1>1, <2>1, <2>2
<1>4. EndAt(s, n, a)
  BY <1>2, <1>3 DEF EndAt
<1>5. EndAt(s, n, <<>>)
  BY DEF EndAt
<1> QED
  BY <1>4, <1>5 DEF a

\* Parts have no separator, and the last one is the end of what was split.
LEMMA SplitPartsPlain ==
  ASSUME NEW C, NEW s \in Seq(C), NEW sep,
         NEW d \in [0 .. Len(s) -> Parts(C)], Splitting(s, sep, d)
  PROVE  \A n \in 0 .. Len(s) : FreeOf(d[n], sep) /\ EndAt(s, n, d[n][Len(d[n])])
<1> DEFINE T == {n \in 0 .. Len(s) : FreeOf(d[n], sep) /\ EndAt(s, n, d[n][Len(d[n])])}
<1>0. Len(s) \in Nat
  OBVIOUS
<1>1. 0 \in T
  <2>1. d[0] = << <<>> >>
    BY DEF Splitting
  <2> DEFINE v == d[0]
  <2>2. Len(v) = 1 /\ v[1] = <<>> /\ Len(v[1]) = 0
    BY <2>1
  <2> HIDE DEF v
  <2>3. FreeOf(v, sep) /\ EndAt(s, 0, v[Len(v)])
    BY <2>2 DEF FreeOf, EndAt
  <2> QED
    BY <1>0, <2>3 DEF v
<1>2. ASSUME NEW m \in 0 .. Len(s) - 1, m \in T PROVE m + 1 \in T
  <2> DEFINE n == m + 1
             v == d[m]
             w == d[n]
  <2>0. n \in 1 .. Len(s) /\ n - 1 = m /\ n \in 0 .. Len(s)
    BY <1>0
  <2>1. /\ s[n] \in C /\ v \in Parts(C) /\ w \in Parts(C)
        /\ s[n] = sep => NewPart(w, v)
        /\ s[n] # sep => LongerPart(w, v, s[n])
    <3> HIDE DEF n
    <3> QED
      BY <2>0, SplitNext
  <2>2. FreeOf(v, sep) /\ EndAt(s, m, v[Len(v)]) /\ v[Len(v)] \in Seq(C)
    BY <1>2, <2>1, LastPart
  <2> HIDE DEF v, w, n
  <2>3. FreeOf(w, sep)
    BY <2>1, <2>2, FreeStep
  <2>4. EndAt(s, n, <<>>) /\ EndAt(s, n, Append(v[Len(v)], s[n]))
    BY <2>0, <2>2, EndStep
  <2>5. EndAt(s, n, w[Len(w)])
    BY <2>1, <2>4 DEF NewPart, LongerPart
  <2> QED
    BY <2>0, <2>3, <2>5 DEF n, w
<1> HIDE DEF T
<1>3. 0 .. Len(s) \subseteq T
  BY <1>0, <1>1, <1>2, InductionUpTo
<1> QED
  BY <1>3 DEF T

\* w is v with k characters more in the last part.
Grown(w, v, k) ==
    /\ Len(w) = Len(v)
    /\ \A i \in 1 .. Len(v) - 1 : w[i] = v[i]
    /\ Len(w[Len(v)]) = Len(v[Len(v)]) + k
    /\ \A j \in 1 .. Len(v[Len(v)]) : w[Len(v)][j] = v[Len(v)][j]

LEMMA GrownStep ==
  ASSUME NEW C, NEW v \in Parts(C), NEW w \in Parts(C), NEW x, NEW k \in Nat, NEW c \in C,
         Grown(w, v, k), LongerPart(x, w, c)
  PROVE  Grown(x, v, k + 1)
<1>1. /\ Len(v) \in Nat \ {0} /\ Len(w) = Len(v) /\ Len(x) = Len(v)
      /\ w[Len(v)] \in Seq(C) /\ Len(v[Len(v)]) \in Nat
      /\ x[Len(v)] = Append(w[Len(v)], c)
  BY LastPart DEF Grown, LongerPart
<1>2. /\ Len(x[Len(v)]) = Len(w[Len(v)]) + 1
      /\ \A j \in 1 .. Len(w[Len(v)]) : x[Len(v)][j] = w[Len(v)][j]
  BY <1>1, AppendProperties
<1>3. \A i \in 1 .. Len(v) - 1 : x[i] = v[i]
  BY <1>1 DEF Grown, LongerPart
<1>4. Len(x[Len(v)]) = Len(v[Len(v)]) + (k + 1)
  <2> DEFINE a == Len(x[Len(v)])
             b == Len(w[Len(v)])
             e == Len(v[Len(v)])
  <2>1. a = b + 1 /\ b = e + k /\ e \in Nat
    BY Zenon, <1>1, <1>2 DEF Grown
  <2> HIDE DEF a, b, e
  <2>2. a = e + (k + 1)
    BY <2>1
  <2> QED
    BY <2>2 DEF a, e
<1>5. \A j \in 1 .. Len(v[Len(v)]) : x[Len(v)][j] = v[Len(v)][j]
  <2> TAKE j \in 1 .. Len(v[Len(v)])
  <2>1. j \in 1 .. Len(w[Len(v)]) /\ w[Len(v)][j] = v[Len(v)][j]
    BY <1>1 DEF Grown
  <2> QED
    BY <1>2, <2>1
<1> QED
  BY <1>1, <1>3, <1>4, <1>5 DEF Grown

\* Where no separator is met, only the last part grows.
LEMMA SplitRun ==
  ASSUME NEW C, NEW s \in Seq(C), NEW sep,
         NEW d \in [0 .. Len(s) -> Parts(C)], Splitting(s, sep, d),
         NEW m \in 0 .. Len(s), NEW n \in m .. Len(s), \A k \in m + 1 .. n : s[k] # sep
  PROVE  Grown(d[n], d[m], n - m)
<1> DEFINE T == {k \in 0 .. n - m : Grown(d[m + k], d[m], k)}
<1>0. Len(s) \in Nat /\ m \in Nat /\ n \in Nat /\ n - m \in Nat
  OBVIOUS
<1>1. d[m] \in Parts(C)
  OBVIOUS
<1>2. 0 \in T
  <2>1. Len(d[m][Len(d[m])]) \in Nat
    BY <1>1, LastPart
  <2>2. Grown(d[m], d[m], 0)
    BY <2>1 DEF Grown
  <2> QED
    BY <1>0, <2>2
<1>3. ASSUME NEW k \in 0 .. n - m - 1, k \in T PROVE k + 1 \in T
  <2> DEFINE i == m + (k + 1)
  <2>0. i \in 1 .. Len(s) /\ i - 1 = m + k /\ i \in m + 1 .. n /\ k + 1 \in 0 .. n - m /\ k \in Nat
    BY <1>0
  <2> HIDE DEF i
  <2>1. s[i] \in C /\ d[m + k] \in Parts(C) /\ LongerPart(d[i], d[m + k], s[i])
    BY <2>0, SplitNext
  <2>2. Grown(d[i], d[m], k + 1)
    BY <1>1, <1>3, <2>0, <2>1, GrownStep
  <2> QED
    BY <2>0, <2>2 DEF i
<1> HIDE DEF T
<1>4. 0 .. n - m \subseteq T
  BY <1>0, <1>2, <1>3, InductionUpTo
<1>5. n - m \in 0 .. n - m /\ m + (n - m) = n
  BY <1>0
<1>6. n - m \in T
  BY <1>4, <1>5
<1> QED
  BY <1>5, <1>6 DEF T

-----------------------------------------------------------------------------
(***************************************************************************)
(* The reference, character by character.                                  *)
(***************************************************************************)

NoDot(h, m, n) == \A k \in m + 1 .. n : h[k] # "."

\* Character j of the pattern p stands for what is between two ends in h.
StandsFor(p, h, end, j) ==
    IF p[j] = "*" THEN end[j - 1] <= end[j] /\ NoDot(h, end[j - 1], end[j])
    ELSE end[j] = end[j - 1] + 1 /\ h[end[j]] = p[j]

Alignment(p, i, h, n, end) ==
    /\ end \in [0 .. i -> Nat]
    /\ end[0] = 0
    /\ end[i] = n
    /\ \A j \in 1 .. i : StandsFor(p, h, end, j)

\* The first i characters of the pattern stand for the first n of the host.
Aligned(p, i, h, n) == \E end : Alignment(p, i, h, n, end)

LEMMA EndsGrow ==
  ASSUME NEW p, NEW i \in Nat, NEW h, NEW n \in Nat, NEW end, Alignment(p, i, h, n, end)
  PROVE  \A j \in 0 .. i : end[j] \in 0 .. n
<1> DEFINE T == {k \in 0 .. i : end[i - k] <= n}
<1>1. 0 \in T
  BY DEF Alignment
<1>2. ASSUME NEW k \in 0 .. i - 1, k \in T PROVE k + 1 \in T
  <2>1. i - k \in 1 .. i /\ i - (k + 1) = (i - k) - 1 /\ i - (k + 1) \in 0 .. i /\ i - k \in 0 .. i
    OBVIOUS
  <2>2. end[i - k] \in Nat /\ end[i - (k + 1)] \in Nat
    BY <2>1 DEF Alignment
  <2>3. end[i - (k + 1)] <= end[i - k]
    BY <2>1, <2>2 DEF Alignment, StandsFor
  <2> QED
    BY <1>2, <2>2, <2>3
<1> HIDE DEF T
<1>3. 0 .. i \subseteq T
  BY <1>1, <1>2, InductionUpTo
<1> TAKE j \in 0 .. i
<1>4. i - j \in T /\ i - (i - j) = j /\ end[j] \in Nat
  BY <1>3 DEF Alignment
<1> QED
  BY <1>4 DEF T

LEMMA MatchesAligned ==
  ASSUME NEW C, NEW p \in Seq(C), NEW h \in Seq(C)
  PROVE  Matches(p, h) <=> Aligned(p, Len(p), h, Len(h))
<1>0. Len(p) \in Nat /\ Len(h) \in Nat
  OBVIOUS
<1>1. ASSUME Matches(p, h) PROVE Aligned(p, Len(p), h, Len(h))
  <2>1. PICK end \in [0 .. Len(p) -> 0 .. Len(h)] :
          /\ end[0] = 0
          /\ end[Len(p)] = Len(h)
          /\ \A i \in 1 .. Len(p) :
              IF p[i] = "*"
              THEN end[i - 1] <= end[i] /\ \A k \in end[i - 1] + 1 .. end[i] : h[k] # "."
              ELSE end[i] = end[i - 1] + 1 /\ h[end[i]] = p[i]
    BY <1>1 DEF Matches
  <2>2. end \in [0 .. Len(p) -> Nat]
    BY <1>0
  <2>3. Alignment(p, Len(p), h, Len(h), end)
    BY <2>1, <2>2 DEF Alignment, StandsFor, NoDot
  <2> QED
    BY <2>3 DEF Aligned
<1>2. ASSUME Aligned(p, Len(p), h, Len(h)) PROVE Matches(p, h)
  <2>1. PICK end : Alignment(p, Len(p), h, Len(h), end)
    BY <1>2 DEF Aligned
  <2>2. \A j \in 0 .. Len(p) : end[j] \in 0 .. Len(h)
    BY <1>0, <2>1, EndsGrow
  <2>3. end \in [0 .. Len(p) -> 0 .. Len(h)]
    BY <2>1, <2>2 DEF Alignment
  <2>4. /\ end[0] = 0 /\ end[Len(p)] = Len(h)
        /\ \A i \in 1 .. Len(p) :
             IF p[i] = "*"
             THEN end[i - 1] <= end[i] /\ \A k \in end[i - 1] + 1 .. end[i] : h[k] # "."
             ELSE end[i] = end[i - 1] + 1 /\ h[end[i]] = p[i]
    BY <2>1 DEF Alignment, StandsFor, NoDot
  <2> QED
    BY <2>3, <2>4 DEF Matches
<1> QED
  BY <1>1, <1>2

\* Aligned looks at no other characters.
LEMMA AlignedSame ==
  ASSUME NEW p, NEW q, NEW i \in Nat, NEW h, NEW g, NEW n \in Nat,
         \A j \in 1 .. i : p[j] = q[j], \A k \in 1 .. n : h[k] = g[k], Aligned(p, i, h, n)
  PROVE  Aligned(q, i, g, n)
<1>1. PICK end : Alignment(p, i, h, n, end)
  BY DEF Aligned
<1>2. \A j \in 0 .. i : end[j] \in 0 .. n
  BY <1>1, EndsGrow
<1>3. ASSUME NEW j \in 1 .. i PROVE StandsFor(q, g, end, j)
  <2>1. /\ StandsFor(p, h, end, j) /\ p[j] = q[j]
        /\ end[j] \in 0 .. n /\ end[j - 1] \in 0 .. n
    BY <1>1, <1>2 DEF Alignment
  <2>2. CASE p[j] = "*"
    <3>1. \A k \in end[j - 1] + 1 .. end[j] : k \in 1 .. n
      BY <2>1
    <3> QED
      BY <2>1, <2>2, <3>1 DEF StandsFor, NoDot
  <2>3. CASE p[j] # "*"
    <3>1. end[j] = end[j - 1] + 1 /\ h[end[j]] = p[j]
      BY <2>1, <2>3 DEF StandsFor
    <3>2. end[j] \in 1 .. n
      BY <2>1, <3>1
    <3> QED
      BY <2>1, <2>3, <3>1, <3>2 DEF StandsFor
  <2> QED
    BY <2>2, <2>3
<1>4. Alignment(q, i, g, n, end)
  BY <1>1, <1>3 DEF Alignment
<1> QED
  BY <1>4 DEF Aligned

LEMMA AlignedNothing ==
  ASSUME NEW p, NEW h, NEW n \in Nat
  PROVE  Aligned(p, 0, h, n) <=> n = 0
<1>1. Aligned(p, 0, h, n) => n = 0
  BY DEF Aligned, Alignment
<1>2. Alignment(p, 0, h, 0, [j \in 0 .. 0 |-> 0])
  BY DEF Alignment
<1> QED
  BY <1>1, <1>2 DEF Aligned

\* The last character taken off, and put back.
LEMMA AlignedShorter ==
  ASSUME NEW p, NEW i \in Nat \ {0}, NEW h, NEW n \in Nat, NEW end, Alignment(p, i, h, n, end)
  PROVE  /\ end[i - 1] \in 0 .. n /\ end[i] = n
         /\ Aligned(p, i - 1, h, end[i - 1])
         /\ StandsFor(p, h, end, i)
<1>0. \A j \in 0 .. i : end[j] \in 0 .. n
  BY EndsGrow
<1>1. end[i - 1] \in 0 .. n /\ end[i] = n /\ StandsFor(p, h, end, i)
  <2>1. i - 1 \in 0 .. i /\ i \in 1 .. i
    OBVIOUS
  <2> QED
    BY <1>0, <2>1 DEF Alignment
<1> DEFINE e == [j \in 0 .. i - 1 |-> end[j]]
<1>2. \A j \in 0 .. i - 1 : e[j] = end[j]
  OBVIOUS
<1>3. e \in [0 .. i - 1 -> Nat] /\ e[0] = 0
  BY DEF Alignment
<1> HIDE DEF e
<1>4. ASSUME NEW j \in 1 .. i - 1 PROVE StandsFor(p, h, e, j)
  <2>1. StandsFor(p, h, end, j) /\ e[j] = end[j] /\ e[j - 1] = end[j - 1]
    BY <1>2 DEF Alignment
  <2> QED
    BY <2>1 DEF StandsFor
<1>5. Alignment(p, i - 1, h, end[i - 1], e)
  BY <1>2, <1>3, <1>4 DEF Alignment
<1> QED
  BY <1>1, <1>5 DEF Aligned

LEMMA AlignedLonger ==
  ASSUME NEW p, NEW i \in Nat \ {0}, NEW h, NEW m \in Nat, NEW n \in Nat, Aligned(p, i - 1, h, m),
         IF p[i] = "*" THEN m <= n /\ NoDot(h, m, n) ELSE n = m + 1 /\ h[n] = p[i]
  PROVE  Aligned(p, i, h, n)
<1>1. PICK end : Alignment(p, i - 1, h, m, end)
  BY DEF Aligned
<1> DEFINE e == [j \in 0 .. i |-> IF j = i THEN n ELSE end[j]]
<1>2. e[i] = n /\ \A j \in 0 .. i - 1 : e[j] = end[j]
  OBVIOUS
<1>3. e \in [0 .. i -> Nat] /\ e[0] = 0 /\ e[i - 1] = m
  BY <1>1 DEF Alignment
<1> HIDE DEF e
<1>4. ASSUME NEW j \in 1 .. i PROVE StandsFor(p, h, e, j)
  <2>1. CASE j = i
    BY <1>2, <1>3, <2>1 DEF StandsFor
  <2>2. CASE j # i
    <3>1. StandsFor(p, h, end, j) /\ e[j] = end[j] /\ e[j - 1] = end[j - 1]
      BY <1>1, <1>2, <2>2 DEF Alignment
    <3> QED
      BY <3>1 DEF StandsFor
  <2> QED
    BY <2>1, <2>2
<1>5. Alignment(p, i, h, n, e)
  BY <1>2, <1>3, <1>4 DEF Alignment
<1> QED
  BY <1>5 DEF Aligned

LEMMA AlignedChar ==
  ASSUME NEW p, NEW i \in Nat \ {0}, NEW h, NEW n \in Nat, p[i] # "*"
  PROVE  Aligned(p, i, h, n) <=> n > 0 /\ h[n] = p[i] /\ Aligned(p, i - 1, h, n - 1)
<1>1. ASSUME Aligned(p, i, h, n) PROVE n > 0 /\ h[n] = p[i] /\ Aligned(p, i - 1, h, n - 1)
  <2>1. PICK end : Alignment(p, i, h, n, end)
    BY <1>1 DEF Aligned
  <2>2. end[i - 1] \in 0 .. n /\ end[i] = n /\ Aligned(p, i - 1, h, end[i - 1]) /\ StandsFor(p, h, end, i)
    BY <2>1, AlignedShorter
  <2>3. n = end[i - 1] + 1 /\ h[n] = p[i]
    BY <2>2 DEF StandsFor
  <2>4. n > 0 /\ end[i - 1] = n - 1
    BY <2>2, <2>3
  <2> QED
    BY <2>2, <2>3, <2>4
<1>2. ASSUME n > 0, h[n] = p[i], Aligned(p, i - 1, h, n - 1) PROVE Aligned(p, i, h, n)
  <2>1. n - 1 \in Nat /\ n = (n - 1) + 1
    BY <1>2
  <2> QED
    BY <1>2, <2>1, AlignedLonger
<1> QED
  BY <1>1, <1>2

LEMMA AlignedStar ==
  ASSUME NEW p, NEW i \in Nat \ {0}, NEW h, NEW n \in Nat, p[i] = "*"
  PROVE  Aligned(p, i, h, n) <=> \E m \in 0 .. n : NoDot(h, m, n) /\ Aligned(p, i - 1, h, m)
<1>1. ASSUME Aligned(p, i, h, n) PROVE \E m \in 0 .. n : NoDot(h, m, n) /\ Aligned(p, i - 1, h, m)
  <2>1. PICK end : Alignment(p, i, h, n, end)
    BY <1>1 DEF Aligned
  <2>2. end[i - 1] \in 0 .. n /\ end[i] = n /\ Aligned(p, i - 1, h, end[i - 1]) /\ StandsFor(p, h, end, i)
    BY <2>1, AlignedShorter
  <2> QED
    BY <2>2 DEF StandsFor
<1>2. ASSUME NEW m \in 0 .. n, NoDot(h, m, n), Aligned(p, i - 1, h, m) PROVE Aligned(p, i, h, n)
  <2>1. m \in Nat /\ m <= n
    OBVIOUS
  <2>2. IF p[i] = "*" THEN m <= n /\ NoDot(h, m, n) ELSE n = m + 1 /\ h[n] = p[i]
    BY <1>2, <2>1
  <2> QED
    BY <1>2, <2>1, <2>2, AlignedLonger
<1> QED
  BY <1>1, <1>2

\* The pattern's characters one by one, for whole labels.
LEMMA MatchesEmpty ==
  ASSUME NEW C, NEW y \in Seq(C)
  PROVE  Matches(<<>>, y) <=> y = <<>>
<1>1. <<>> \in Seq(C) /\ Len(<<>>) = 0 /\ Len(y) \in Nat
  OBVIOUS
<1>2. Matches(<<>>, y) <=> Aligned(<<>>, 0, y, Len(y))
  BY <1>1, MatchesAligned
<1>3. Aligned(<<>>, 0, y, Len(y)) <=> Len(y) = 0
  BY <1>1, AlignedNothing
<1> QED
  BY <1>2, <1>3, EmptySeq

\* Appending to the pattern and to the label looks at what was there.
LEMMA AlignedAppend ==
  ASSUME NEW C, NEW x \in Seq(C), NEW c \in C, NEW y \in Seq(C), NEW z \in Seq(C),
         Len(z) <= Len(y), \A j \in 1 .. Len(z) : y[j] = z[j]
  PROVE  Matches(x, z) <=> Aligned(Append(x, c), Len(x), y, Len(z))
<1>1. Len(x) \in Nat /\ Len(z) \in Nat /\ \A j \in 1 .. Len(x) : x[j] = Append(x, c)[j]
  BY AppendProperties
<1>2. Matches(x, z) <=> Aligned(x, Len(x), z, Len(z))
  BY MatchesAligned
<1> DEFINE a == Append(x, c)
           i == Len(x)
           n == Len(z)
<1>3. \A j \in 1 .. i : a[j] = x[j] /\ x[j] = a[j]
  BY <1>1
<1>4. \A j \in 1 .. n : y[j] = z[j] /\ z[j] = y[j]
  OBVIOUS
<1>5. i \in Nat /\ n \in Nat
  BY <1>1
<1> HIDE DEF a, i, n
<1>6. Aligned(x, i, z, n) => Aligned(a, i, y, n)
  BY <1>3, <1>4, <1>5, AlignedSame
<1>7. Aligned(a, i, y, n) => Aligned(x, i, z, n)
  BY <1>3, <1>4, <1>5, AlignedSame
<1> QED
  BY <1>2, <1>6, <1>7 DEF a, i, n

LEMMA MatchesChar ==
  ASSUME NEW C, NEW x \in Seq(C), NEW c \in C, c # "*", NEW z \in Seq(C), NEW b \in C
  PROVE  /\ ~Matches(Append(x, c), <<>>)
         /\ Matches(Append(x, c), Append(z, b)) <=> b = c /\ Matches(x, z)
<1> DEFINE a == Append(x, c)
           y == Append(z, b)
           i == Len(x) + 1
           n == Len(z) + 1
<1>1. a \in Seq(C) /\ Len(a) = i /\ a[i] = c
  BY AppendProperties
<1>2. y \in Seq(C) /\ Len(y) = n /\ y[n] = b /\ \A j \in 1 .. Len(z) : y[j] = z[j]
  BY AppendProperties
<1>3. i \in Nat \ {0} /\ n \in Nat /\ n > 0 /\ i - 1 = Len(x) /\ n - 1 = Len(z) /\ Len(z) <= n
  OBVIOUS
<1>4. Matches(x, z) <=> Aligned(a, Len(x), y, Len(z))
  <2> HIDE DEF y, n, i
  <2> QED
    BY <1>2, <1>3, AlignedAppend
<1> HIDE DEF a, y, i, n
<1>5. Aligned(a, i, y, n) <=> n > 0 /\ y[n] = a[i] /\ Aligned(a, i - 1, y, n - 1)
  <2>1. a[i] # "*" /\ i \in Nat \ {0} /\ n \in Nat
    BY <1>1, <1>3
  <2> QED
    BY ONLY <2>1, AlignedChar
<1>6. Aligned(a, i, <<>>, 0) <=> 0 > 0 /\ <<>>[0] = a[i] /\ Aligned(a, i - 1, <<>>, 0 - 1)
  <2>1. 0 \in Nat
    OBVIOUS
  <2> QED
    BY <1>1, <1>3, <2>1, AlignedChar
<1>7. ~Aligned(a, i, <<>>, 0)
  <2>1. ~(0 > 0)
    OBVIOUS
  <2> QED
    BY <1>6, <2>1
<1>8. Matches(a, <<>>) <=> Aligned(a, i, <<>>, 0)
  <2>1. <<>> \in Seq(C) /\ Len(<<>>) = 0
    OBVIOUS
  <2> QED
    BY <1>1, <2>1, MatchesAligned
<1>9. Matches(a, y) <=> Aligned(a, i, y, n)
  BY <1>1, <1>2, MatchesAligned
<1>10. Matches(a, y) <=> b = c /\ Matches(x, z)
  BY <1>1, <1>2, <1>3, <1>4, <1>5, <1>9
<1> QED
  BY <1>7, <1>8, <1>10 DEF a, y

LEMMA MatchesStarLonger ==
  ASSUME NEW C, "*" \in C, NEW x \in Seq(C), NEW y \in Seq(C), NEW z \in Seq(C),
         Len(z) <= Len(y), \A j \in 1 .. Len(z) : y[j] = z[j], \A j \in 1 .. Len(y) : y[j] # ".",
         Matches(x, z)
  PROVE  Matches(Append(x, "*"), y)
<1> DEFINE a == Append(x, "*")
           i == Len(x) + 1
           n == Len(y)
           m == Len(z)
<1>1. a \in Seq(C) /\ Len(a) = i /\ a[i] = "*"
  BY AppendProperties
<1>2. i \in Nat \ {0} /\ n \in Nat /\ m \in 0 .. n /\ i - 1 = Len(x)
  OBVIOUS
<1>3. Aligned(a, Len(x), y, m)
  BY AlignedAppend
<1>4. NoDot(y, m, n)
  BY DEF NoDot
<1> HIDE DEF a, i, n, m
<1>5. Aligned(a, i, y, n)
  BY <1>1, <1>2, <1>3, <1>4, AlignedStar, SMTT(30)
<1>6. Matches(a, y)
  BY <1>1, <1>5, MatchesAligned DEF n
<1> QED
  BY <1>6 DEF a

LEMMA MatchesStarShorter ==
  ASSUME NEW C, "*" \in C, NEW x \in Seq(C), NEW y \in Seq(C), Matches(Append(x, "*"), y)
  PROVE  \E m \in 0 .. Len(y) : NoDot(y, m, Len(y)) /\ Matches(x, SubSeq(y, 1, m))
<1> DEFINE a == Append(x, "*")
           i == Len(x) + 1
           n == Len(y)
<1>1. a \in Seq(C) /\ Len(a) = i /\ a[i] = "*"
  BY AppendProperties
<1>2. i \in Nat \ {0} /\ n \in Nat /\ i - 1 = Len(x)
  OBVIOUS
<1>3. Aligned(a, i, y, n)
  <2> HIDE DEF i
  <2> QED
    BY <1>1, MatchesAligned
<1>4. PICK m \in 0 .. n : NoDot(y, m, n) /\ Aligned(a, i - 1, y, m)
  <2> HIDE DEF i, n, a
  <2> QED
    BY <1>1, <1>2, <1>3, AlignedStar
<1> DEFINE z == SubSeq(y, 1, m)
<1>5. z \in Seq(C) /\ Len(z) = m /\ \A j \in 1 .. Len(z) : y[j] = z[j]
  BY SubSeqProperties
<1> HIDE DEF z
<1>6. Len(z) <= Len(y)
  BY <1>4, <1>5
<1>7. Matches(x, z) <=> Aligned(Append(x, "*"), Len(x), y, Len(z))
  BY <1>5, <1>6, AlignedAppend
<1>8. Matches(x, z)
  BY <1>2, <1>4, <1>5, <1>7
<1> QED
  BY <1>4, <1>8 DEF z

\* The labels of a pattern and of a host match one by one; all but the last do.
LabelsMatch(v, w) == Len(v) = Len(w) /\ \A k \in 1 .. Len(v) : Matches(v[k], w[k])

FrontMatch(v, w) == Len(v) = Len(w) /\ \A k \in 1 .. Len(v) - 1 : Matches(v[k], w[k])

LEMMA FrontAndLast ==
  ASSUME NEW C, NEW v \in Parts(C), NEW w \in Parts(C)
  PROVE  LabelsMatch(v, w) <=> FrontMatch(v, w) /\ Matches(v[Len(v)], w[Len(w)])
<1>1. Len(v) \in Nat \ {0}
  BY LastPart
<1>2. \A k \in 1 .. Len(v) : k = Len(v) \/ k \in 1 .. Len(v) - 1
  BY <1>1
<1>3. Len(v) \in 1 .. Len(v) /\ \A k \in 1 .. Len(v) - 1 : k \in 1 .. Len(v)
  BY <1>1
<1> QED
  BY <1>2, <1>3 DEF LabelsMatch, FrontMatch

LEMMA FrontSame ==
  ASSUME NEW v, NEW w, NEW x, NEW y, Len(x) = Len(v), Len(y) = Len(w),
         \A k \in 1 .. Len(v) - 1 : x[k] = v[k], \A k \in 1 .. Len(w) - 1 : y[k] = w[k]
  PROVE  FrontMatch(x, y) <=> FrontMatch(v, w)
BY DEF FrontMatch

LEMMA FrontNew ==
  ASSUME NEW C, NEW v \in Parts(C), NEW w \in Parts(C), NEW x, NEW y, NewPart(x, v), NewPart(y, w)
  PROVE  FrontMatch(x, y) <=> LabelsMatch(v, w)
<1>1. Len(v) \in Nat /\ Len(w) \in Nat
  BY LastPart
<1>2. Len(x) - 1 = Len(v) /\ (Len(x) = Len(y) <=> Len(v) = Len(w))
  BY <1>1 DEF NewPart
<1>3. CASE Len(v) = Len(w)
  <2>1. \A k \in 1 .. Len(v) : x[k] = v[k] /\ y[k] = w[k]
    BY <1>3 DEF NewPart
  <2> QED
    BY <1>2, <1>3, <2>1 DEF FrontMatch, LabelsMatch
<1>4. CASE Len(v) # Len(w)
  BY <1>2, <1>4 DEF FrontMatch, LabelsMatch
<1> QED
  BY <1>3, <1>4

\* For the first i characters of a pattern it is the same whether its labels
\* are compared or the whole.
AgreeAt(p, dp, h, dh, i) ==
    \A n \in 0 .. Len(h) : Aligned(p, i, h, n) <=> LabelsMatch(dp[i], dh[n])

LEMMA AppendNotEmpty ==
  ASSUME NEW C, NEW z \in Seq(C), NEW c \in C
  PROVE  Append(z, c) # <<>>
<1>1. Len(Append(z, c)) = Len(z) + 1 /\ Len(z) \in Nat
  BY AppendProperties
<1> QED
  BY <1>1

LEMMA AgreeNothing ==
  ASSUME NEW C, NEW p \in Seq(C), NEW h \in Seq(C),
         NEW dp \in [0 .. Len(p) -> Parts(C)], Splitting(p, ".", dp),
         NEW dh \in [0 .. Len(h) -> Parts(C)], Splitting(h, ".", dh)
  PROVE  AgreeAt(p, dp, h, dh, 0)
<1> SUFFICES ASSUME NEW n \in 0 .. Len(h)
             PROVE  Aligned(p, 0, h, n) <=> LabelsMatch(dp[0], dh[n])
  BY DEF AgreeAt
<1>0. n \in Nat /\ Len(h) \in Nat
  OBVIOUS
<1>1. Aligned(p, 0, h, n) <=> n = 0
  BY <1>0, AlignedNothing
<1>2. dp[0] = << <<>> >> /\ dh[0] = << <<>> >>
  BY DEF Splitting
<1>3. Matches(<<>>, <<>>)
  <2>1. <<>> \in Seq(C)
    OBVIOUS
  <2> QED
    BY <2>1, MatchesEmpty
<1>4. CASE n = 0
  <2>1. LabelsMatch(<< <<>> >>, << <<>> >>)
    BY <1>3 DEF LabelsMatch
  <2> QED
    BY <1>1, <1>2, <1>4, <2>1
<1>5. CASE n # 0
  <2>0. n \in 1 .. Len(h)
    BY <1>5
  <2> DEFINE v == dh[n - 1]
             w == dh[n]
  <2>1. /\ h[n] \in C /\ v \in Parts(C) /\ w \in Parts(C)
        /\ h[n] = "." => NewPart(w, v)
        /\ h[n] # "." => LongerPart(w, v, h[n])
    BY <2>0, SplitNext
  <2>2. Len(dp[0]) = 1 /\ dp[0][1] = <<>>
    BY <1>2
  <2> HIDE DEF v, w
  <2>3. ASSUME LabelsMatch(dp[0], w) PROVE FALSE
    <3>1. Len(w) = 1 /\ Matches(<<>>, w[1])
      BY <2>2, <2>3 DEF LabelsMatch
    <3>2. Len(v) \in Nat \ {0} /\ v[Len(v)] \in Seq(C) /\ w[Len(w)] \in Seq(C)
      BY <2>1, LastPart
    <3>3. w[1] = <<>>
      BY <3>1, <3>2, MatchesEmpty
    <3>4. LongerPart(w, v, h[n])
      BY <2>1, <3>1, <3>2 DEF NewPart
    <3>5. w[1] = Append(v[Len(v)], h[n])
      BY <3>1, <3>4 DEF LongerPart
    <3> QED
      BY <2>1, <3>2, <3>3, <3>5, AppendNotEmpty
  <2> QED
    BY <1>1, <1>5, <2>3 DEF w
<1> QED
  BY <1>4, <1>5

LEMMA AgreeDot ==
  ASSUME NEW C, NEW p \in Seq(C), NEW h \in Seq(C),
         NEW dp \in [0 .. Len(p) -> Parts(C)], Splitting(p, ".", dp),
         NEW dh \in [0 .. Len(h) -> Parts(C)], Splitting(h, ".", dh),
         NEW i \in 1 .. Len(p), AgreeAt(p, dp, h, dh, i - 1), p[i] = "."
  PROVE  AgreeAt(p, dp, h, dh, i)
<1> SUFFICES ASSUME NEW n \in 0 .. Len(h)
             PROVE  Aligned(p, i, h, n) <=> LabelsMatch(dp[i], dh[n])
  BY DEF AgreeAt
<1> DEFINE v == dp[i - 1]
           x == dp[i]
           y == dh[n]
<1>0. n \in Nat /\ i \in Nat \ {0} /\ p[i] # "*" /\ Len(h) \in Nat
  OBVIOUS
<1>1. Aligned(p, i, h, n) <=> n > 0 /\ h[n] = p[i] /\ Aligned(p, i - 1, h, n - 1)
  BY <1>0, AlignedChar
<1>2. v \in Parts(C) /\ x \in Parts(C) /\ NewPart(x, v)
  BY SplitNext
<1>3. y \in Parts(C)
  OBVIOUS
<1> HIDE DEF v, x
<1>4. LabelsMatch(x, y) <=> FrontMatch(x, y) /\ Matches(<<>>, y[Len(y)])
  BY <1>2, <1>3, FrontAndLast DEF NewPart
<1>5. Matches(<<>>, y[Len(y)]) <=> y[Len(y)] = <<>>
  BY <1>3, LastPart, MatchesEmpty
<1>6. CASE n = 0
  <2>1. y = << <<>> >>
    BY <1>6 DEF Splitting
  <2>2. Len(y) = 1 /\ Len(x) = Len(v) + 1 /\ Len(v) \in Nat \ {0}
    BY <1>2, <2>1, LastPart DEF NewPart
  <2>3. Len(x) # Len(y)
    BY <2>2
  <2> QED
    BY <1>1, <1>6, <2>3 DEF LabelsMatch, x
<1>7. CASE n # 0
  <2>0. n \in 1 .. Len(h) /\ n > 0 /\ n - 1 \in 0 .. Len(h)
    BY <1>7
  <2> DEFINE w == dh[n - 1]
  <2>1. /\ h[n] \in C /\ w \in Parts(C)
        /\ h[n] = "." => NewPart(y, w)
        /\ h[n] # "." => LongerPart(y, w, h[n])
    BY <2>0, SplitNext
  <2>2. Aligned(p, i - 1, h, n - 1) <=> LabelsMatch(v, w)
    BY <2>0 DEF AgreeAt, v
  <2> HIDE DEF w, y
  <2>3. CASE h[n] = "."
    <3>1. FrontMatch(x, y) <=> LabelsMatch(v, w)
      BY <1>2, <2>1, <2>3, FrontNew
    <3>2. y[Len(y)] = <<>>
      BY <2>1, <2>3 DEF NewPart
    <3>3. LabelsMatch(x, y) <=> Aligned(p, i, h, n)
      BY <1>1, <1>4, <1>5, <2>0, <2>2, <2>3, <3>1, <3>2
    <3> QED
      BY <3>3 DEF x, y
  <2>4. CASE h[n] # "."
    <3>1. y[Len(y)] # <<>>
      <4>1. y[Len(y)] = Append(w[Len(w)], h[n]) /\ w[Len(w)] \in Seq(C)
        BY <2>1, <2>4, LastPart DEF LongerPart
      <4> QED
        BY <2>1, <4>1, AppendNotEmpty
    <3> QED
      BY <1>1, <1>4, <1>5, <2>4, <3>1 DEF x, y
  <2> QED
    BY <2>3, <2>4
<1> QED
  BY <1>6, <1>7

LEMMA AgreeChar ==
  ASSUME NEW C, NEW p \in Seq(C), NEW h \in Seq(C),
         NEW dp \in [0 .. Len(p) -> Parts(C)], Splitting(p, ".", dp),
         NEW dh \in [0 .. Len(h) -> Parts(C)], Splitting(h, ".", dh),
         NEW i \in 1 .. Len(p), AgreeAt(p, dp, h, dh, i - 1), p[i] # ".", p[i] # "*"
  PROVE  AgreeAt(p, dp, h, dh, i)
<1> SUFFICES ASSUME NEW n \in 0 .. Len(h)
             PROVE  Aligned(p, i, h, n) <=> LabelsMatch(dp[i], dh[n])
  BY DEF AgreeAt
<1> DEFINE v == dp[i - 1]
           x == dp[i]
           y == dh[n]
           c == p[i]
           l == v[Len(v)]
<1>0. n \in Nat /\ i \in Nat \ {0} /\ p[i] # "*" /\ Len(h) \in Nat
  OBVIOUS
<1>1. Aligned(p, i, h, n) <=> n > 0 /\ h[n] = c /\ Aligned(p, i - 1, h, n - 1)
  BY <1>0, AlignedChar
<1>2. v \in Parts(C) /\ x \in Parts(C) /\ c \in C /\ LongerPart(x, v, c)
  BY SplitNext
<1>3. y \in Parts(C) /\ c # "*" /\ c # "."
  OBVIOUS
<1> HIDE DEF v, x, c
<1>4. x[Len(x)] = Append(l, c) /\ l \in Seq(C) /\ Len(v) \in Nat \ {0}
  BY <1>2, LastPart DEF LongerPart
<1> HIDE DEF l
<1>5. LabelsMatch(x, y) <=> FrontMatch(x, y) /\ Matches(Append(l, c), y[Len(y)])
  <2>1. LabelsMatch(x, y) <=> FrontMatch(x, y) /\ Matches(x[Len(x)], y[Len(y)])
    <3> HIDE DEF y
    <3> QED
      BY <1>2, <1>3, FrontAndLast
  <2> QED
    BY <1>4, <2>1
<1>7. ~Matches(Append(l, c), <<>>)
  BY <1>2, <1>3, <1>4, MatchesChar
<1>8. CASE n = 0
  <2>0. y = << <<>> >>
    BY <1>8 DEF Splitting
  <2>1. y[Len(y)] = <<>>
    BY <2>0
  <2> QED
    BY <1>1, <1>5, <1>7, <1>8, <2>1 DEF x
<1>9. CASE n # 0
  <2>0. n \in 1 .. Len(h) /\ n > 0 /\ n - 1 \in 0 .. Len(h)
    BY <1>9
  <2> DEFINE w == dh[n - 1]
             b == h[n]
  <2>1. /\ b \in C /\ w \in Parts(C)
        /\ b = "." => NewPart(y, w)
        /\ b # "." => LongerPart(y, w, b)
    BY <2>0, SplitNext
  <2>2. Aligned(p, i - 1, h, n - 1) <=> LabelsMatch(v, w)
    BY <2>0 DEF AgreeAt, v
  <2> HIDE DEF w, y, b
  <2>3. CASE b = "."
    <3>1. y[Len(y)] = <<>>
      BY <2>1, <2>3 DEF NewPart
    <3> QED
      BY <1>1, <1>3, <1>5, <1>7, <2>3, <3>1 DEF x, y, b
  <2>4. CASE b # "."
    <3>1. y[Len(y)] = Append(w[Len(w)], b) /\ w[Len(w)] \in Seq(C)
      BY <2>1, <2>4, LastPart DEF LongerPart
    <3>2. FrontMatch(x, y) <=> FrontMatch(v, w)
      BY <1>2, <2>1, <2>4, FrontSame DEF LongerPart
    <3>3. LabelsMatch(v, w) <=> FrontMatch(v, w) /\ Matches(l, w[Len(w)])
      BY <1>2, <2>1, FrontAndLast DEF l
    <3>4. Matches(Append(l, c), y[Len(y)]) <=> b = c /\ Matches(l, w[Len(w)])
      <4>1. Matches(Append(l, c), Append(w[Len(w)], b)) <=> b = c /\ Matches(l, w[Len(w)])
        BY <1>2, <1>3, <1>4, <2>1, <3>1, MatchesChar, SMTT(30)
      <4> QED
        BY <3>1, <4>1
    <3>5. LabelsMatch(x, y) <=> n > 0 /\ b = c /\ Aligned(p, i - 1, h, n - 1)
      BY <1>5, <2>0, <2>2, <3>2, <3>3, <3>4
    <3> QED
      BY <1>1, <3>5 DEF x, y, b
  <2> QED
    BY <2>3, <2>4
<1> QED
  BY <1>8, <1>9

LEMMA AgreeStar ==
  ASSUME NEW C, NEW p \in Seq(C), NEW h \in Seq(C),
         NEW dp \in [0 .. Len(p) -> Parts(C)], Splitting(p, ".", dp),
         NEW dh \in [0 .. Len(h) -> Parts(C)], Splitting(h, ".", dh),
         NEW i \in 1 .. Len(p), AgreeAt(p, dp, h, dh, i - 1), p[i] = "*"
  PROVE  AgreeAt(p, dp, h, dh, i)
<1> SUFFICES ASSUME NEW n \in 0 .. Len(h)
             PROVE  Aligned(p, i, h, n) <=> LabelsMatch(dp[i], dh[n])
  BY DEF AgreeAt
<1> DEFINE v == dp[i - 1]
           x == dp[i]
           y == dh[n]
           l == v[Len(v)]
           t == y[Len(y)]
<1>0. n \in Nat /\ i \in Nat \ {0} /\ Len(h) \in Nat
  OBVIOUS
<1>1. Aligned(p, i, h, n) <=> \E m \in 0 .. n : NoDot(h, m, n) /\ Aligned(p, i - 1, h, m)
  BY <1>0, AlignedStar
<1>2. v \in Parts(C) /\ x \in Parts(C) /\ "*" \in C /\ LongerPart(x, v, "*")
  <2>1. p[i] # "."
    OBVIOUS
  <2>2. p[i] \in C /\ v \in Parts(C) /\ x \in Parts(C) /\ (p[i] # "." => LongerPart(x, v, p[i]))
    BY SplitNext
  <2> HIDE DEF x, v
  <2> QED
    BY <2>1, <2>2
<1>3. y \in Parts(C) /\ FreeOf(y, ".") /\ EndAt(h, n, t)
  BY SplitPartsPlain
<1>4. \A m \in 0 .. n : /\ Aligned(p, i - 1, h, m) <=> LabelsMatch(v, dh[m])
                        /\ dh[m] \in Parts(C)
                        /\ NoDot(h, m, n) => Grown(y, dh[m], n - m)
  <2> TAKE m \in 0 .. n
  <2>1. m \in 0 .. Len(h) /\ n \in m .. Len(h)
    BY <1>0
  <2>2. NoDot(h, m, n) => Grown(y, dh[m], n - m)
    BY <2>1, SplitRun DEF NoDot
  <2> QED
    BY <2>1, <2>2 DEF AgreeAt
<1> HIDE DEF v, x, y
<1>5. x[Len(x)] = Append(l, "*") /\ l \in Seq(C) /\ t \in Seq(C)
      /\ Len(v) \in Nat \ {0} /\ Len(y) \in Nat \ {0}
  BY <1>2, <1>3, LastPart DEF LongerPart
<1>6. LabelsMatch(x, y) <=> FrontMatch(x, y) /\ Matches(Append(l, "*"), t)
  <2>1. LabelsMatch(x, y) <=> FrontMatch(x, y) /\ Matches(x[Len(x)], y[Len(y)])
    BY <1>2, <1>3, FrontAndLast
  <2> QED
    BY <1>5, <2>1
<1>7. \A j \in 1 .. Len(t) : t[j] # "."
  <2>1. Len(y) \in 1 .. Len(y)
    BY <1>5
  <2> QED
    BY <1>3, <2>1 DEF FreeOf
<1>8. \A m \in 0 .. n : LabelsMatch(v, dh[m]) <=> FrontMatch(v, dh[m]) /\ Matches(l, dh[m][Len(dh[m])])
  BY <1>2, <1>4, FrontAndLast
<1>9. ASSUME NEW m \in 0 .. n, NoDot(h, m, n) PROVE FrontMatch(x, y) <=> FrontMatch(v, dh[m])
  BY <1>2, <1>4, <1>9, FrontSame DEF LongerPart, Grown
<1> HIDE DEF l
<1>10. ASSUME NEW m \in 0 .. n, NoDot(h, m, n), Aligned(p, i - 1, h, m) PROVE LabelsMatch(x, y)
  <2> DEFINE w == dh[m]
             z == w[Len(w)]
  <2>1. w \in Parts(C) /\ Grown(y, w, n - m) /\ FrontMatch(v, w) /\ Matches(l, z)
    BY <1>4, <1>8, <1>10
  <2>2. z \in Seq(C) /\ Len(z) \in Nat
    BY <2>1, LastPart
  <2> HIDE DEF w, z
  <2>3. Len(t) = Len(z) + (n - m) /\ \A j \in 1 .. Len(z) : t[j] = z[j]
    BY <2>1 DEF Grown, z
  <2> HIDE DEF t
  <2>4. Len(z) <= Len(t)
    BY <1>0, <2>2, <2>3
  <2>5. Matches(Append(l, "*"), t)
    BY <1>2, <1>5, <1>7, <2>1, <2>2, <2>3, <2>4, MatchesStarLonger
  <2> QED
    BY <1>6, <1>9, <1>10, <2>1, <2>5 DEF w
<1>11. ASSUME LabelsMatch(x, y)
       PROVE  \E m \in 0 .. n : NoDot(h, m, n) /\ Aligned(p, i - 1, h, m)
  <2>1. PICK j \in 0 .. Len(t) : Matches(l, SubSeq(t, 1, j))
    BY <1>2, <1>5, <1>6, <1>11, MatchesStarShorter
  <2> DEFINE k == Len(t)
             m == n - (k - j)
             w == dh[m]
             z == w[Len(w)]
             g == SubSeq(t, 1, j)
  <2>2. k \in 0 .. n /\ k \in Nat /\ j \in 0 .. k /\ \A u \in 1 .. k : t[u] = h[n - k + u]
    <3> HIDE DEF t
    <3>1. EndAt(h, n, t) /\ k \in Nat
      BY <1>3, <1>5
    <3> QED
      BY <2>1, <3>1 DEF EndAt
  <2>3. g \in Seq(C) /\ Len(g) = j /\ \A u \in 1 .. j : g[u] = t[u]
    BY <1>5, <2>1, SubSeqProperties, SMTT(30)
  <2> HIDE DEF k, g
  <2>4. m \in 0 .. n /\ n - m = k - j
    BY <1>0, <2>2
  <2>5. NoDot(h, m, n)
    <3> SUFFICES ASSUME NEW q \in m + 1 .. n PROVE h[q] # "."
      BY DEF NoDot
    <3> DEFINE u == q - (n - k)
    <3>1. u \in 1 .. k /\ n - k + u = q
      BY <1>0, <2>2
    <3> HIDE DEF u
    <3>2. t[u] = h[q] /\ t[u] # "."
      BY <1>7, <2>2, <3>1 DEF k
    <3> QED
      BY <3>2
  <2> HIDE DEF m
  <2>6. w \in Parts(C) /\ Grown(y, w, n - m)
    BY <1>4, <2>4, <2>5
  <2>7. z \in Seq(C) /\ Len(z) \in Nat
    BY <2>6, LastPart
  <2> HIDE DEF w, z
  <2>8. Len(t) = Len(z) + (n - m) /\ \A u \in 1 .. Len(z) : t[u] = z[u]
    BY <2>6 DEF Grown, z
  <2>9. Len(z) = j
    BY <2>2, <2>4, <2>7, <2>8, SMTT(30) DEF k
  <2>10. z = g
    <3>1. Len(z) = Len(g) /\ \A u \in 1 .. Len(z) : z[u] = g[u]
      BY <2>3, <2>8, <2>9
    <3> QED
      BY <2>3, <2>7, <3>1, SeqEqual
  <2>11. Matches(l, z)
    BY <2>1, <2>10 DEF g
  <2>12. FrontMatch(v, w)
    BY <1>6, <1>9, <1>11, <2>4, <2>5 DEF w
  <2>13. Aligned(p, i - 1, h, m)
    BY <1>4, <1>8, <2>4, <2>11, <2>12 DEF w, z
  <2> QED
    BY <2>4, <2>5, <2>13
<1> QED
  BY <1>1, <1>10, <1>11 DEF x, y

\* The matcher may look at labels: what the reference says of the whole, it
\* says of each.
LEMMA MatchesByLabel ==
  ASSUME NEW C, NEW p \in Seq(C), NEW h \in Seq(C)
  PROVE  Matches(p, h) <=> LabelsMatch(Split(p, "."), Split(h, "."))
<1>1. PICK dp \in [0 .. Len(p) -> Parts(C)] : Splitting(p, ".", dp) /\ Split(p, ".") = dp[Len(p)]
  BY SplitParts
<1>2. PICK dh \in [0 .. Len(h) -> Parts(C)] : Splitting(h, ".", dh) /\ Split(h, ".") = dh[Len(h)]
  BY SplitParts
<1> DEFINE T == {i \in 0 .. Len(p) : AgreeAt(p, dp, h, dh, i)}
<1>3. 0 \in T
  <2>1. AgreeAt(p, dp, h, dh, 0)
    BY <1>1, <1>2, AgreeNothing
  <2> QED
    BY <2>1
<1>4. ASSUME NEW m \in 0 .. Len(p) - 1, m \in T PROVE m + 1 \in T
  <2> DEFINE i == m + 1
  <2>1. i \in 1 .. Len(p) /\ i \in 0 .. Len(p) /\ i - 1 = m
    OBVIOUS
  <2> HIDE DEF i
  <2>2. AgreeAt(p, dp, h, dh, i - 1)
    BY <1>4, <2>1
  <2>3. AgreeAt(p, dp, h, dh, i)
    <3>1. CASE p[i] = "."
      BY <1>1, <1>2, <2>1, <2>2, <3>1, AgreeDot
    <3>2. CASE p[i] = "*"
      BY <1>1, <1>2, <2>1, <2>2, <3>2, AgreeStar
    <3>3. CASE p[i] # "." /\ p[i] # "*"
      BY <1>1, <1>2, <2>1, <2>2, <3>3, AgreeChar
    <3> QED
      BY <3>1, <3>2, <3>3
  <2> QED
    BY <2>1, <2>3 DEF i
<1> HIDE DEF T
<1>5. Len(p) \in 0 .. Len(p) /\ Len(h) \in 0 .. Len(h) /\ Len(p) \in Nat
  OBVIOUS
<1>6. Len(p) \in T
  BY <1>3, <1>4, <1>5, InductionUpTo
<1>7. Aligned(p, Len(p), h, Len(h)) <=> LabelsMatch(dp[Len(p)], dh[Len(h)])
  BY <1>5, <1>6 DEF T, AgreeAt
<1> QED
  BY <1>1, <1>2, <1>7, MatchesAligned

-----------------------------------------------------------------------------
(***************************************************************************)
(* labelGlob.                                                              *)
(***************************************************************************)

\* part occurs in s after the first i characters.
OccursAt(s, part, i) ==
    i \in Nat /\ i + Len(part) <= Len(s) /\ \A j \in 1 .. Len(part) : s[i + j] = part[j]

LEMMA PrefixOccurs ==
  ASSUME NEW C, NEW x \in Seq(C), NEW y \in Seq(C)
  PROVE  IsPrefix(x, y) <=> OccursAt(y, x, 0)
<1> DEFINE k == Len(x)
           a == SubSeq(x, 1, k)
           b == SubSeq(y, 1, k)
<1>0. k \in Nat /\ Len(y) \in Nat
  OBVIOUS
<1>1. CASE k > Len(y)
  <2>1. ~(k <= Len(y)) /\ ~(0 + k <= Len(y))
    BY <1>0, <1>1
  <2> QED
    BY <2>1 DEF IsPrefix, OccursAt
<1>2. CASE k <= Len(y)
  <2>1. a \in Seq(C) /\ Len(a) = k /\ \A j \in 1 .. k : a[j] = x[j]
    BY <1>0, SubSeqProperties
  <2>2. b \in Seq(C) /\ Len(b) = k /\ \A j \in 1 .. k : b[j] = y[j]
    BY <1>0, <1>2, SubSeqProperties
  <2>3. IsPrefix(x, y) <=> a = b
    BY <1>2 DEF IsPrefix
  <2> HIDE DEF a, b
  <2>4. a = b <=> \A j \in 1 .. k : y[j] = x[j]
    <3>1. ASSUME \A j \in 1 .. k : y[j] = x[j] PROVE a = b
      <4>1. Len(a) = Len(b) /\ \A j \in 1 .. Len(a) : a[j] = b[j]
        BY <2>1, <2>2, <3>1
      <4> QED
        BY <2>1, <2>2, <4>1, SeqEqual
    <3> QED
      BY <2>1, <2>2, <3>1
  <2>5. 0 + k <= Len(y) /\ \A j \in 1 .. k : 0 + j = j
    BY <1>0, <1>2
  <2> QED
    BY <2>3, <2>4, <2>5 DEF OccursAt
<1> QED
  BY <1>0, <1>1, <1>2

LEMMA ReverseOf ==
  ASSUME NEW C, NEW x \in Seq(C)
  PROVE  /\ Reverse(x) \in Seq(C) /\ Len(Reverse(x)) = Len(x)
         /\ \A j \in 1 .. Len(x) : Reverse(x)[j] = x[(Len(x) - j) + 1]
<1> DEFINE r == Reverse(x)
<1>1. r = [j \in 1 .. Len(x) |-> x[(Len(x) - j) + 1]]
  BY DEF Reverse
<1>2. \A j \in 1 .. Len(x) : x[(Len(x) - j) + 1] \in C
  OBVIOUS
<1>3. r \in [1 .. Len(x) -> C] /\ Len(x) \in Nat
  BY <1>1, <1>2
<1>4. r \in Seq(C) /\ Len(r) = Len(x)
  BY <1>3
<1> QED
  BY <1>1, <1>4

LEMMA SuffixOccurs ==
  ASSUME NEW C, NEW x \in Seq(C), NEW y \in Seq(C)
  PROVE  IsSuffix(x, y) <=> Len(x) <= Len(y) /\ OccursAt(y, x, Len(y) - Len(x))
<1> DEFINE k == Len(x)
           n == Len(y)
           a == Reverse(x)
           b == Reverse(y)
<1>0. k \in Nat /\ n \in Nat
  OBVIOUS
<1>1. a \in Seq(C) /\ Len(a) = k /\ \A j \in 1 .. k : a[j] = x[(k - j) + 1]
  BY ReverseOf
<1>2. b \in Seq(C) /\ Len(b) = n /\ \A j \in 1 .. n : b[j] = y[(n - j) + 1]
  BY ReverseOf
<1>3. IsSuffix(x, y) <=> IsPrefix(a, b)
  BY DEF IsSuffix
<1> HIDE DEF a, b
<1>4. IsPrefix(a, b) <=> OccursAt(b, a, 0)
  BY <1>1, <1>2, PrefixOccurs
<1>5. OccursAt(b, a, 0) <=> k <= n /\ \A j \in 1 .. k : b[j] = a[j]
  <2>1. 0 + k = k /\ 0 \in Nat /\ \A j \in 1 .. k : 0 + j = j
    BY <1>0
  <2> QED
    BY <1>1, <1>2, <2>1 DEF OccursAt
<1>6. OccursAt(y, x, n - k) <=> n - k \in Nat /\ (n - k) + k <= n /\ \A j \in 1 .. k : y[(n - k) + j] = x[j]
  BY DEF OccursAt
<1> HIDE DEF k, n
<1>7. ASSUME k <= n
      PROVE  (\A j \in 1 .. k : b[j] = a[j]) <=> \A j \in 1 .. k : y[(n - k) + j] = x[j]
  <2>1. ASSUME \A j \in 1 .. k : b[j] = a[j], NEW j \in 1 .. k PROVE y[(n - k) + j] = x[j]
    <3> DEFINE u == (k - j) + 1
    <3>1. u \in 1 .. k /\ u \in 1 .. n /\ (k - u) + 1 = j /\ (n - u) + 1 = (n - k) + j
      BY <1>0, <1>7
    <3> HIDE DEF u
    <3>2. b[u] = a[u] /\ a[u] = x[j] /\ b[u] = y[(n - k) + j]
      BY <1>1, <1>2, <2>1, <3>1
    <3> QED
      BY <3>2
  <2>2. ASSUME \A j \in 1 .. k : y[(n - k) + j] = x[j], NEW j \in 1 .. k PROVE b[j] = a[j]
    <3> DEFINE u == (k - j) + 1
    <3>1. u \in 1 .. k /\ j \in 1 .. n /\ (n - j) + 1 = (n - k) + u
      BY <1>0, <1>7
    <3> HIDE DEF u
    <3>2. a[j] = x[u] /\ b[j] = y[(n - k) + u]
      BY <1>1, <1>2, <3>1 DEF u
    <3> QED
      BY <2>2, <3>1, <3>2
  <2> QED
    BY <2>1, <2>2
<1>8. k <= n => n - k \in Nat /\ (n - k) + k <= n
  BY <1>0
<1> QED
  BY <1>3, <1>4, <1>5, <1>6, <1>7, <1>8 DEF k, n

LEMMA LeastPlace ==
  ASSUME NEW P \in SUBSET Nat, P # {}
  PROVE  \E i \in P : \A j \in P : i <= j
<1> DEFINE R == {ss \in Nat \X Nat : ss[1] < ss[2]}
<1>1. IsWellFoundedOn(R, Nat)
  BY NatLessThanWellFounded DEF OpToRel
<1> HIDE DEF R
<1>2. PICK i \in P : \A j \in P : ~(<<j, i>> \in R)
  BY <1>1, WFMin
<1>3. ASSUME NEW j \in P PROVE i <= j
  <2>1. i \in Nat /\ j \in Nat
    OBVIOUS
  <2>2. j < i => <<j, i>> \in R
    BY <2>1 DEF R
  <2> QED
    BY <1>2, <2>1, <2>2
<1> QED
  BY <1>3

\* strings.Index finds the first place, if there is one.
FirstPlace(s, part, start, i) ==
    /\ start <= i /\ OccursAt(s, part, i)
    /\ \A j \in Nat : start <= j /\ OccursAt(s, part, j) => i <= j

LEMMA OccurrencesAt ==
  ASSUME NEW C, NEW s \in Seq(C), NEW part \in Seq(C), NEW start \in Nat
  PROVE  /\ Occurrences(s, part, start) \subseteq Nat
         /\ \A i : i \in Occurrences(s, part, start) <=> start <= i /\ OccursAt(s, part, i)
<1> DEFINE k == Len(part)
           n == Len(s)
<1>0. k \in Nat /\ n \in Nat
  OBVIOUS
<1>1. ASSUME NEW i \in Nat
      PROVE  i \in Occurrences(s, part, start) <=> start <= i /\ OccursAt(s, part, i)
  <2> DEFINE b == SubSeq(s, i + 1, i + k)
  <2>1. i \in Occurrences(s, part, start) <=> i \in start .. n - k /\ b = part
    BY DEF Occurrences
  <2>2. i \in start .. n - k <=> start <= i /\ i + k <= n
    BY <1>0
  <2>3. ASSUME i + k <= n PROVE b = part <=> \A j \in 1 .. k : s[i + j] = part[j]
    <3>1. \A j \in i + 1 .. i + k : s[j] \in C
      BY <1>0, <2>3
    <3>2. /\ b \in Seq(C)
          /\ Len(b) = IF i + 1 <= i + k THEN (i + k) - (i + 1) + 1 ELSE 0
          /\ \A j \in 1 .. (i + k) - (i + 1) + 1 : b[j] = s[(i + 1) + j - 1]
      BY <1>0, <3>1, SubSeqProperties
    <3> HIDE DEF b, k, n
    <3>3. Len(b) = k
      BY <1>0, <3>2
    <3>4. \A j \in 1 .. k : b[j] = s[i + j]
      <4> TAKE j \in 1 .. k
      <4>1. j \in 1 .. (i + k) - (i + 1) + 1 /\ (i + 1) + j - 1 = i + j
        BY <1>0
      <4> QED
        BY <3>2, <4>1
    <3>5. ASSUME \A j \in 1 .. k : s[i + j] = part[j] PROVE b = part
      <4>1. Len(b) = Len(part) /\ \A j \in 1 .. Len(b) : b[j] = part[j]
        BY <3>3, <3>4, <3>5 DEF k
      <4> QED
        BY <3>2, <4>1, SeqEqual
    <3> QED
      BY <3>4, <3>5
  <2> HIDE DEF b
  <2> QED
    BY <2>1, <2>2, <2>3 DEF OccursAt
<1>2. Occurrences(s, part, start) \subseteq Nat
  BY <1>0 DEF Occurrences
<1>3. \A i : OccursAt(s, part, i) => i \in Nat
  BY DEF OccursAt
<1> QED
  BY <1>1, <1>2, <1>3

LEMMA SkipPartFinds ==
  ASSUME NEW C, NEW s \in Seq(C), NEW part \in Seq(C), NEW start \in Nat
  PROVE  \/ /\ SkipPart(s, start, part) = NotFound
            /\ \A i : ~(start <= i /\ OccursAt(s, part, i))
         \/ \E i \in Nat : SkipPart(s, start, part) = i + Len(part) /\ FirstPlace(s, part, start, i)
<1> DEFINE P == Occurrences(s, part, start)
           f == CHOOSE i \in P : \A j \in P : i <= j
<1>0. start # NotFound
  BY DEF NotFound
<1>1. P \subseteq Nat /\ \A i : i \in P <=> start <= i /\ OccursAt(s, part, i)
  BY OccurrencesAt
<1>2. SkipPart(s, start, part) = IF P = {} THEN NotFound ELSE f + Len(part)
  BY <1>0 DEF SkipPart
<1> HIDE DEF P
<1>3. CASE P = {}
  BY <1>1, <1>2, <1>3
<1>4. CASE P # {}
  <2>1. \E i \in P : \A j \in P : i <= j
    BY <1>1, <1>4, LeastPlace
  <2>2. f \in P /\ \A j \in P : f <= j
    BY <2>1
  <2> HIDE DEF f
  <2>3. FirstPlace(s, part, start, f)
    BY <1>1, <2>2 DEF FirstPlace
  <2> QED
    BY <1>1, <1>2, <1>4, <2>2, <2>3
<1> QED
  BY <1>3, <1>4

Places == Nat \cup {NotFound}

LEMMA SkipPartPlace ==
  ASSUME NEW C, NEW s \in Seq(C), NEW part \in Seq(C), NEW start \in Places
  PROVE  SkipPart(s, start, part) \in Places
<1>1. CASE start = NotFound
  BY <1>1 DEF SkipPart, Places
<1>2. CASE start \in Nat
  <2>1. Len(part) \in Nat
    OBVIOUS
  <2>2. \/ SkipPart(s, start, part) = NotFound
        \/ \E i \in Nat : SkipPart(s, start, part) = i + Len(part)
    BY <1>2, SkipPartFinds
  <2> QED
    BY <2>1, <2>2 DEF Places
<1> QED
  BY <1>1, <1>2 DEF Places

\* at has where each part but the last ends, in the search.
Search(w, y, at) ==
    /\ at[1] = Len(w[1])
    /\ \A n \in 2 .. Len(w) - 1 : at[n] = SkipPart(y, at[n - 1], w[n])

LEMMA SkipMiddleSearch ==
  ASSUME NEW C, NEW y \in Seq(C), NEW w \in Seq(Seq(C)), Len(w) >= 2
  PROVE  \E at : Search(w, y, at) /\ SkipMiddle(w, y) = at[Len(w) - 1]
<1> DEFINE N == Len(w) - 2
           b == Len(w[1])
           G == [n \in 1 .. N |-> [v \in Places |-> SkipPart(y, v, w[n + 1])]]
           Eq(f) == f = [n \in 1 .. Len(w) - 1 |->
                            IF n = 1 THEN Len(w[1]) ELSE SkipPart(y, f[n - 1], w[n])]
           e == CHOOSE f : Eq(f)
<1>0. Len(w) \in Nat /\ N \in Nat /\ Len(w) - 1 = N + 1
  OBVIOUS
<1>1. \A n \in 1 .. Len(w) : w[n] \in Seq(C)
  OBVIOUS
<1>2. b \in Places
  BY <1>0, <1>1 DEF Places
<1>3. G \in [1 .. N -> [Places -> Places]]
  <2>1. ASSUME NEW n \in 1 .. N, NEW v \in Places PROVE SkipPart(y, v, w[n + 1]) \in Places
    <3>1. w[n + 1] \in Seq(C)
      BY <1>0, <1>1
    <3> QED
      BY <3>1, SkipPartPlace
  <2> QED
    BY <2>1
<1>4. PICK d : Iterates(d, N, Places, b, G)
  <2> HIDE DEF N, b, G
  <2> QED
    BY <1>0, <1>2, <1>3, RecursionUpTo
<1> DEFINE g == [n \in 1 .. Len(w) - 1 |-> d[n - 1]]
<1>5. Eq(g)
  <2>1. \A n \in 1 .. N : d[n] = SkipPart(y, d[n - 1], w[n + 1])
    <3> TAKE n \in 1 .. N
    <3>1. n - 1 \in 0 .. N /\ d[n - 1] \in Places /\ d[n] = G[n][d[n - 1]]
      <4>1. n - 1 \in 0 .. N
        BY <1>0
      <4> HIDE DEF N, b, G
      <4> QED
        BY <1>4, <4>1 DEF Iterates
    <3> QED
      BY <3>1
  <2>2. ASSUME NEW n \in 1 .. Len(w) - 1
        PROVE  g[n] = IF n = 1 THEN Len(w[1]) ELSE SkipPart(y, g[n - 1], w[n])
    <3>1. CASE n = 1
      <4>1. g[n] = d[0]
        BY <3>1
      <4> QED
        BY <1>4, <3>1, <4>1 DEF Iterates
    <3>2. CASE n # 1
      <4> DEFINE m == n - 1
      <4>1. m \in 1 .. N /\ m + 1 = n /\ m \in 1 .. Len(w) - 1
        BY <1>0, <3>2
      <4>2. g[n] = d[m] /\ g[m] = d[m - 1]
        BY <4>1
      <4> HIDE DEF m, g
      <4>3. d[m] = SkipPart(y, d[m - 1], w[n])
        BY <2>1, <4>1
      <4>4. g[n - 1] = d[m - 1]
        BY <4>2 DEF m
      <4> QED
        BY <3>2, <4>2, <4>3, <4>4
    <3> QED
      BY <3>1, <3>2
  <2> QED
    BY <2>2
<1>6. Eq(e)
  <2> HIDE DEF Eq, g
  <2> QED
    BY <1>5
<1>7. SkipMiddle(w, y) = e[Len(w) - 1]
  BY DEF SkipMiddle
<1> HIDE DEF e, G, N, b
<1>8. \A n \in 1 .. Len(w) - 1 : e[n] = IF n = 1 THEN Len(w[1]) ELSE SkipPart(y, e[n - 1], w[n])
  BY <1>6
<1>9. 1 \in 1 .. Len(w) - 1 /\ \A n \in 2 .. Len(w) - 1 : n \in 1 .. Len(w) - 1 /\ n # 1
  BY <1>0
<1>10. Search(w, y, e)
  BY <1>8, <1>9 DEF Search
<1> QED
  BY <1>7, <1>10

\* Part k of v is in s after the first a[k] characters, with a separator after
\* it unless it is the last.
PartAt(s, sep, n, v, a, k) ==
    /\ a[k] + Len(v[k]) <= n
    /\ \A j \in 1 .. Len(v[k]) : s[a[k] + j] = v[k][j]
    /\ k = Len(v) => a[k] + Len(v[k]) = n
    /\ k # Len(v) => /\ s[a[k] + Len(v[k]) + 1] = sep
                     /\ a[k + 1] = a[k] + Len(v[k]) + 1
                     /\ a[k + 1] <= n

Placed(s, sep, n, v, a) ==
    a \in [Nat -> Nat] /\ a[1] = 0 /\ \A k \in 1 .. Len(v) : PartAt(s, sep, n, v, a, k)

LEMMA PlacedNew ==
  ASSUME NEW C, NEW s \in Seq(C), NEW sep, NEW n \in Nat, s[n + 1] = sep,
         NEW v \in Parts(C), NEW w \in Parts(C), NewPart(w, v), NEW a, Placed(s, sep, n, v, a)
  PROVE  \E b : Placed(s, sep, n + 1, w, b)
<1> DEFINE q == Len(v)
           b == [a EXCEPT ![q + 1] = n + 1]
<1>0. q \in Nat \ {0} /\ \A k \in 1 .. q : v[k] \in Seq(C) /\ Len(v[k]) \in Nat
  BY LastPart
<1>1. a \in [Nat -> Nat] /\ a[1] = 0
  BY DEF Placed
<1>2. Len(w) = q + 1 /\ w[q + 1] = <<>> /\ \A k \in 1 .. q : w[k] = v[k]
  BY DEF NewPart
<1> HIDE DEF q
<1>3. b \in [Nat -> Nat] /\ b[q + 1] = n + 1 /\ \A k \in 1 .. q : b[k] = a[k] /\ a[k] \in Nat
  <2>1. q + 1 \in Nat /\ n + 1 \in Nat /\ \A k \in 1 .. q : k \in Nat /\ k # q + 1
    BY <1>0
  <2> QED
    BY <1>1, <2>1
<1> HIDE DEF b
<1>4. b[1] = 0
  BY <1>0, <1>1, <1>3
<1>5. ASSUME NEW k \in 1 .. q + 1 PROVE PartAt(s, sep, n + 1, w, b, k)
  <2>1. CASE k = q + 1
    <3>1. w[k] = <<>> /\ Len(w[k]) = 0 /\ b[k] = n + 1 /\ k = Len(w)
      BY <1>2, <1>3, <2>1
    <3> QED
      BY <3>1 DEF PartAt
  <2>2. CASE k \in 1 .. q
    <3>1. w[k] = v[k] /\ b[k] = a[k] /\ a[k] \in Nat /\ Len(v[k]) \in Nat /\ PartAt(s, sep, n, v, a, k)
      BY <1>0, <1>2, <1>3, <2>2 DEF Placed, q
    <3>2. k # Len(w)
      BY <1>0, <1>2, <2>2
    <3>3. a[k] + Len(v[k]) <= n + 1 /\ \A j \in 1 .. Len(v[k]) : s[a[k] + j] = v[k][j]
      BY <3>1 DEF PartAt
    <3>4. /\ s[a[k] + Len(v[k]) + 1] = sep
          /\ b[k + 1] = a[k] + Len(v[k]) + 1
          /\ b[k + 1] <= n + 1
      <4>1. CASE k = q
        <5>1. a[k] + Len(v[k]) = n
          BY <3>1, <4>1 DEF PartAt, q
        <5> DEFINE u == a[k] + Len(v[k])
        <5>2. u = n /\ b[k + 1] = n + 1
          BY <1>3, <4>1, <5>1
        <5> HIDE DEF u
        <5>3. s[u + 1] = sep /\ b[k + 1] = u + 1 /\ b[k + 1] <= n + 1
          BY <5>2
        <5> QED
          BY <5>3 DEF u
      <4>2. CASE k # q
        <5>1. k + 1 \in 1 .. q
          BY <1>0, <2>2, <4>2
        <5>2. b[k + 1] = a[k + 1] /\ a[k + 1] \in Nat
          BY <1>3, <5>1
        <5> QED
          BY <3>1, <4>2, <5>2 DEF PartAt, q
      <4> QED
        BY <4>1, <4>2
    <3> QED
      BY <3>1, <3>2, <3>3, <3>4 DEF PartAt
  <2> QED
    BY <1>0, <2>1, <2>2
<1>6. Placed(s, sep, n + 1, w, b)
  BY <1>2, <1>3, <1>4, <1>5 DEF Placed
<1> QED
  BY <1>6

LEMMA PlacedLonger ==
  ASSUME NEW C, NEW s \in Seq(C), NEW sep, NEW n \in Nat, s[n + 1] \in C,
         NEW v \in Parts(C), NEW w \in Parts(C), LongerPart(w, v, s[n + 1]),
         NEW a, Placed(s, sep, n, v, a)
  PROVE  Placed(s, sep, n + 1, w, a)
<1> DEFINE q == Len(v)
<1>0. q \in Nat \ {0} /\ \A k \in 1 .. q : v[k] \in Seq(C) /\ Len(v[k]) \in Nat
  BY LastPart
<1>1. a \in [Nat -> Nat] /\ a[1] = 0
  BY DEF Placed
<1>2. Len(w) = q /\ w[q] = Append(v[q], s[n + 1]) /\ \A k \in 1 .. q - 1 : w[k] = v[k]
  BY DEF LongerPart
<1> HIDE DEF q
<1>3. ASSUME NEW k \in 1 .. q PROVE PartAt(s, sep, n + 1, w, a, k)
  <2>0. a[k] \in Nat /\ a[k + 1] \in Nat /\ v[k] \in Seq(C) /\ Len(v[k]) \in Nat /\ PartAt(s, sep, n, v, a, k)
    <3>1. k \in Nat /\ k + 1 \in Nat
      BY <1>0
    <3>2. v[k] \in Seq(C) /\ Len(v[k]) \in Nat /\ PartAt(s, sep, n, v, a, k)
      BY <1>0 DEF Placed, q
    <3> QED
      BY <1>1, <3>1, <3>2
  <2>1. CASE k = q
    <3>1. /\ w[k] = Append(v[k], s[n + 1]) /\ Len(w[k]) = Len(v[k]) + 1
          /\ w[k][Len(v[k]) + 1] = s[n + 1] /\ \A j \in 1 .. Len(v[k]) : w[k][j] = v[k][j]
      BY <1>2, <2>0, <2>1, AppendProperties
    <3>2. a[k] + Len(v[k]) = n /\ \A j \in 1 .. Len(v[k]) : s[a[k] + j] = v[k][j]
      BY <2>0, <2>1 DEF PartAt, q
    <3> DEFINE l == Len(v[k])
               f == a[k]
    <3>3. l \in Nat /\ f \in Nat /\ f + l = n /\ Len(w[k]) = l + 1
      BY <2>0, <3>1, <3>2
    <3>4. ASSUME NEW j \in 1 .. l + 1 PROVE s[f + j] = w[k][j]
      <4>1. CASE j = l + 1
        <5>1. f + j = n + 1
          BY <3>3, <4>1, SMTT(30)
        <5> QED
          BY <3>1, <4>1, <5>1
      <4>2. CASE j \in 1 .. l
        BY <3>1, <3>2, <4>2
      <4> QED
        BY <3>3, <4>1, <4>2
    <3> HIDE DEF l, f
    <3>5. f + (l + 1) = n + 1 /\ f + (l + 1) <= n + 1
      BY <3>3
    <3> QED
      BY <1>2, <2>1, <3>3, <3>4, <3>5 DEF PartAt, f
  <2>2. CASE k # q
    <3>1. k \in 1 .. q - 1
      BY <1>0, <2>2
    <3>2. w[k] = v[k] /\ k # Len(w) /\ k # Len(v)
      BY <1>2, <2>2, <3>1 DEF q
    <3> QED
      BY <2>0, <3>2 DEF PartAt
  <2> QED
    BY <2>1, <2>2
<1> QED
  BY <1>1, <1>2, <1>3 DEF Placed

\* What strings.Split returns are the pieces between the separators.
LEMMA SplitPlaced ==
  ASSUME NEW C, NEW s \in Seq(C), NEW sep
  PROVE  /\ Split(s, sep) \in Parts(C) /\ FreeOf(Split(s, sep), sep)
         /\ \E a : Placed(s, sep, Len(s), Split(s, sep), a)
<1>1. PICK d \in [0 .. Len(s) -> Parts(C)] : Splitting(s, sep, d) /\ Split(s, sep) = d[Len(s)]
  BY SplitParts
<1> DEFINE T == {n \in 0 .. Len(s) : \E a : Placed(s, sep, n, d[n], a)}
<1>2. 0 \in T
  <2> DEFINE v == << <<>> >>
             a == [k \in Nat |-> 0]
  <2>0. a \in [Nat -> Nat] /\ a[1] = 0
    OBVIOUS
  <2>1. Len(v) = 1 /\ v[1] = <<>> /\ Len(v[1]) = 0 /\ d[0] = v
    BY <1>1 DEF Splitting
  <2> HIDE DEF v, a
  <2>2. PartAt(s, sep, 0, v, a, 1)
    BY <2>0, <2>1 DEF PartAt
  <2>3. \A k \in 1 .. Len(v) : k = 1
    BY <2>1
  <2>4. Placed(s, sep, 0, d[0], a)
    BY <2>0, <2>1, <2>2, <2>3 DEF Placed
  <2> QED
    BY <2>4
<1>3. ASSUME NEW m \in 0 .. Len(s) - 1, m \in T PROVE m + 1 \in T
  <2> DEFINE n == m + 1
  <2>1. m \in Nat /\ n \in 1 .. Len(s) /\ n \in 0 .. Len(s) /\ n - 1 = m
    OBVIOUS
  <2>2. PICK a : Placed(s, sep, m, d[m], a)
    BY <1>3
  <2> HIDE DEF n
  <2>3. /\ s[n] \in C /\ d[m] \in Parts(C) /\ d[n] \in Parts(C)
        /\ s[n] = sep => NewPart(d[n], d[m])
        /\ s[n] # sep => LongerPart(d[n], d[m], s[n])
    BY <1>1, <2>1, SplitNext
  <2>4. \E b : Placed(s, sep, m + 1, d[n], b)
    <3>1. CASE s[n] = sep
      BY <2>1, <2>2, <2>3, <3>1, PlacedNew DEF n
    <3>2. CASE s[n] # sep
      <4>1. Placed(s, sep, m + 1, d[n], a)
        BY <2>1, <2>2, <2>3, <3>2, PlacedLonger DEF n
      <4> QED
        BY <4>1
    <3> QED
      BY <3>1, <3>2
  <2> QED
    BY <2>1, <2>4 DEF n
<1> HIDE DEF T
<1>4. Len(s) \in Nat /\ Len(s) \in 0 .. Len(s)
  OBVIOUS
<1>5. Len(s) \in T
  BY <1>2, <1>3, <1>4, InductionUpTo
<1>6. FreeOf(d[Len(s)], sep)
  BY <1>1, <1>4, SplitPartsPlain
<1> QED
  BY <1>1, <1>4, <1>5, <1>6 DEF T

\* Characters other than stars stand for themselves.
StarFree(p, f, l) == \A j \in 1 .. l : p[f + j] # "*"

Verbatim(p, h, end, f, l) == end[f + l] = end[f] + l /\ \A j \in 1 .. l : h[end[f] + j] = p[f + j]

LEMMA StarFreeRun ==
  ASSUME NEW p, NEW i \in Nat, NEW h, NEW n \in Nat, NEW end, Alignment(p, i, h, n, end),
         NEW f \in 0 .. i, NEW l \in Nat, f + l <= i, StarFree(p, f, l)
  PROVE  Verbatim(p, h, end, f, l)
<1> DEFINE T == {j \in 0 .. l : end[f + j] = end[f] + j}
<1>0. end \in [0 .. i -> Nat] /\ \A j \in 1 .. i : StandsFor(p, h, end, j)
  BY DEF Alignment
<1>1. 0 \in T
  <2>1. end[f] \in Nat /\ f + 0 = f
    BY <1>0
  <2> QED
    BY <2>1
<1>2. ASSUME NEW j \in 0 .. l - 1, j \in T
      PROVE  j + 1 \in T /\ h[end[f] + (j + 1)] = p[f + (j + 1)]
  <2> DEFINE k == f + (j + 1)
  <2>1. k \in 1 .. i /\ k - 1 = f + j /\ k - 1 \in 0 .. i /\ j + 1 \in 1 .. l
    OBVIOUS
  <2>2. end[f] \in Nat /\ end[f + j] = end[f] + j
    BY <1>0, <1>2
  <2>3. StandsFor(p, h, end, k) /\ p[k] # "*"
    BY <1>0, <2>1 DEF StarFree
  <2> HIDE DEF k
  <2>4. end[k] = end[f + j] + 1 /\ h[end[k]] = p[k]
    BY <2>1, <2>3 DEF StandsFor
  <2>5. end[k] = end[f] + (j + 1)
    BY <2>2, <2>4
  <2> QED
    BY <2>1, <2>4, <2>5 DEF k
<1>3. 0 .. l \subseteq T
  <2> HIDE DEF T
  <2> QED
    BY <1>1, <1>2, InductionUpTo
<1>4. end[f + l] = end[f] + l
  BY <1>3
<1>5. ASSUME NEW j \in 1 .. l PROVE h[end[f] + j] = p[f + j]
  <2>1. j - 1 \in 0 .. l - 1 /\ (j - 1) + 1 = j /\ j - 1 \in 0 .. l
    OBVIOUS
  <2> HIDE DEF T
  <2>2. j - 1 \in T
    BY <1>3, <2>1
  <2> QED
    BY <1>2, <2>1, <2>2
<1> QED
  BY <1>4, <1>5 DEF Verbatim

LEMMA PlacedPart ==
  ASSUME NEW C, NEW s, NEW sep, NEW n, NEW w \in Parts(C), NEW a, Placed(s, sep, n, w, a),
         NEW k \in 1 .. Len(w)
  PROVE  /\ w[k] \in Seq(C) /\ Len(w[k]) \in Nat /\ a[k] \in Nat
         /\ PartAt(s, sep, n, w, a, k)
<1>1. w \in Seq(Seq(C)) /\ Len(w) \in Nat
  BY LastPart
<1>2. k \in Nat /\ w[k] \in Seq(C)
  BY <1>1
<1>3. a \in [Nat -> Nat] /\ PartAt(s, sep, n, w, a, k)
  BY DEF Placed
<1>4. Len(w[k]) \in Nat
  BY <1>2, LenProperties
<1>5. a[k] \in Nat
  BY <1>2, <1>3
<1> QED
  BY <1>2, <1>3, <1>4, <1>5

\* Each part occurs where the alignment says it does.
LEMMA PartsOccur ==
  ASSUME NEW C, NEW x \in Seq(C), NEW y \in Seq(C), NEW end, Alignment(x, Len(x), y, Len(y), end),
         NEW w \in Parts(C), FreeOf(w, "*"), NEW a, Placed(x, "*", Len(x), w, a),
         NEW k \in 1 .. Len(w)
  PROVE  /\ OccursAt(y, w[k], end[a[k]])
         /\ end[a[k] + Len(w[k])] = end[a[k]] + Len(w[k])
<1> DEFINE f == a[k]
           l == Len(w[k])
           i == Len(x)
           n == Len(y)
<1>0. i \in Nat /\ n \in Nat /\ w[k] \in Seq(C) /\ l \in Nat
  <2>1. i \in Nat /\ n \in Nat
    OBVIOUS
  <2>2. w[k] \in Seq(C) /\ l \in Nat
    BY PlacedPart
  <2> QED
    BY <2>1, <2>2
<1>1. f \in Nat /\ f + l <= i /\ \A j \in 1 .. l : x[f + j] = w[k][j]
  <2>1. f \in Nat /\ PartAt(x, "*", i, w, a, k)
    BY PlacedPart
  <2> QED
    BY <2>1 DEF PartAt
<1>2. StarFree(x, f, l)
  BY <1>1 DEF FreeOf, StarFree
<1> HIDE DEF f, l, i, n
<1>3. f \in 0 .. i /\ f + l \in 0 .. i
  BY <1>0, <1>1
<1>4. end[f + l] = end[f] + l /\ \A j \in 1 .. l : y[end[f] + j] = x[f + j]
  <2>1. Alignment(x, i, y, n, end)
    BY DEF i, n
  <2>2. Verbatim(x, y, end, f, l)
    BY <1>0, <1>1, <1>2, <1>3, <2>1, StarFreeRun
  <2> QED
    BY <2>2 DEF Verbatim
<1>5. end[f] \in 0 .. n /\ end[f + l] \in 0 .. n
  BY <1>0, <1>3, EndsGrow DEF i, n
<1>6. end[f] \in Nat /\ end[f] + l <= n
  BY <1>0, <1>4, <1>5
<1>7. OccursAt(y, w[k], end[f])
  BY <1>1, <1>4, <1>6 DEF OccursAt, l, n
<1> QED
  BY <1>4, <1>7 DEF f, l

\* A star in the pattern separates two parts.
LEMMA StarSplits ==
  ASSUME NEW C, NEW x \in Seq(C), Contains(x, "*"), NEW w \in Parts(C), FreeOf(w, "*"),
         NEW a, Placed(x, "*", Len(x), w, a)
  PROVE  Len(w) >= 2
<1>0. Len(w) \in Nat \ {0} /\ w[1] \in Seq(C) /\ Len(w[1]) \in Nat
  BY LastPart
<1> SUFFICES ASSUME ~(Len(w) >= 2) PROVE FALSE
  OBVIOUS
<1>a. Len(w) = 1 /\ 1 \in 1 .. Len(w)
  <2> DEFINE q == Len(w)
  <2>1. q \in Nat \ {0} /\ ~(q >= 2)
    BY <1>0
  <2> HIDE DEF q
  <2>2. q = 1 /\ 1 \in 1 .. q
    BY <2>1
  <2> QED
    BY <2>2 DEF q
<1>1. a[1] = 0 /\ PartAt(x, "*", Len(x), w, a, 1)
  BY <1>a DEF Placed
<1>2. Len(w[1]) = Len(x) /\ \A j \in 1 .. Len(w[1]) : x[j] = w[1][j]
  BY <1>0, <1>a, <1>1 DEF PartAt
<1>3. \A j \in 1 .. Len(w[1]) : w[1][j] # "*"
  BY <1>a DEF FreeOf
<1> QED
  BY <1>2, <1>3 DEF Contains

\* The search finds every part, and none later than it has to.
LEMMA SearchFinds ==
  ASSUME NEW C, NEW x \in Seq(C), NEW y \in Seq(C), NEW end, Alignment(x, Len(x), y, Len(y), end),
         NEW w \in Parts(C), FreeOf(w, "*"), NEW a, Placed(x, "*", Len(x), w, a), Len(w) >= 2,
         NEW at, Search(w, y, at)
  PROVE  at[Len(w) - 1] # NotFound
<1> DEFINE Ok(k) == at[k] \in Nat /\ at[k] <= end[a[k] + Len(w[k])]
           N == Len(w) - 2
           T == {m \in 0 .. N : Ok(m + 1)}
<1>0. /\ Len(w) \in Nat \ {0} /\ N \in Nat /\ Len(x) \in Nat /\ Len(y) \in Nat
      /\ a \in [Nat -> Nat] /\ a[1] = 0
      /\ \A k \in 1 .. Len(w) : w[k] \in Seq(C) /\ Len(w[k]) \in Nat /\ PartAt(x, "*", Len(x), w, a, k)
  <2>1. Len(w) \in Nat \ {0} /\ N \in Nat /\ Len(x) \in Nat /\ Len(y) \in Nat
    BY LastPart
  <2>2. a \in [Nat -> Nat] /\ a[1] = 0
    BY DEF Placed
  <2> QED
    BY <2>1, <2>2, PlacedPart
<1>1. \A k \in 1 .. Len(w) : /\ OccursAt(y, w[k], end[a[k]])
                             /\ end[a[k] + Len(w[k])] = end[a[k]] + Len(w[k])
  BY PartsOccur
<1>2. Ok(1)
  <2>1. 1 \in 1 .. Len(w) /\ end[0] = 0
    BY <1>0 DEF Alignment
  <2>2. end[a[1] + Len(w[1])] = Len(w[1]) /\ Len(w[1]) \in Nat
    <3> DEFINE l == Len(w[1])
    <3>1. l \in Nat /\ end[a[1] + l] = end[a[1]] + l /\ a[1] = 0
      BY <1>0, <1>1, <2>1
    <3> HIDE DEF l
    <3>2. end[a[1] + l] = l
      BY <2>1, <3>1
    <3> QED
      BY <3>1, <3>2 DEF l
  <2> QED
    BY <2>2 DEF Search
<1>3. ASSUME NEW m \in 0 .. N - 1, m \in T PROVE m + 1 \in T
  <2> DEFINE k == m + 1
             i == a[k + 1]
             part == w[k + 1]
  <2>1. k \in 1 .. Len(w) - 1 /\ k \in 1 .. Len(w) /\ k + 1 \in 1 .. Len(w) /\ k + 1 \in 2 .. Len(w) - 1
        /\ (k + 1) - 1 = k /\ k # Len(w) /\ k \in Nat /\ k + 1 \in Nat /\ m + 1 \in 0 .. N
    <3> DEFINE q == Len(w)
    <3>1. q \in Nat /\ N = q - 2
      BY <1>0
    <3> HIDE DEF q, N
    <3> QED
      BY <3>1 DEF q
  <2>2. Ok(k)
    BY <1>3
  <2> HIDE DEF k
  <2>3. /\ PartAt(x, "*", Len(x), w, a, k) /\ a[k] \in Nat /\ Len(w[k]) \in Nat /\ i \in Nat
        /\ part \in Seq(C) /\ Len(part) \in Nat
    BY <1>0, <2>1
  <2>4. x[i] = "*" /\ i = a[k] + Len(w[k]) + 1 /\ i <= Len(x)
    BY <2>1, <2>3 DEF PartAt
  <2> HIDE DEF i, part
  <2>5. end[a[k] + Len(w[k])] <= end[i] /\ end[i] \in Nat
    <3>1. i \in 1 .. Len(x) /\ i - 1 = a[k] + Len(w[k])
      <4> DEFINE f == a[k]
                 l == Len(w[k])
                 n == Len(x)
      <4>1. f \in Nat /\ l \in Nat /\ n \in Nat /\ i = f + l + 1 /\ i <= n
        BY <1>0, <2>3, <2>4
      <4> HIDE DEF f, l, n
      <4>2. i \in 1 .. n /\ i - 1 = f + l
        BY <4>1
      <4> QED
        BY <4>2 DEF f, l, n
    <3>2. StandsFor(x, y, end, i)
      BY <3>1 DEF Alignment
    <3>3. end[i - 1] <= end[i]
      BY <2>4, <3>2 DEF StandsFor
    <3>4. end[i] \in Nat
      <4>1. i \in 0 .. Len(x)
        BY <1>0, <3>1
      <4> QED
        BY <4>1 DEF Alignment
    <3> QED
      BY <3>1, <3>3, <3>4
  <2>6. OccursAt(y, part, end[i]) /\ end[i + Len(part)] = end[i] + Len(part)
    BY <1>1, <2>1 DEF i, part
  <2>7. at[k] \in Nat /\ at[k] <= end[i]
    <3> DEFINE u == end[a[k] + Len(w[k])]
    <3>1. u \in Nat
      <4> DEFINE f == a[k]
                 l == Len(w[k])
                 n == Len(x)
      <4>0. f \in Nat /\ l \in Nat /\ n \in Nat /\ i = f + l + 1 /\ i <= n
        BY <1>0, <2>3, <2>4
      <4>1. f + l \in 0 .. n
        <5> HIDE DEF f, l, n
        <5> QED
          BY <4>0
      <4> QED
        BY <4>1 DEF Alignment
    <3>2. at[k] \in Nat /\ at[k] <= u /\ u <= end[i]
      BY <2>2, <2>5
    <3> HIDE DEF u
    <3> QED
      BY <2>5, <3>1, <3>2
  <2>8. at[k + 1] = SkipPart(y, at[k], part)
    BY <2>1 DEF Search, part
  <2>9. PICK j \in Nat : SkipPart(y, at[k], part) = j + Len(part) /\ FirstPlace(y, part, at[k], j)
    BY <2>3, <2>6, <2>7, SkipPartFinds
  <2>10. j <= end[i]
    BY <2>5, <2>6, <2>7, <2>9 DEF FirstPlace
  <2>11. at[k + 1] \in Nat /\ at[k + 1] <= end[i] + Len(part)
    BY <2>3, <2>5, <2>8, <2>9, <2>10, SMTT(30)
  <2>12. Ok(k + 1)
    BY <2>6, <2>11 DEF i, part
  <2> QED
    BY <2>1, <2>12 DEF k
<1>4. 0 \in T
  <2>1. 0 \in 0 .. N /\ 0 + 1 = 1
    BY <1>0
  <2> HIDE DEF N, Ok
  <2> QED
    BY <1>2, <2>1
<1> HIDE DEF T
<1>5. N \in T
  <2>1. N \in Nat /\ N \in 0 .. N
    BY <1>0
  <2> HIDE DEF N
  <2>2. 0 .. N \subseteq T
    BY <1>3, <1>4, <2>1, InductionUpTo
  <2> QED
    BY <2>1, <2>2
<1>6. N + 1 = Len(w) - 1
  BY <1>0
<1>7. at[Len(w) - 1] \in Nat
  <2> HIDE DEF N
  <2>1. at[N + 1] \in Nat
    BY <1>5 DEF T
  <2> QED
    BY <1>6, <2>1
<1> QED
  BY <1>7 DEF NotFound

\* A label that the stars may stand for is accepted.
LEMMA GlobComplete ==
  ASSUME NEW C, NEW x \in Seq(C), NEW y \in Seq(C), Matches(x, y)
  PROVE  LabelGlob(x, y)
<1>0. Len(x) \in Nat /\ Len(y) \in Nat
  OBVIOUS
<1>1. PICK end : Alignment(x, Len(x), y, Len(y), end)
  BY MatchesAligned DEF Aligned
<1>2. CASE ~Contains(x, "*")
  <2> DEFINE l == Len(x)
  <2>0. 0 \in 0 .. l /\ l \in Nat /\ 0 + l = l /\ \A j \in 1 .. l : 0 + j = j
    BY <1>0
  <2>1. StarFree(x, 0, l)
    BY <1>2, <2>0 DEF Contains, StarFree
  <2>2. end[0] = 0 /\ end[l] = Len(y)
    BY <1>1 DEF Alignment
  <2> HIDE DEF l
  <2>3. end[0 + l] = end[0] + l /\ \A j \in 1 .. l : y[end[0] + j] = x[0 + j]
    <3>1. Alignment(x, l, y, Len(y), end) /\ 0 + l <= l
      BY <1>1, <2>0 DEF l
    <3>2. Verbatim(x, y, end, 0, l)
      BY <1>0, <2>0, <2>1, <3>1, StarFreeRun
    <3> QED
      BY <3>2 DEF Verbatim
  <2>4. Len(y) = l /\ \A j \in 1 .. l : y[j] = x[j]
    BY <2>0, <2>2, <2>3
  <2>5. x = y
    BY <2>4, SeqEqual DEF l
  <2> QED
    BY <1>2, <2>5 DEF LabelGlob
<1>3. CASE Contains(x, "*")
  <2> DEFINE w == Split(x, "*")
             q == Len(w)
  <2>1. w \in Parts(C) /\ FreeOf(w, "*")
    BY SplitPlaced
  <2>2. PICK a : Placed(x, "*", Len(x), w, a)
    BY SplitPlaced
  <2> HIDE DEF w
  <2>3. q >= 2 /\ q \in Nat /\ w \in Seq(Seq(C)) /\ 1 \in 1 .. q /\ q \in 1 .. q
        /\ w[1] \in Seq(C) /\ w[q] \in Seq(C) /\ Len(w[q]) \in Nat
    BY <1>3, <2>1, <2>2, StarSplits, LastPart
  <2>4. a[1] = 0 /\ PartAt(x, "*", Len(x), w, a, q) /\ a[q] \in Nat
    BY <2>2, <2>3 DEF Placed
  <2>5. a[q] + Len(w[q]) = Len(x)
    BY <2>4 DEF PartAt
  <2>6. /\ OccursAt(y, w[1], end[a[1]])
        /\ OccursAt(y, w[q], end[a[q]])
        /\ end[a[q] + Len(w[q])] = end[a[q]] + Len(w[q])
    BY <1>1, <2>1, <2>2, <2>3, PartsOccur
  <2>7. end[0] = 0 /\ end[Len(x)] = Len(y)
    BY <1>1 DEF Alignment
  <2>8. IsPrefix(w[1], y)
    BY <2>3, <2>4, <2>6, <2>7, PrefixOccurs
  <2>9. IsSuffix(w[q], y)
    <3>1. end[a[q]] \in Nat /\ end[a[q]] + Len(w[q]) = Len(y)
      BY <2>5, <2>6, <2>7 DEF OccursAt
    <3>2. Len(w[q]) <= Len(y) /\ end[a[q]] = Len(y) - Len(w[q])
      BY <1>0, <2>3, <3>1
    <3> QED
      BY <2>3, <2>6, <3>2, SuffixOccurs
  <2>10. PICK at : Search(w, y, at) /\ SkipMiddle(w, y) = at[Len(w) - 1]
    BY <2>3, SkipMiddleSearch
  <2>11. SkipMiddle(w, y) # NotFound
    BY <1>1, <2>1, <2>2, <2>3, <2>10, SearchFinds
  <2> QED
    BY <1>3, <2>8, <2>9, <2>11 DEF LabelGlob, w, Last
<1> QED
  BY <1>2, <1>3

LEMMA MatchesSelf ==
  ASSUME NEW C, NEW x \in Seq(C)
  PROVE  Matches(x, x)
<1> DEFINE end == [i \in 0 .. Len(x) |-> i]
<1>0. Len(x) \in Nat
  OBVIOUS
<1>1. end \in [0 .. Len(x) -> Nat] /\ end[0] = 0 /\ end[Len(x)] = Len(x)
  BY <1>0
<1>2. ASSUME NEW i \in 1 .. Len(x) PROVE StandsFor(x, x, end, i)
  <2>1. end[i] = i /\ end[i - 1] = i - 1
    BY <1>0
  <2> HIDE DEF end
  <2>2. CASE x[i] = "*"
    <3>1. \A k \in (i - 1) + 1 .. i : k = i
      OBVIOUS
    <3>2. NoDot(x, i - 1, i)
      BY <2>2, <3>1 DEF NoDot
    <3> QED
      BY <2>1, <2>2, <3>2 DEF StandsFor
  <2>3. CASE x[i] # "*"
    BY <2>1, <2>3 DEF StandsFor
  <2> QED
    BY <2>2, <2>3
<1> HIDE DEF end
<1>3. Alignment(x, Len(x), x, Len(x), end)
  BY <1>1, <1>2 DEF Alignment
<1> QED
  BY <1>3, MatchesAligned DEF Aligned

\* The two parts of a pattern with one star.
LEMMA OneStar ==
  ASSUME NEW C, NEW x \in Seq(C), NEW s \in 1 .. Len(x), Stars(x) = {s}
  PROVE  LET w == Split(x, "*") IN
         /\ Len(w) = 2 /\ w[1] \in Seq(C) /\ w[2] \in Seq(C)
         /\ Len(w[1]) = s - 1 /\ \A j \in 1 .. s - 1 : x[j] = w[1][j]
         /\ Len(w[2]) = Len(x) - s /\ \A j \in 1 .. Len(x) - s : x[s + j] = w[2][j]
<1> DEFINE w == Split(x, "*")
<1>0. Len(x) \in Nat /\ s \in Nat /\ x[s] = "*" /\ \A i \in 1 .. Len(x) : x[i] = "*" => i = s
  BY DEF Stars
<1>1. w \in Parts(C) /\ FreeOf(w, "*")
  BY SplitPlaced
<1>2. PICK a : Placed(x, "*", Len(x), w, a)
  BY SplitPlaced
<1> HIDE DEF w
<1>3. Contains(x, "*")
  BY <1>0 DEF Contains
<1>4. Len(w) >= 2 /\ Len(w) \in Nat
  BY <1>1, <1>2, <1>3, StarSplits, LastPart
<1>5. 1 \in 1 .. Len(w) /\ 2 \in 1 .. Len(w) /\ 1 # Len(w)
  <2> DEFINE q == Len(w)
  <2>1. q \in Nat /\ q >= 2
    BY <1>4
  <2> HIDE DEF q
  <2>2. 1 \in 1 .. q /\ 2 \in 1 .. q /\ 1 # q
    BY <2>1
  <2> QED
    BY <2>2 DEF q
<1>6. /\ w[1] \in Seq(C) /\ w[2] \in Seq(C) /\ Len(w[1]) \in Nat /\ Len(w[2]) \in Nat
      /\ a[1] = 0 /\ a[2] \in Nat
      /\ PartAt(x, "*", Len(x), w, a, 1) /\ PartAt(x, "*", Len(x), w, a, 2)
  <2>1. a[1] = 0
    BY <1>2 DEF Placed
  <2> QED
    BY <1>1, <1>2, <1>5, <2>1, PlacedPart
<1> DEFINE l == Len(w[1])
           m == Len(w[2])
<1>7. /\ x[0 + l + 1] = "*" /\ a[2] = 0 + l + 1 /\ a[2] <= Len(x)
      /\ \A j \in 1 .. l : x[0 + j] = w[1][j]
  BY <1>5, <1>6 DEF PartAt
<1>8. /\ a[2] + m <= Len(x) /\ \A j \in 1 .. m : x[a[2] + j] = w[2][j]
      /\ 2 = Len(w) => a[2] + m = Len(x)
      /\ 2 # Len(w) => x[a[2] + m + 1] = "*" /\ a[2 + 1] = a[2] + m + 1 /\ a[2 + 1] <= Len(x)
  BY <1>6 DEF PartAt
<1>9. l \in Nat /\ m \in Nat
  BY <1>6
<1> HIDE DEF l, m
<1>10. a[2] = s /\ l = s - 1
  <2>1. l + 1 \in 1 .. Len(x) /\ x[l + 1] = "*" /\ a[2] = l + 1
    BY <1>0, <1>7, <1>9
  <2>2. l + 1 = s
    BY <1>0, <2>1
  <2> QED
    BY <1>9, <2>1, <2>2
<1>11. Len(w) = 2
  <2> SUFFICES ASSUME 2 # Len(w) PROVE FALSE
    OBVIOUS
  <2>1. x[s + m + 1] = "*" /\ s + m + 1 \in 1 .. Len(x)
    BY <1>0, <1>8, <1>9, <1>10
  <2>2. s + m + 1 = s
    BY <1>0, <2>1
  <2> QED
    BY <1>0, <1>9, <2>2
<1>12. m = Len(x) - s
  BY <1>0, <1>8, <1>9, <1>10, <1>11
<1>13. \A j \in 1 .. s - 1 : x[j] = w[1][j]
  <2> TAKE j \in 1 .. s - 1
  <2>1. j \in 1 .. l /\ 0 + j = j
    BY <1>9, <1>10
  <2> QED
    BY <1>7, <2>1
<1>14. \A j \in 1 .. Len(x) - s : x[s + j] = w[2][j]
  BY <1>8, <1>10, <1>12
<1> QED
  BY <1>6, <1>10, <1>11, <1>12, <1>13, <1>14 DEF w, l, m

\* What labelGlob asks of a pattern with one star.
LEMMA OneStarGlob ==
  ASSUME NEW C, NEW x \in Seq(C), NEW y \in Seq(C), NEW s \in 1 .. Len(x), Stars(x) = {s},
         LabelGlob(x, y)
  PROVE  /\ s - 1 <= Len(y) /\ \A j \in 1 .. s - 1 : y[j] = x[j]
         /\ Len(x) - s <= Len(y)
         /\ \A j \in 1 .. Len(x) - s : y[(Len(y) - (Len(x) - s)) + j] = x[s + j]
<1> DEFINE w == Split(x, "*")
<1>0. Len(x) \in Nat /\ Len(y) \in Nat /\ s \in Nat /\ x[s] = "*"
  BY DEF Stars
<1>1. /\ Len(w) = 2 /\ w[1] \in Seq(C) /\ w[2] \in Seq(C)
      /\ Len(w[1]) = s - 1 /\ \A j \in 1 .. s - 1 : x[j] = w[1][j]
      /\ Len(w[2]) = Len(x) - s /\ \A j \in 1 .. Len(x) - s : x[s + j] = w[2][j]
  BY OneStar
<1>2. Contains(x, "*")
  BY <1>0 DEF Contains
<1>3. IsPrefix(w[1], y) /\ IsSuffix(w[Len(w)], y)
  BY <1>2 DEF LabelGlob, Last
<1> HIDE DEF w
<1>4. OccursAt(y, w[1], 0)
  BY <1>1, <1>3, PrefixOccurs
<1>5. Len(w[2]) <= Len(y) /\ OccursAt(y, w[2], Len(y) - Len(w[2]))
  BY <1>1, <1>3, SuffixOccurs
<1>6. s - 1 <= Len(y) /\ \A j \in 1 .. s - 1 : y[j] = x[j]
  BY <1>0, <1>1, <1>4 DEF OccursAt
<1>7. Len(x) - s <= Len(y) /\ \A j \in 1 .. Len(x) - s : y[(Len(y) - (Len(x) - s)) + j] = x[s + j]
  BY <1>1, <1>5 DEF OccursAt
<1> QED
  BY <1>6, <1>7

NoStar(x) == Stars(x) = {}

LEMMA NoStarGlob ==
  ASSUME NEW C, NEW x \in Seq(C), NEW y \in Seq(C), NoStar(x), LabelGlob(x, y)
  PROVE  x = y
<1>1. ~Contains(x, "*")
  BY DEF Contains, NoStar, Stars
<1> QED
  BY <1>1 DEF LabelGlob

\* Where the parts around the one star cannot overlap, it stands for the rest.
LEMMA GlobExact ==
  ASSUME NEW C, NEW x \in Seq(C), NEW y \in Seq(C), LabelGlob(x, y),
         \A j \in 1 .. Len(y) : y[j] # ".",
         NoStar(x) \/ \E s \in DOMAIN x : Stars(x) = {s},
         Len(y) >= Len(x) - 1
  PROVE  Matches(x, y)
<1>1. CASE NoStar(x)
  BY <1>1, NoStarGlob, MatchesSelf
<1>2. ASSUME NEW s \in DOMAIN x, Stars(x) = {s} PROVE Matches(x, y)
  <2> DEFINE i == Len(x)
             n == Len(y)
             end == [j \in 0 .. i |-> IF j < s THEN j ELSE (n - i) + j]
  <2>0. i \in Nat /\ n \in Nat /\ s \in 1 .. i /\ s \in Nat /\ n >= i - 1
    OBVIOUS
  <2>1. /\ s - 1 <= n /\ \A j \in 1 .. s - 1 : y[j] = x[j]
        /\ i - s <= n
        /\ \A j \in 1 .. i - s : y[(n - (i - s)) + j] = x[s + j]
    <3>1. s \in 1 .. Len(x)
      OBVIOUS
    <3>2. /\ s - 1 <= Len(y) /\ \A j \in 1 .. s - 1 : y[j] = x[j]
          /\ Len(x) - s <= Len(y)
          /\ \A j \in 1 .. Len(x) - s : y[(Len(y) - (Len(x) - s)) + j] = x[s + j]
      BY <1>2, <3>1, OneStarGlob, ZenonT(40)
    <3> QED
      BY <3>2, Zenon
  <2>2. x[s] = "*" /\ \A j \in 1 .. i : j # s => x[j] # "*"
    BY <1>2 DEF Stars
  <2>3. \A j \in 1 .. n : y[j] # "."
    OBVIOUS
  <2> HIDE DEF i, n
  <2>4. end \in [0 .. i -> Nat] /\ end[0] = 0 /\ end[i] = n
    BY <2>0
  <2>5. ASSUME NEW j \in 1 .. i PROVE StandsFor(x, y, end, j)
    <3>0. j \in 0 .. i /\ j - 1 \in 0 .. i
      BY <2>0
    <3>1. CASE j < s
      <4>1. end[j] = j /\ end[j - 1] = j - 1 /\ j \in 1 .. s - 1 /\ j # s
        BY <2>0, <3>0, <3>1
      <4> HIDE DEF end
      <4> QED
        BY <2>1, <2>2, <4>1 DEF StandsFor
    <3>2. CASE j = s
      <4>1. end[j] = (n - i) + s /\ end[j - 1] = s - 1
        BY <2>0, <3>0, <3>2
      <4> HIDE DEF end
      <4>2. end[j - 1] <= end[j] /\ \A k \in end[j - 1] + 1 .. end[j] : k \in 1 .. n
        BY <2>0, <4>1
      <4> QED
        BY <2>2, <2>3, <3>2, <4>2 DEF StandsFor, NoDot
    <3>3. CASE j > s
      <4> DEFINE u == j - s
      <4>1. end[j] = (n - i) + j /\ end[j - 1] = (n - i) + (j - 1) /\ j # s
        BY <2>0, <3>0, <3>3
      <4>2. u \in 1 .. i - s /\ s + u = j /\ (n - (i - s)) + u = (n - i) + j
        BY <2>0, <3>3
      <4> HIDE DEF end, u
      <4>3. y[end[j]] = x[j]
        BY <2>1, <4>1, <4>2
      <4>4. end[j] = end[j - 1] + 1
        BY <2>0, <4>1
      <4> QED
        BY <2>2, <4>1, <4>3, <4>4 DEF StandsFor
    <3> QED
      BY <2>0, <3>1, <3>2, <3>3
  <2> HIDE DEF end
  <2>6. Alignment(x, i, y, n, end)
    BY <2>4, <2>5 DEF Alignment
  <2> QED
    BY <2>6, MatchesAligned DEF Aligned, i, n
<1> QED
  BY <1>1, <1>2

\* A star at an end of the label leaves one part that is not empty: none overlap.
EdgeLabel(x) == Stars(x) \subseteq {1} \/ Stars(x) \subseteq {Len(x)}

LEMMA EdgeLabelLong ==
  ASSUME NEW C, NEW x \in Seq(C), NEW y \in Seq(C), LabelGlob(x, y), EdgeLabel(x)
  PROVE  /\ NoStar(x) \/ \E s \in DOMAIN x : Stars(x) = {s}
         /\ Len(y) >= Len(x) - 1
<1>0. Len(x) \in Nat /\ Len(y) \in Nat /\ DOMAIN x = 1 .. Len(x)
  OBVIOUS
<1>1. CASE NoStar(x)
  <2>1. x = y
    BY <1>1, NoStarGlob
  <2> QED
    BY <1>0, <1>1, <2>1
<1>2. CASE ~NoStar(x)
  <2>1. PICK s \in 1 .. Len(x) : Stars(x) = {s} /\ (s = 1 \/ s = Len(x))
    BY <1>0, <1>2 DEF EdgeLabel, NoStar, Stars
  <2>2. s - 1 <= Len(y) /\ Len(x) - s <= Len(y)
    BY <2>1, OneStarGlob
  <2> QED
    BY <1>0, <2>1, <2>2
<1> QED
  BY <1>1, <1>2

\* The labels of a name.
LEMMA LabelsOf ==
  ASSUME NEW C, NEW s \in Seq(C)
  PROVE  /\ Split(s, ".") \in Seq(Seq(C)) /\ DOMAIN Split(s, ".") = 1 .. Len(Split(s, "."))
         /\ \A k \in 1 .. Len(Split(s, ".")) :
               /\ Split(s, ".")[k] \in Seq(C)
               /\ \A j \in 1 .. Len(Split(s, ".")[k]) : Split(s, ".")[k][j] # "."
<1> DEFINE v == Split(s, ".")
<1>1. v \in Parts(C) /\ FreeOf(v, ".")
  BY SplitPlaced
<1> HIDE DEF v
<1>2. v \in Seq(Seq(C))
  BY <1>1, LastPart
<1>3. DOMAIN v = 1 .. Len(v) /\ \A k \in 1 .. Len(v) : v[k] \in Seq(C)
  BY <1>2
<1> QED
  BY <1>1, <1>2, <1>3 DEF v, FreeOf

THEOREM MatcherCorrect ==
  ASSUME NEW C
  PROVE  MatchesAccepted(Seq(C), Seq(C)) /\ PlainExact(Seq(C), Seq(C))
<1>1. ASSUME NEW p \in Seq(C), NEW h \in Seq(C), Matches(p, h) PROVE WildcardHostMatch(p, h)
  <2> DEFINE v == Split(p, ".")
             w == Split(h, ".")
  <2>1. LabelsMatch(v, w)
    BY <1>1, MatchesByLabel
  <2>2. DOMAIN v = 1 .. Len(v) /\ \A k \in 1 .. Len(v) : v[k] \in Seq(C)
    BY LabelsOf
  <2>3. \A k \in 1 .. Len(w) : w[k] \in Seq(C)
    BY LabelsOf
  <2> HIDE DEF v, w
  <2>4. Len(v) = Len(w) /\ \A k \in DOMAIN v : LabelGlob(v[k], w[k])
    BY <2>1, <2>2, <2>3, GlobComplete DEF LabelsMatch
  <2> QED
    BY <2>4 DEF WildcardHostMatch, v, w
<1>2. ASSUME NEW p \in Seq(C), NEW h \in Seq(C), Plain(p, h), WildcardHostMatch(p, h)
      PROVE  Matches(p, h)
  <2> DEFINE v == Split(p, ".")
             w == Split(h, ".")
  <2>1. DOMAIN v = 1 .. Len(v) /\ \A k \in 1 .. Len(v) : v[k] \in Seq(C)
    BY LabelsOf
  <2>2. DOMAIN w = 1 .. Len(w)
        /\ \A k \in 1 .. Len(w) : w[k] \in Seq(C) /\ \A j \in 1 .. Len(w[k]) : w[k][j] # "."
    BY LabelsOf
  <2>3. Len(v) = Len(w) /\ \A k \in DOMAIN v : LabelGlob(v[k], w[k])
    BY <1>2 DEF WildcardHostMatch
  <2>4. \A k \in DOMAIN v : /\ Stars(v[k]) = {} \/ \E s \in DOMAIN v[k] : Stars(v[k]) = {s}
                            /\ k \in DOMAIN w => Len(w[k]) >= Len(v[k]) - 1
    BY <1>2 DEF Plain
  <2> HIDE DEF v, w
  <2>5. ASSUME NEW k \in 1 .. Len(v) PROVE Matches(v[k], w[k])
    <3>1. v[k] \in Seq(C) /\ w[k] \in Seq(C) /\ \A j \in 1 .. Len(w[k]) : w[k][j] # "."
      BY <2>1, <2>2, <2>3
    <3>2. NoStar(v[k]) \/ \E s \in DOMAIN v[k] : Stars(v[k]) = {s}
      BY <2>1, <2>4 DEF NoStar
    <3>3. LabelGlob(v[k], w[k]) /\ Len(w[k]) >= Len(v[k]) - 1
      BY <2>1, <2>2, <2>3, <2>4
    <3> QED
      BY <3>1, <3>2, <3>3, GlobExact
  <2>6. LabelsMatch(v, w)
    BY <2>3, <2>5 DEF LabelsMatch
  <2> QED
    BY <2>6, MatchesByLabel DEF v, w
<1> QED
  BY <1>1, <1>2 DEF MatchesAccepted, PlainExact

EdgePattern(p) == \A k \in DOMAIN Split(p, ".") : EdgeLabel(Split(p, ".")[k])

LEMMA EdgePatternPlain ==
  ASSUME NEW C, NEW p \in Seq(C), NEW h \in Seq(C), EdgePattern(p), WildcardHostMatch(p, h)
  PROVE  Plain(p, h)
<1> DEFINE v == Split(p, ".")
           w == Split(h, ".")
<1>1. DOMAIN v = 1 .. Len(v) /\ \A k \in 1 .. Len(v) : v[k] \in Seq(C)
  BY LabelsOf
<1>2. DOMAIN w = 1 .. Len(w) /\ \A k \in 1 .. Len(w) : w[k] \in Seq(C)
  BY LabelsOf
<1>3. Len(v) = Len(w) /\ \A k \in DOMAIN v : LabelGlob(v[k], w[k])
  BY DEF WildcardHostMatch
<1>4. \A k \in DOMAIN v : EdgeLabel(v[k])
  BY DEF EdgePattern
<1> HIDE DEF v, w
<1>5. ASSUME NEW k \in DOMAIN v
      PROVE  /\ Stars(v[k]) = {} \/ \E s \in DOMAIN v[k] : Stars(v[k]) = {s}
             /\ k \in DOMAIN w => Len(w[k]) >= Len(v[k]) - 1
  <2>1. v[k] \in Seq(C) /\ w[k] \in Seq(C) /\ LabelGlob(v[k], w[k]) /\ EdgeLabel(v[k])
    BY <1>1, <1>2, <1>3, <1>4
  <2>2. /\ NoStar(v[k]) \/ \E s \in DOMAIN v[k] : Stars(v[k]) = {s}
        /\ Len(w[k]) >= Len(v[k]) - 1
    BY <2>1, EdgeLabelLong
  <2> QED
    BY <2>2 DEF NoStar
<1> QED
  BY <1>5 DEF Plain, v, w

LEMMA SeqOfSeq ==
  ASSUME NEW S, NEW n \in Nat
  PROVE  SeqOf(S, n) \subseteq Seq(S)
BY DEF SeqOf

-----------------------------------------------------------------------------
(* The inductive invariant.                                                *)

\* On the entries and destinations at hand the matcher accepts nothing it is
\* not meant to.  That is so unless the parts around a star overlap (PlainExact
\* of module Wildcard).
MatcherExact ==
    \A e \in Entry, d \in Dest :
        /\ e.port = d.port
        /\ e = d \/ (Contains(e.host, "*") /\ WildcardHostMatch(e.host, d.host))
        => Matches(e.host, d.host)

\* ServeHTTP goes on only with a request that was allowed, connects only then,
\* and copies nothing before the address was verified.
ServeAt(r) ==
    /\ request[r].pc = "log" /\ request[r].allowed => (MatcherExact => meant[r])
    /\ request[r].pc \in {"dial", "verify", "hijack", "tunnel"}
          => (MatcherExact => meant[r]) /\ log[r] \in {"allowed", "lost"}
    /\ conn[r]["dest"].open => request[r].pc \in {"verify", "hijack", "tunnel"}
    /\ request[r].pc \in {"new", "log", "dial", "hijack", "tunnel"} => ~request[r].internal
    /\ request[r].pc # "tunnel" => \A s \in Side : copy[r][s].pc = "none" /\ peer[r][s].got = <<>>

\* The goroutine reading from s has reached the end of the stream.
Drained(r, s) == peer[r][s].state # "open" /\ copy[r][s].read = peer[r][s].sent

\* The other side has what the goroutine reading from s has read, but for the
\* chunk it is about to write.
CopiedSoFar(r, s) ==
    LET got == peer[r][Other(s)].got
        c == copy[r][s]
    IN /\ c.pc = "write" => got = OneTo(c.read - 1)
       /\ c.pc = "read" \/ (c.pc \in {"close", "ended"} /\ r \notin failed) => got = OneTo(c.read)

\* A goroutine stops because its stream has ended, or because the other one,
\* whose stream had ended, closed the connection.
StoppedRightly(r, s) ==
    \/ Drained(r, s)
    \/ copy[r][Other(s)].pc = "ended" /\ Drained(r, Other(s))

TunnelAt(r, s) ==
    /\ copy[r][s].pc # "none"
    /\ copy[r][s].pc = "write" => copy[r][s].read > 0
    /\ ~conn[r][s].open <=> copy[r][Other(s)].pc = "ended"
    /\ (s = "client" => request[r].early = 0) => CopiedSoFar(r, s)
    /\ copy[r][s].pc \in {"close", "ended"} /\ r \notin late /\ r \notin failed
          => StoppedRightly(r, s)

RequestInv(r) ==
    /\ ServeAt(r)
    /\ request[r].pc = "tunnel" => \A s \in Side : TunnelAt(r, s)

ProxyIInv == TypeOK /\ \A r \in Req : RequestInv(r)

-----------------------------------------------------------------------------
(* Lemmas.                                                                 *)

LEMMA OneToZero == OneTo(0) = <<>>
BY DEF OneTo

LEMMA OneToAppend ==
  ASSUME NEW n \in Nat \ {0}
  PROVE  Append(OneTo(n - 1), n) = OneTo(n)
<1> DEFINE f == OneTo(n - 1)
           g == Append(f, n)
<1>1. f \in Seq(Nat) /\ Len(f) = n - 1 /\ \A k \in 1 .. n - 1 : f[k] = k
  BY DEF OneTo
<1> HIDE DEF f
<1>2. g \in Seq(Nat) /\ Len(g) = n /\ \A k \in 1 .. n : g[k] = k
  BY <1>1
<1> HIDE DEF g
<1>3. OneTo(n) \in Seq(Nat) /\ Len(OneTo(n)) = n /\ \A k \in 1 .. n : OneTo(n)[k] = k
  BY DEF OneTo
<1>4. g = OneTo(n)
  BY <1>2, <1>3
<1> QED
  BY <1>4 DEF f, g

LEMMA OtherSide ==
  ASSUME NEW s \in Side
  PROVE  Other(s) \in Side /\ Other(s) # s /\ Other(Other(s)) = s
         /\ \A t \in Side : t = s \/ t = Other(s)
BY DEF Other, Side

\* Updating one side of one request.
LEMMA UpdateSide ==
  ASSUME NEW S, NEW f \in [Req -> [Side -> S]], NEW r \in Req, NEW s \in Side, NEW v \in S
  PROVE  LET g == [f EXCEPT ![r][s] = v] IN
         /\ g \in [Req -> [Side -> S]]
         /\ g[r][s] = v
         /\ \A t \in Side : t # s => g[r][t] = f[r][t]
         /\ \A q \in Req : q # r => g[q] = f[q]
OBVIOUS

LEMMA SetOpen ==
  ASSUME conn \in [Req -> [Side -> Conn]], NEW r \in Req, NEW s \in Side, NEW b \in BOOLEAN,
         conn' = [conn EXCEPT ![r][s].open = b]
  PROVE  /\ conn' \in [Req -> [Side -> Conn]]
         /\ conn'[r][s].open = b
         /\ \A t \in Side : t # s => conn'[r][t] = conn[r][t]
         /\ \A q \in Req : q # r => conn'[q] = conn[q]
<1> DEFINE v == [conn[r][s] EXCEPT !.open = b]
<1>1. v \in Conn /\ v.open = b
  BY DEF Conn
<1>2. conn' = [conn EXCEPT ![r][s] = v]
  OBVIOUS
<1> QED
  BY <1>1, <1>2, UpdateSide

LEMMA SetCopyPc ==
  ASSUME copy \in [Req -> [Side -> Copy]], NEW r \in Req, NEW s \in Side,
         NEW p \in {"none", "read", "write", "close", "ended"},
         copy' = [copy EXCEPT ![r][s].pc = p]
  PROVE  /\ copy' \in [Req -> [Side -> Copy]]
         /\ copy'[r][s].pc = p /\ copy'[r][s].read = copy[r][s].read
         /\ \A t \in Side : t # s => copy'[r][t] = copy[r][t]
         /\ \A q \in Req : q # r => copy'[q] = copy[q]
<1> DEFINE v == [copy[r][s] EXCEPT !.pc = p]
<1>1. v \in Copy /\ v.pc = p /\ v.read = copy[r][s].read
  BY SMTT(30) DEF Copy
<1>2. copy' = [copy EXCEPT ![r][s] = v]
  OBVIOUS
<1> QED
  BY <1>1, <1>2, UpdateSide

\* What a request's invariant depends on.
LEMMA RequestFrame ==
  ASSUME NEW q \in Req, RequestInv(q),
         request'[q] = request[q], conn'[q] = conn[q], copy'[q] = copy[q], peer'[q] = peer[q],
         log'[q] = log[q], meant'[q] = meant[q],
         q \in late => q \in late', q \in failed' <=> q \in failed
  PROVE  RequestInv(q)'
<1>1. ServeAt(q)'
  BY DEF RequestInv, ServeAt
<1>2. ASSUME NEW s \in Side, TunnelAt(q, s) PROVE TunnelAt(q, s)'
  BY <1>2 DEF TunnelAt, CopiedSoFar, StoppedRightly, Drained
<1> QED
  BY <1>1, <1>2 DEF RequestInv

-----------------------------------------------------------------------------
(* ServeHTTP up to the tunnel.                                             *)

LEMMA ProxyInitial == Init => ProxyIInv
<1> SUFFICES ASSUME Init PROVE ProxyIInv
  OBVIOUS
<1> USE ProxyAssumption DEF Init
<1>1. TypeOK
  <2>1. <<>> \in Seq(1 .. MaxData)
    OBVIOUS
  <2>2. peer \in [Req -> [Side -> Peer]]
    BY <2>1 DEF Peer
  <2>3. request \in [Req -> Request]
    OBVIOUS
  <2>4. conn \in [Req -> [Side -> Conn]] /\ copy \in [Req -> [Side -> Copy]]
    BY DEF Conn, Copy
  <2> QED
    BY <2>2, <2>3, <2>4 DEF TypeOK
<1>2. ASSUME NEW r \in Req PROVE RequestInv(r)
  <2>1. request[r].pc = "new" /\ ~request[r].internal
    OBVIOUS
  <2>2. \A s \in Side : copy[r][s].pc = "none" /\ peer[r][s].got = <<>> /\ ~conn[r][s].open
    OBVIOUS
  <2> QED
    BY <2>1, <2>2 DEF RequestInv, ServeAt, Side
<1> QED
  BY <1>1, <1>2 DEF ProxyIInv

\* What the matcher accepts was meant.
LEMMA AllowedIsMeant ==
  ASSUME MatcherExact, NEW d \in Dest, allowlist \in SUBSET Entry, IsAllowed(d)
  PROVE  Meant(d)
<1>1. CASE d \in allowlist
  BY <1>1 DEF MatcherExact, Meant
<1>2. ASSUME NEW e \in allowlist, Contains(e.host, "*"), e.port = d.port,
             WildcardHostMatch(e.host, d.host)
      PROVE  Meant(d)
  BY <1>2 DEF MatcherExact, Meant
<1> QED
  BY <1>1, <1>2 DEF IsAllowed

\* A step of one request: the others keep their invariant.
LEMMA OneRequest ==
  ASSUME ProxyIInv, NEW r \in Req, TypeOK', RequestInv(r)',
         \A q \in Req : q # r =>
            /\ request'[q] = request[q] /\ conn'[q] = conn[q] /\ copy'[q] = copy[q]
            /\ peer'[q] = peer[q] /\ log'[q] = log[q] /\ meant'[q] = meant[q]
            /\ (q \in late => q \in late') /\ (q \in failed' <=> q \in failed)
  PROVE  ProxyIInv'
<1>1. ASSUME NEW q \in Req, q # r PROVE RequestInv(q)'
  BY <1>1, RequestFrame DEF ProxyIInv
<1> QED
  BY <1>1 DEF ProxyIInv

LEMMA PublishStep ==
  ASSUME ProxyIInv, NEW entries \in SUBSET Entry, Publish(entries)
  PROVE  ProxyIInv'
<1>1. TypeOK'
  BY DEF Publish, ProxyIInv, TypeOK
<1>2. ASSUME NEW q \in Req PROVE RequestInv(q)'
  BY RequestFrame DEF Publish, ProxyIInv
<1> QED
  BY <1>1, <1>2 DEF ProxyIInv

\* Before the tunnel: what the invariant says of the request afterwards.
LEMMA EarlyStep ==
  ASSUME ProxyIInv, NEW r \in Req, request[r].pc # "tunnel",
         request' \in [Req -> Request], conn' \in [Req -> [Side -> Conn]],
         log' \in [Req -> {"none", "allowed", "blocked", "lost"}], meant' \in [Req -> BOOLEAN],
         \A q \in Req : q # r =>
            request'[q] = request[q] /\ conn'[q] = conn[q] /\ log'[q] = log[q] /\ meant'[q] = meant[q],
         request'[r].pc # "tunnel",
         request'[r].pc = "log" /\ request'[r].allowed => (MatcherExact => meant'[r]),
         request'[r].pc \in {"dial", "verify", "hijack"}
            => (MatcherExact => meant'[r]) /\ log'[r] \in {"allowed", "lost"},
         conn'[r]["dest"].open => request'[r].pc \in {"verify", "hijack"},
         request'[r].pc \in {"log", "dial", "hijack"} => ~request'[r].internal,
         request'[r].pc # "new",
         UNCHANGED <<allowlist, copy, peer, late, failed>>
  PROVE  ProxyIInv'
<1>1. TypeOK'
  BY DEF ProxyIInv, TypeOK
<1>2. \A s \in Side : copy'[r][s].pc = "none" /\ peer'[r][s].got = <<>>
  BY DEF ProxyIInv, RequestInv, ServeAt
<1>3. RequestInv(r)'
  BY <1>2 DEF RequestInv, ServeAt
<1> QED
  BY <1>1, <1>3, OneRequest

LEMMA ServeStepKeeps ==
  ASSUME ProxyIInv, NEW r \in Req, ServeStep(r), ~(request'[r].pc = "tunnel")
  PROVE  ProxyIInv'
<1>t. /\ request \in [Req -> Request] /\ conn \in [Req -> [Side -> Conn]]
      /\ log \in [Req -> {"none", "allowed", "blocked", "lost"}] /\ meant \in [Req -> BOOLEAN]
      /\ allowlist \in SUBSET Entry /\ "dest" \in Side /\ request[r] \in Request
  BY DEF ProxyIInv, TypeOK, Side
<1>i. ServeAt(r)
  BY DEF ProxyIInv, RequestInv
<1>1. CASE Reject(r)
  <2>1. /\ request' \in [Req -> Request]
        /\ request'[r].pc = "refused"
        /\ \A q \in Req : q # r => request'[q] = request[q]
    BY <1>t, <1>1 DEF Reject, Goto, Request, RequestPc
  <2>2. request[r].pc = "new" /\ ~conn[r]["dest"].open
    BY <1>i, <1>1 DEF Reject, ServeAt
  <2> QED
    BY <1>t, <1>1, <2>1, <2>2, EarlyStep DEF Reject
<1>2. CASE Check(r)
  <2> DEFINE a == IsAllowed(request[r].dest)
             m == Meant(request[r].dest)
  <2>1. a \in BOOLEAN /\ m \in BOOLEAN /\ (a => (MatcherExact => m))
    <3>1. request[r].dest \in Dest
      BY <1>t DEF Request
    <3>2. a => (MatcherExact => m)
      BY <1>t, <3>1, AllowedIsMeant
    <3> QED
      BY <3>2 DEF IsAllowed, Meant
  <2>2. /\ request' = [request EXCEPT ![r].pc = "log", ![r].allowed = a]
        /\ meant' = [meant EXCEPT ![r] = m]
        /\ UNCHANGED <<allowlist, log, conn, copy, late, peer, failed>>
        /\ request[r].pc = "new"
    BY <1>2 DEF Check
  <2> HIDE DEF a, m
  <2>3. /\ request' \in [Req -> Request]
        /\ request'[r].pc = "log" /\ request'[r].allowed = a
        /\ request'[r].internal = request[r].internal
        /\ \A q \in Req : q # r => request'[q] = request[q]
    BY <1>t, <2>1, <2>2 DEF Request, RequestPc
  <2>4. /\ meant' \in [Req -> BOOLEAN] /\ meant'[r] = m
        /\ \A q \in Req : q # r => meant'[q] = meant[q]
    BY <1>t, <2>1, <2>2
  <2>5. ~conn[r]["dest"].open /\ ~request[r].internal
    BY <1>i, <2>2 DEF ServeAt
  <2> QED
    BY <1>t, <2>1, <2>2, <2>3, <2>4, <2>5, EarlyStep
<1>3. CASE LogEntry(r)
  <2>1. PICK entry \in {IF request[r].allowed THEN "allowed" ELSE "blocked", "lost"} :
            log' = [log EXCEPT ![r] = entry]
    BY <1>3 DEF LogEntry
  <2>2. /\ request' \in [Req -> Request]
        /\ request'[r].pc = IF request[r].allowed THEN "dial" ELSE "refused"
        /\ request'[r].internal = request[r].internal
        /\ \A q \in Req : q # r => request'[q] = request[q]
    BY <1>t, <1>3 DEF LogEntry, Goto, Request, RequestPc
  <2>3. /\ log' \in [Req -> {"none", "allowed", "blocked", "lost"}] /\ log'[r] = entry
        /\ \A q \in Req : q # r => log'[q] = log[q]
    BY <1>t, <2>1
  <2>4. /\ request[r].pc = "log" /\ ~conn[r]["dest"].open /\ ~request[r].internal
        /\ request[r].allowed => (MatcherExact => meant[r]) /\ entry \in {"allowed", "lost"}
    BY <1>i, <1>3, <2>1 DEF ServeAt, LogEntry
  <2> QED
    BY <1>t, <1>3, <2>2, <2>3, <2>4, EarlyStep DEF LogEntry
<1>4. CASE Dial(r)
  <2>1. /\ request[r].pc = "dial" /\ ~conn[r]["dest"].open /\ ~request[r].internal
        /\ (MatcherExact => meant[r]) /\ log[r] \in {"allowed", "lost"}
        /\ UNCHANGED <<allowlist, log, copy, peer, late, meant, failed>>
    BY <1>i, <1>4 DEF ServeAt, Dial
  <2>2. ASSUME NEW internal \in BOOLEAN,
               request' = [request EXCEPT ![r].pc = "verify", ![r].internal = internal],
               conn' = [conn EXCEPT ![r]["dest"].open = TRUE]
        PROVE  ProxyIInv'
    <3>1. /\ request' \in [Req -> Request] /\ request'[r].pc = "verify"
          /\ \A q \in Req : q # r => request'[q] = request[q]
      BY <1>t, <2>2 DEF Request, RequestPc
    <3>2. /\ conn' \in [Req -> [Side -> Conn]]
          /\ \A q \in Req : q # r => conn'[q] = conn[q]
      BY <1>t, <2>2, SetOpen
    <3> QED
      BY <1>t, <2>1, <3>1, <3>2, EarlyStep
  <2>3. CASE Goto(r, "refused") /\ UNCHANGED conn
    <3>1. /\ request' \in [Req -> Request] /\ request'[r].pc = "refused"
          /\ \A q \in Req : q # r => request'[q] = request[q]
      BY <1>t, <2>3 DEF Goto, Request, RequestPc
    <3> QED
      BY <1>t, <2>1, <2>3, <3>1, EarlyStep
  <2> QED
    BY <1>4, <2>2, <2>3 DEF Dial
<1>5. CASE VerifyAddress(r)
  <2>1. /\ request[r].pc = "verify" /\ (MatcherExact => meant[r]) /\ log[r] \in {"allowed", "lost"}
        /\ UNCHANGED <<allowlist, log, copy, peer, late, meant, failed>>
    BY <1>i, <1>5 DEF ServeAt, VerifyAddress
  <2>2. /\ request' \in [Req -> Request]
        /\ request'[r].pc = IF request[r].internal THEN "refused" ELSE "hijack"
        /\ request'[r].internal = request[r].internal
        /\ \A q \in Req : q # r => request'[q] = request[q]
    BY <1>t, <1>5 DEF VerifyAddress, Goto, Request, RequestPc
  <2>3. /\ conn' \in [Req -> [Side -> Conn]] /\ conn'[r]["dest"].open = ~request[r].internal
        /\ \A q \in Req : q # r => conn'[q] = conn[q]
    <3> DEFINE b == ~request[r].internal
    <3>1. b \in BOOLEAN /\ conn' = [conn EXCEPT ![r]["dest"].open = b]
      BY <1>5 DEF VerifyAddress
    <3> HIDE DEF b
    <3>2. conn' \in [Req -> [Side -> Conn]] /\ conn'[r]["dest"].open = b
          /\ \A q \in Req : q # r => conn'[q] = conn[q]
      BY <1>t, <3>1, SetOpen
    <3> QED
      BY <3>2 DEF b
  <2> QED
    BY <1>t, <2>1, <2>2, <2>3, EarlyStep
<1>6. CASE Hijack(r)
  <2>1. request[r].pc = "hijack" /\ request[r].pc # "tunnel"
    BY <1>6 DEF Hijack
  <2>2. Goto(r, "refused") /\ conn' = [conn EXCEPT ![r]["dest"].open = FALSE] /\ UNCHANGED copy
    <3>1. request' = [request EXCEPT ![r].pc = "tunnel", ![r].early = peer[r]["client"].sent]
             => request'[r].pc = "tunnel"
      BY <1>t DEF Request
    <3> QED
      BY <1>6, <3>1 DEF Hijack
  <2>3. /\ request' \in [Req -> Request] /\ request'[r].pc = "refused"
        /\ \A q \in Req : q # r => request'[q] = request[q]
    BY <1>t, <2>2 DEF Goto, Request, RequestPc
  <2>4. /\ conn' \in [Req -> [Side -> Conn]] /\ ~conn'[r]["dest"].open
        /\ \A q \in Req : q # r => conn'[q] = conn[q]
    BY <1>t, <2>2, SetOpen
  <2> QED
    BY <1>t, <1>6, <2>1, <2>2, <2>3, <2>4, EarlyStep DEF Hijack
<1> QED
  BY <1>1, <1>2, <1>3, <1>4, <1>5, <1>6 DEF ServeStep

-----------------------------------------------------------------------------
(* The tunnel.                                                             *)

LEMMA HijackStep ==
  ASSUME ProxyIInv, NEW r \in Req, Hijack(r), request'[r].pc = "tunnel"
  PROVE  ProxyIInv'
<1>t. /\ request \in [Req -> Request] /\ conn \in [Req -> [Side -> Conn]]
      /\ copy \in [Req -> [Side -> Copy]] /\ peer \in [Req -> [Side -> Peer]]
      /\ "client" \in Side /\ "dest" \in Side
  BY DEF ProxyIInv, TypeOK, Side
<1>i. ServeAt(r) /\ request[r].pc = "hijack"
  BY DEF ProxyIInv, RequestInv, Hijack
<1> DEFINE sent == peer[r]["client"].sent
<1>1. PICK lost \in 0 .. sent :
        /\ copy' = [copy EXCEPT ![r] =
                      [s \in Side |-> [pc |-> "read", read |-> IF s = "client" THEN lost ELSE 0]]]
        /\ request' = [request EXCEPT ![r].pc = "tunnel", ![r].early = sent]
        /\ conn' = [conn EXCEPT ![r] = [s \in Side |-> [open |-> TRUE, deadline |-> TRUE]]]
  <2>1. Goto(r, "refused") => request'[r].pc = "refused"
    BY <1>t DEF Goto, Request
  <2> QED
    BY <2>1 DEF Hijack
<1>2. sent \in 0 .. MaxData /\ lost \in 0 .. MaxData /\ (sent = 0 => lost = 0)
  <2>1. peer[r]["client"] \in Peer
    BY <1>t
  <2> QED
    BY <2>1, ProxyAssumption DEF Peer
<1> HIDE DEF sent
<1>3. /\ request' \in [Req -> Request]
      /\ request'[r].early = sent /\ request'[r].internal = request[r].internal
      /\ \A q \in Req : q # r => request'[q] = request[q]
  BY ZenonT(40), <1>t, <1>1, <1>2 DEF Request, RequestPc
<1>4. /\ conn' \in [Req -> [Side -> Conn]]
      /\ \A s \in Side : conn'[r][s].open
      /\ \A q \in Req : q # r => conn'[q] = conn[q]
  BY <1>t, <1>1 DEF Conn
<1>5. /\ copy' \in [Req -> [Side -> Copy]]
      /\ \A s \in Side : copy'[r][s].pc = "read" /\ copy'[r][s].read = IF s = "client" THEN lost ELSE 0
      /\ \A q \in Req : q # r => copy'[q] = copy[q]
  BY <1>t, <1>1, <1>2, ProxyAssumption DEF Copy
<1>6. UNCHANGED <<allowlist, log, peer, late, meant, failed>>
  BY DEF Hijack
<1>7. TypeOK'
  BY <1>3, <1>4, <1>5, <1>6 DEF ProxyIInv, TypeOK
<1>8. ServeAt(r)'
  BY <1>i, <1>3, <1>6 DEF ServeAt
<1>9. ASSUME NEW s \in Side PROVE TunnelAt(r, s)'
  <2>1. Other(s) \in Side
    BY OtherSide
  <2>2. peer'[r][Other(s)].got = <<>>
    BY <1>i, <1>6, <2>1 DEF ServeAt
  <2>3. (s = "client" => request'[r].early = 0) => copy'[r][s].read = 0
    BY <1>2, <1>3, <1>5
  <2>4. (s = "client" => request'[r].early = 0) => CopiedSoFar(r, s)'
    BY <1>5, <2>2, <2>3, OneToZero DEF CopiedSoFar
  <2> QED
    BY <1>4, <1>5, <2>1, <2>4 DEF TunnelAt
<1>10. RequestInv(r)'
  BY <1>8, <1>9 DEF RequestInv
<1> QED
  BY <1>3, <1>4, <1>5, <1>6, <1>7, <1>10, OneRequest

\* A goroutine that copies belongs to a tunnel.
LEMMA InTunnel ==
  ASSUME ProxyIInv, NEW r \in Req, NEW s \in Side, copy[r][s].pc # "none"
  PROVE  request[r].pc = "tunnel" /\ ServeAt(r) /\ \A t \in Side : TunnelAt(r, t)
BY DEF ProxyIInv, RequestInv, ServeAt

LEMMA CopyReadStep ==
  ASSUME ProxyIInv, NEW r \in Req, NEW s \in Side, CopyRead(r, s)
  PROVE  ProxyIInv'
<1> DEFINE o == Other(s)
<1>t. /\ copy \in [Req -> [Side -> Copy]] /\ peer \in [Req -> [Side -> Peer]]
      /\ copy[r][s] \in Copy /\ peer[r][s] \in Peer
  BY DEF ProxyIInv, TypeOK
<1>o. o \in Side /\ o # s /\ Other(o) = s /\ \A t \in Side : t = s \/ t = o
  BY OtherSide
<1>u. copy[r][s].pc = "read" /\ UNCHANGED <<allowlist, log, request, conn, peer, late, meant, failed>>
  BY DEF CopyRead
<1>i. request[r].pc = "tunnel" /\ ServeAt(r) /\ TunnelAt(r, s) /\ TunnelAt(r, o)
  BY <1>u, <1>o, InTunnel
<1> HIDE DEF o
<1>n. copy[r][s].read \in 0 .. MaxData /\ peer[r][s].sent \in 0 .. MaxData
  BY <1>t DEF Copy, Peer
<1>1. CASE /\ Usable(r, s) /\ copy[r][s].read < peer[r][s].sent
           /\ copy' = [copy EXCEPT ![r][s] = [pc |-> "write", read |-> @.read + 1]]
  <2> DEFINE v == [pc |-> "write", read |-> copy[r][s].read + 1]
  <2>1. v \in Copy /\ v.pc = "write" /\ v.read = copy[r][s].read + 1
    BY <1>n, <1>1, ProxyAssumption DEF Copy
  <2>2. copy' = [copy EXCEPT ![r][s] = v]
    BY <1>1
  <2> HIDE DEF v
  <2>3. /\ copy' \in [Req -> [Side -> Copy]] /\ copy'[r][s] = v /\ copy'[r][o] = copy[r][o]
        /\ \A q \in Req : q # r => copy'[q] = copy[q]
    BY <1>t, <1>o, <2>1, <2>2, UpdateSide
  <2>4. TypeOK'
    BY <1>u, <2>3 DEF ProxyIInv, TypeOK
  <2>5. ServeAt(r)'
    BY <1>i, <1>u DEF ServeAt
  <2>6. TunnelAt(r, s)'
    <3>1. (s = "client" => request[r].early = 0) => CopiedSoFar(r, s)'
      <4>1. v.read - 1 = copy[r][s].read
        BY <1>n, <2>1
      <4> QED
        BY <1>i, <1>u, <2>1, <2>3, <4>1 DEF TunnelAt, CopiedSoFar
    <3>2. v.read > 0
      BY <1>n, <2>1
    <3> QED
      BY <1>i, <1>o, <1>u, <2>1, <2>3, <3>1, <3>2 DEF TunnelAt, o
  <2>7. TunnelAt(r, o)'
    <3>1. (o = "client" => request[r].early = 0) => CopiedSoFar(r, o)'
      BY <1>i, <1>u, <2>3 DEF TunnelAt, CopiedSoFar
    <3>2. StoppedRightly(r, o) => StoppedRightly(r, o)'
      BY <1>o, <1>u, <2>1, <2>3 DEF StoppedRightly, Drained
    <3> QED
      BY <1>i, <1>o, <1>u, <2>1, <2>3, <3>1, <3>2 DEF TunnelAt
  <2>8. RequestInv(r)'
    BY <1>o, <2>5, <2>6, <2>7 DEF RequestInv
  <2> QED
    BY <1>u, <2>3, <2>4, <2>8, OneRequest
<1>2. CASE /\ \/ ~Usable(r, s)
              \/ peer[r][s].state # "open" /\ copy[r][s].read = peer[r][s].sent
           /\ copy' = [copy EXCEPT ![r][s].pc = "close"]
  <2>3. /\ copy' \in [Req -> [Side -> Copy]]
        /\ copy'[r][s].pc = "close" /\ copy'[r][s].read = copy[r][s].read /\ copy'[r][o] = copy[r][o]
        /\ \A q \in Req : q # r => copy'[q] = copy[q]
    <3>1. "close" \in {"none", "read", "write", "close", "ended"}
      OBVIOUS
    <3>2. copy' = [copy EXCEPT ![r][s].pc = "close"]
      BY <1>2
    <3>3. /\ copy' \in [Req -> [Side -> Copy]]
          /\ copy'[r][s].pc = "close" /\ copy'[r][s].read = copy[r][s].read
          /\ \A t \in Side : t # s => copy'[r][t] = copy[r][t]
          /\ \A q \in Req : q # r => copy'[q] = copy[q]
      BY <1>t, <3>1, <3>2, SetCopyPc
    <3> QED
      BY <1>o, <3>3
  <2>4. TypeOK'
    BY <1>u, <2>3 DEF ProxyIInv, TypeOK
  <2>5. ServeAt(r)'
    BY <1>i, <1>u DEF ServeAt
  <2>6. TunnelAt(r, s)'
    <3>1. (s = "client" => request[r].early = 0) => CopiedSoFar(r, s)'
      BY <1>i, <1>u, <2>3 DEF TunnelAt, CopiedSoFar
    <3>2. r \notin late /\ r \notin failed => StoppedRightly(r, s)'
      <4> SUFFICES ASSUME r \notin late, r \notin failed PROVE StoppedRightly(r, s)'
        OBVIOUS
      <4>1. CASE peer[r][s].state # "open" /\ copy[r][s].read = peer[r][s].sent
        BY <1>u, <2>3, <4>1 DEF StoppedRightly, Drained
      <4>2. CASE ~Usable(r, s)
        <5>1. copy[r][o].pc = "ended"
          BY <1>i, <4>2 DEF Usable, TunnelAt, o
        <5>2. Drained(r, o)
          BY <1>i, <1>o, <1>u, <5>1 DEF TunnelAt, StoppedRightly
        <5> QED
          BY <1>u, <2>3, <5>1, <5>2 DEF StoppedRightly, Drained, o
      <4> QED
        BY <1>2, <4>1, <4>2
    <3> QED
      BY <1>i, <1>o, <1>u, <2>3, <3>1, <3>2 DEF TunnelAt, o
  <2>7. TunnelAt(r, o)'
    <3>1. (o = "client" => request[r].early = 0) => CopiedSoFar(r, o)'
      BY <1>i, <1>u, <2>3 DEF TunnelAt, CopiedSoFar
    <3>2. StoppedRightly(r, o) => StoppedRightly(r, o)'
      BY <1>o, <1>u, <2>3 DEF StoppedRightly, Drained
    <3> QED
      BY <1>i, <1>o, <1>u, <2>3, <3>1, <3>2 DEF TunnelAt
  <2>8. RequestInv(r)'
    BY <1>o, <2>5, <2>6, <2>7 DEF RequestInv
  <2> QED
    BY <1>u, <2>3, <2>4, <2>8, OneRequest
<1> QED
  BY <1>1, <1>2 DEF CopyRead

LEMMA CopyWriteStep ==
  ASSUME ProxyIInv, NEW r \in Req, NEW s \in Side, CopyWrite(r, s)
  PROVE  ProxyIInv'
<1> DEFINE o == Other(s)
<1>t. /\ copy \in [Req -> [Side -> Copy]] /\ peer \in [Req -> [Side -> Peer]]
      /\ conn \in [Req -> [Side -> Conn]]
      /\ copy[r][s] \in Copy /\ peer[r][s] \in Peer
  BY DEF ProxyIInv, TypeOK
<1>o. o \in Side /\ o # s /\ Other(o) = s /\ \A t \in Side : t = s \/ t = o
  BY OtherSide
<1>u. copy[r][s].pc = "write" /\ UNCHANGED <<allowlist, log, request, conn, late, meant>>
  BY DEF CopyWrite
<1>i. request[r].pc = "tunnel" /\ ServeAt(r) /\ TunnelAt(r, s) /\ TunnelAt(r, o)
  BY <1>u, <1>o, InTunnel
<1>n. copy[r][s].read \in 1 .. MaxData
  BY <1>t, <1>i, <1>u, ProxyAssumption DEF Copy, TunnelAt
<1>1. CASE /\ peer' = [peer EXCEPT ![r][o].got = Append(@, copy[r][s].read)]
           /\ copy' = [copy EXCEPT ![r][s].pc = "read"]
           /\ UNCHANGED failed
  <2> DEFINE v == [peer[r][o] EXCEPT !.got = Append(@, copy[r][s].read)]
  <2>1. /\ v \in Peer /\ v.state = peer[r][o].state /\ v.sent = peer[r][o].sent
        /\ v.got = Append(peer[r][o].got, copy[r][s].read)
    <3>1. peer[r][o] \in Peer /\ peer[r][o].got \in Seq(1 .. MaxData)
      BY <1>t, <1>o DEF Peer
    <3>2. Append(peer[r][o].got, copy[r][s].read) \in Seq(1 .. MaxData)
      BY <1>n, <3>1
    <3> QED
      BY <3>1, <3>2 DEF Peer
  <2>2. peer' = [peer EXCEPT ![r][o] = v]
    BY <1>1
  <2> HIDE DEF v, o
  <2>3. /\ peer' \in [Req -> [Side -> Peer]] /\ peer'[r][o] = v /\ peer'[r][s] = peer[r][s]
        /\ \A q \in Req : q # r => peer'[q] = peer[q]
    BY <1>t, <1>o, <2>1, <2>2, UpdateSide
  <2>4. /\ copy' \in [Req -> [Side -> Copy]]
        /\ copy'[r][s].pc = "read" /\ copy'[r][s].read = copy[r][s].read /\ copy'[r][o] = copy[r][o]
        /\ \A q \in Req : q # r => copy'[q] = copy[q]
    <3>1. "read" \in {"none", "read", "write", "close", "ended"}
      OBVIOUS
    <3>2. copy' = [copy EXCEPT ![r][s].pc = "read"]
      BY <1>1
    <3>3. /\ copy' \in [Req -> [Side -> Copy]]
          /\ copy'[r][s].pc = "read" /\ copy'[r][s].read = copy[r][s].read
          /\ \A t \in Side : t # s => copy'[r][t] = copy[r][t]
          /\ \A q \in Req : q # r => copy'[q] = copy[q]
      BY <1>t, <3>1, <3>2, SetCopyPc
    <3> QED
      BY <1>o, <3>3
  <2>5. TypeOK'
    BY <1>u, <1>1, <2>3, <2>4 DEF ProxyIInv, TypeOK
  <2>6. ServeAt(r)'
    BY <1>i, <1>u DEF ServeAt
  <2>7. TunnelAt(r, s)'
    <3>1. (s = "client" => request[r].early = 0) => CopiedSoFar(r, s)'
      <4>1. (s = "client" => request[r].early = 0) => peer[r][o].got = OneTo(copy[r][s].read - 1)
        BY <1>i, <1>u DEF TunnelAt, CopiedSoFar, o
      <4>2. Append(OneTo(copy[r][s].read - 1), copy[r][s].read) = OneTo(copy[r][s].read)
        <5>1. copy[r][s].read \in Nat \ {0}
          BY <1>n, ProxyAssumption
        <5> QED
          BY ONLY <5>1, OneToAppend
      <4> QED
        BY <2>1, <2>3, <2>4, <4>1, <4>2 DEF CopiedSoFar, o
    <3> QED
      BY <1>i, <1>o, <1>u, <2>4, <3>1 DEF TunnelAt, o
  <2>8. TunnelAt(r, o)'
    <3>1. (o = "client" => request[r].early = 0) => CopiedSoFar(r, o)'
      BY <1>i, <1>o, <1>1, <2>3, <2>4 DEF TunnelAt, CopiedSoFar
    <3>2. StoppedRightly(r, o) => StoppedRightly(r, o)'
      BY <1>o, <1>u, <2>1, <2>3, <2>4 DEF StoppedRightly, Drained
    <3> QED
      BY <1>i, <1>o, <1>u, <1>1, <2>4, <3>1, <3>2 DEF TunnelAt
  <2>9. RequestInv(r)'
    BY <1>o, <2>6, <2>7, <2>8 DEF RequestInv
  <2> QED
    BY <1>u, <1>1, <2>3, <2>4, <2>5, <2>9, OneRequest
<1>2. CASE /\ copy' = [copy EXCEPT ![r][s].pc = "close"]
           /\ failed' = failed \cup {r}
           /\ UNCHANGED peer
  <2> HIDE DEF o
  <2>1. /\ copy' \in [Req -> [Side -> Copy]]
        /\ copy'[r][s].pc = "close" /\ copy'[r][s].read = copy[r][s].read /\ copy'[r][o] = copy[r][o]
        /\ \A q \in Req : q # r => copy'[q] = copy[q]
    <3>1. "close" \in {"none", "read", "write", "close", "ended"}
      OBVIOUS
    <3>2. copy' = [copy EXCEPT ![r][s].pc = "close"]
      BY <1>2
    <3>3. /\ copy' \in [Req -> [Side -> Copy]]
          /\ copy'[r][s].pc = "close" /\ copy'[r][s].read = copy[r][s].read
          /\ \A t \in Side : t # s => copy'[r][t] = copy[r][t]
          /\ \A q \in Req : q # r => copy'[q] = copy[q]
      BY <1>t, <3>1, <3>2, SetCopyPc
    <3> QED
      BY <1>o, <3>3
  <2>2. TypeOK'
    BY <1>u, <1>2, <2>1 DEF ProxyIInv, TypeOK
  <2>3. ServeAt(r)'
    BY <1>i, <1>u DEF ServeAt
  <2>4. TunnelAt(r, s)'
    BY <1>i, <1>o, <1>u, <1>2, <2>1 DEF TunnelAt, CopiedSoFar, o
  <2>5. TunnelAt(r, o)'
    BY <1>i, <1>o, <1>u, <1>2, <2>1 DEF TunnelAt, CopiedSoFar
  <2>6. RequestInv(r)'
    BY <1>o, <2>3, <2>4, <2>5 DEF RequestInv
  <2> QED
    BY <1>u, <1>2, <2>1, <2>2, <2>6, OneRequest
<1> QED
  BY <1>1, <1>2 DEF CopyWrite

LEMMA CopyCloseStep ==
  ASSUME ProxyIInv, NEW r \in Req, NEW s \in Side, CopyClose(r, s)
  PROVE  ProxyIInv'
<1> DEFINE o == Other(s)
<1>t. /\ copy \in [Req -> [Side -> Copy]] /\ peer \in [Req -> [Side -> Peer]]
      /\ conn \in [Req -> [Side -> Conn]]
      /\ copy[r][s] \in Copy /\ peer[r][s] \in Peer
  BY DEF ProxyIInv, TypeOK
<1>o. o \in Side /\ o # s /\ Other(o) = s /\ \A t \in Side : t = s \/ t = o
  BY OtherSide
<1>u. copy[r][s].pc = "close" /\ UNCHANGED <<allowlist, log, request, peer, late, meant, failed>>
  BY DEF CopyClose
<1>i. request[r].pc = "tunnel" /\ ServeAt(r) /\ TunnelAt(r, s) /\ TunnelAt(r, o)
  BY <1>u, <1>o, InTunnel
<1>1. /\ copy' = [copy EXCEPT ![r][s].pc = "ended"]
      /\ conn' = [conn EXCEPT ![r][o].open = FALSE]
  BY DEF CopyClose
<1> HIDE DEF o
<1>2. /\ conn' \in [Req -> [Side -> Conn]] /\ ~conn'[r][o].open /\ conn'[r][s] = conn[r][s]
      /\ \A q \in Req : q # r => conn'[q] = conn[q]
  <2>1. FALSE \in BOOLEAN
    OBVIOUS
  <2>2. /\ conn' \in [Req -> [Side -> Conn]] /\ conn'[r][o].open = FALSE
        /\ \A t \in Side : t # o => conn'[r][t] = conn[r][t]
        /\ \A q \in Req : q # r => conn'[q] = conn[q]
    BY <1>t, <1>o, <1>1, <2>1, SetOpen
  <2> QED
    BY <1>o, <2>2
<1>3. /\ copy' \in [Req -> [Side -> Copy]]
      /\ copy'[r][s].pc = "ended" /\ copy'[r][s].read = copy[r][s].read /\ copy'[r][o] = copy[r][o]
      /\ \A q \in Req : q # r => copy'[q] = copy[q]
  <2>1. "ended" \in {"none", "read", "write", "close", "ended"}
    OBVIOUS
  <2>2. copy' = [copy EXCEPT ![r][s].pc = "ended"]
    BY <1>1
  <2>3. /\ copy' \in [Req -> [Side -> Copy]]
        /\ copy'[r][s].pc = "ended" /\ copy'[r][s].read = copy[r][s].read
        /\ \A t \in Side : t # s => copy'[r][t] = copy[r][t]
        /\ \A q \in Req : q # r => copy'[q] = copy[q]
    BY <1>t, <2>1, <2>2, SetCopyPc
  <2> QED
    BY <1>o, <2>3
<1>4. TypeOK'
  BY <1>u, <1>2, <1>3 DEF ProxyIInv, TypeOK
<1>5. ServeAt(r)'
  BY <1>i, <1>u DEF ServeAt
<1>6. TunnelAt(r, s)'
  <2>1. (s = "client" => request[r].early = 0) => CopiedSoFar(r, s)'
    BY <1>i, <1>u, <1>3 DEF TunnelAt, CopiedSoFar
  <2>2. StoppedRightly(r, s) => StoppedRightly(r, s)'
    BY <1>u, <1>3 DEF StoppedRightly, Drained, o
  <2> QED
    BY <1>i, <1>u, <1>2, <1>3, <2>1, <2>2 DEF TunnelAt, o
<1>7. TunnelAt(r, o)'
  <2>1. (o = "client" => request[r].early = 0) => CopiedSoFar(r, o)'
    BY <1>i, <1>u, <1>3 DEF TunnelAt, CopiedSoFar
  <2>2. StoppedRightly(r, o) => StoppedRightly(r, o)'
    BY <1>o, <1>u, <1>3 DEF StoppedRightly, Drained
  <2> QED
    BY <1>i, <1>o, <1>u, <1>2, <1>3, <2>1, <2>2 DEF TunnelAt
<1>8. RequestInv(r)'
  BY <1>o, <1>5, <1>6, <1>7 DEF RequestInv
<1> QED
  BY <1>u, <1>2, <1>3, <1>4, <1>8, OneRequest

LEMMA DeadlineStep ==
  ASSUME ProxyIInv, NEW r \in Req, DeadlinePasses(r)
  PROVE  ProxyIInv'
<1>1. TypeOK'
  BY DEF DeadlinePasses, ProxyIInv, TypeOK
<1>2. ASSUME NEW q \in Req PROVE RequestInv(q)'
  BY RequestFrame DEF DeadlinePasses, ProxyIInv
<1> QED
  BY <1>1, <1>2 DEF ProxyIInv

\* A peer changes nothing of what it has received, and once it has ended its
\* stream it sends no more.
LEMMA PeerStep ==
  ASSUME ProxyIInv, NEW r \in Req, NEW s \in Side,
         Sends(r, s) \/ EndsStream(r, s) \/ Leaves(r, s) \/ StopsReading(r, s)
  PROVE  ProxyIInv'
<1>t. peer \in [Req -> [Side -> Peer]] /\ peer[r][s] \in Peer
  BY DEF ProxyIInv, TypeOK
<1>1. PICK p \in Peer :
        /\ peer' = [peer EXCEPT ![r][s] = p]
        /\ p.got = peer[r][s].got
        /\ peer[r][s].state # "open" => p.state # "open" /\ p.sent = peer[r][s].sent
        /\ UNCHANGED <<proxyVars, failed>>
  <2>1. CASE Sends(r, s)
    <3> DEFINE p == [peer[r][s] EXCEPT !.sent = @ + 1]
    <3>0. peer[r][s].sent + 1 \in 0..MaxData
      <4>1. peer[r][s].sent \in 0..MaxData /\ peer[r][s].sent < MaxData
        BY <1>t, <2>1 DEF Sends, Peer
      <4> QED
        BY <4>1, ProxyAssumption
    <3>1. p \in Peer /\ p.got = peer[r][s].got
      BY <1>t, <3>0 DEF Peer
    <3>2. peer[r][s].state = "open" /\ PeerActs(r, s, p)
      BY <2>1 DEF Sends
    <3> QED
      BY <3>1, <3>2 DEF PeerActs
  <2>2. CASE EndsStream(r, s)
    <3> DEFINE p == [peer[r][s] EXCEPT !.state = "ended"]
    <3>1. p \in Peer /\ p.got = peer[r][s].got
      BY <1>t DEF Peer
    <3>2. peer[r][s].state = "open" /\ PeerActs(r, s, p)
      BY <2>2 DEF EndsStream
    <3> QED
      BY <3>1, <3>2 DEF PeerActs
  <2>3. CASE Leaves(r, s)
    <3> DEFINE p == [peer[r][s] EXCEPT !.state = "gone", !.stalled = FALSE]
    <3>1. p \in Peer /\ p.got = peer[r][s].got /\ p.state # "open" /\ p.sent = peer[r][s].sent
      BY <1>t DEF Peer
    <3>2. PeerActs(r, s, p)
      BY <2>3 DEF Leaves
    <3> QED
      BY <3>1, <3>2 DEF PeerActs
  <2>4. CASE StopsReading(r, s)
    <3> DEFINE p == [peer[r][s] EXCEPT !.stalled = TRUE]
    <3>1. /\ p \in Peer /\ p.got = peer[r][s].got
          /\ p.state = peer[r][s].state /\ p.sent = peer[r][s].sent
      BY <1>t DEF Peer
    <3>2. PeerActs(r, s, p)
      BY <2>4 DEF StopsReading
    <3> QED
      BY <3>1, <3>2 DEF PeerActs
  <2> QED
    BY <2>1, <2>2, <2>3, <2>4
<1>2. /\ peer' \in [Req -> [Side -> Peer]] /\ peer'[r][s] = p
      /\ \A t \in Side : t # s => peer'[r][t] = peer[r][t]
      /\ \A q \in Req : q # r => peer'[q] = peer[q]
  BY <1>t, <1>1, UpdateSide
<1>3. /\ request' = request /\ conn' = conn /\ copy' = copy /\ log' = log /\ meant' = meant
      /\ late' = late /\ failed' = failed /\ allowlist' = allowlist
  BY <1>1 DEF proxyVars
<1>4. \A t \in Side : /\ peer'[r][t].got = peer[r][t].got
                      /\ Drained(r, t) => Drained(r, t)'
  BY <1>1, <1>2, <1>3 DEF Drained
<1>5. TypeOK'
  BY <1>2, <1>3 DEF ProxyIInv, TypeOK
<1>6. ServeAt(r)'
  BY <1>3, <1>4 DEF ProxyIInv, RequestInv, ServeAt
<1>7. ASSUME NEW t \in Side, TunnelAt(r, t) PROVE TunnelAt(r, t)'
  <2>1. Other(t) \in Side
    BY OtherSide
  <2>2. CopiedSoFar(r, t) => CopiedSoFar(r, t)'
    BY <1>3, <1>4, <2>1 DEF CopiedSoFar
  <2>3. StoppedRightly(r, t) => StoppedRightly(r, t)'
    BY <1>3, <1>4, <2>1 DEF StoppedRightly
  <2> QED
    BY <1>3, <1>7, <2>2, <2>3 DEF TunnelAt
<1>8. RequestInv(r)'
  BY <1>3, <1>6, <1>7 DEF ProxyIInv, RequestInv
<1> QED
  BY <1>2, <1>3, <1>5, <1>8, OneRequest

LEMMA ProxyStep ==
  ASSUME ProxyIInv, [Next]_vars
  PROVE  ProxyIInv'
<1>1. CASE UNCHANGED vars
  <2>1. TypeOK'
    BY <1>1 DEF vars, proxyVars, ProxyIInv, TypeOK
  <2>2. ASSUME NEW q \in Req PROVE RequestInv(q)'
    BY <1>1, RequestFrame DEF vars, proxyVars, ProxyIInv
  <2> QED
    BY <2>1, <2>2 DEF ProxyIInv
<1>2. ASSUME NEW r \in Req, ServeStep(r) PROVE ProxyIInv'
  <2>1. CASE request'[r].pc = "tunnel"
    <3>1. request \in [Req -> Request]
      BY DEF ProxyIInv, TypeOK
    <3>2. Hijack(r)
      <4>1. ASSUME NEW p, p # "tunnel", Goto(r, p) PROVE FALSE
        BY <2>1, <3>1, <4>1 DEF Goto, Request
      <4>2. ~Check(r)
        BY <2>1, <3>1 DEF Check, Request
      <4>3. ~Dial(r)
        <5>1. \A b : request' = [request EXCEPT ![r].pc = "verify", ![r].internal = b]
                        => request'[r].pc = "verify"
          BY <3>1 DEF Request
        <5> QED
          BY <2>1, <4>1, <5>1 DEF Dial
      <4>4. ~Reject(r)
        BY <4>1 DEF Reject
      <4>5. ~LogEntry(r) /\ ~VerifyAddress(r)
        <5>1. ~Goto(r, IF request[r].allowed THEN "dial" ELSE "refused")
          BY <4>1
        <5>2. ~Goto(r, IF request[r].internal THEN "refused" ELSE "hijack")
          BY <4>1
        <5> QED
          BY <5>1, <5>2 DEF LogEntry, VerifyAddress
      <4> QED
        BY <1>2, <4>2, <4>3, <4>4, <4>5 DEF ServeStep
    <3> QED
      BY <2>1, <3>2, HijackStep
  <2> QED
    BY <1>2, <2>1, ServeStepKeeps
<1>3. CASE Next
  BY <1>2, <1>3, PublishStep, CopyReadStep, CopyWriteStep, CopyCloseStep, DeadlineStep, PeerStep
  DEF Next, CopyStep
<1> QED
  BY <1>1, <1>3

\* ProxyIInv holds in every reachable state.
THEOREM ProxyInductive == Spec => []ProxyIInv
<1>1. Init => ProxyIInv
  BY ProxyInitial
<1>2. ProxyIInv /\ [Next]_vars => ProxyIInv'
  BY ProxyStep
<1> QED
  BY <1>1, <1>2, PTL DEF Spec

\* A connection is opened only where the list was meant to let it, and nothing
\* passes to or from an internal address, whatever is published and however the
\* name resolves (proxy.go, ServeHTTP), where the matcher is exact.
THEOREM TunnelsAsMeant ==
  ASSUME MatcherExact
  PROVE  Spec => []TunnelsOnlyMeant
<1>1. ProxyIInv => TunnelsOnlyMeant
  <2> SUFFICES ASSUME ProxyIInv, NEW r \in Req
               PROVE  /\ conn[r]["dest"].open => meant[r] /\ log[r] \in {"allowed", "lost"}
                      /\ request[r].internal => \A s \in Side : peer[r][s].got = <<>>
    BY DEF TunnelsOnlyMeant
  <2> QED
    BY DEF ProxyIInv, RequestInv, ServeAt
<1> QED
  BY <1>1, ProxyInductive, PTL

\* Every star of every entry stands at an end of its label, as in the default
\* allowlist ("bedrock-runtime.*.amazonaws.com", store.go:30).
EdgeStars == \A e \in Entry : EdgePattern(e.host)

\* Such a list is enough: with no other assumption on the names, every tunnel
\* goes where the list was meant to let it (IsAllowed and ServeHTTP together).
THEOREM EdgeStarsTunnelAsMeant ==
  ASSUME EdgeStars
  PROVE  Spec => []TunnelsOnlyMeant
<1>1. ASSUME NEW e \in Entry, NEW d \in Dest,
             e = d \/ (Contains(e.host, "*") /\ WildcardHostMatch(e.host, d.host))
      PROVE  Matches(e.host, d.host)
  <2>1. e.host \in Seq(STRING) /\ d.host \in Seq(STRING) /\ EdgePattern(e.host)
    BY ProxyAssumption DEF EdgeStars
  <2>2. CASE e = d
    BY <2>1, <2>2, MatchesSelf
  <2>3. CASE WildcardHostMatch(e.host, d.host)
    <3>1. Plain(e.host, d.host)
      BY <2>1, <2>3, EdgePatternPlain
    <3> QED
      BY <2>1, <2>3, <3>1, MatcherCorrect DEF PlainExact
  <2> QED
    BY <1>1, <2>2, <2>3
<1>2. MatcherExact
  BY <1>1 DEF MatcherExact
<1> QED
  BY <1>2, TunnelsAsMeant

\* The matcher and the reference agree (wildcardHostMatch and labelGlob): the
\* instance of MatcherCorrect that the run evaluates.
THEOREM MatcherAgrees == Spec => []WildcardAgrees
<1> DEFINE L == {"a", "b", ".", "*"}
           H == {"a", "b", "."}
<1>1. Patterns \subseteq Seq(L)
  <2>1. SeqOf(L, 4) \subseteq Seq(L)
    BY SeqOfSeq
  <2> QED
    BY <2>1 DEF Patterns
<1>2. Hosts \subseteq Seq(L)
  <2>1. SeqOf(H, 3) \subseteq Seq(H)
    BY SeqOfSeq
  <2>2. H \subseteq L
    OBVIOUS
  <2>3. <<"a", "b", "a", "b">> \in Seq(L) /\ <<"a", ".", "b", "a">> \in Seq(L)
    <3>1. "a" \in L /\ "b" \in L /\ "." \in L
      OBVIOUS
    <3> HIDE DEF L
    <3> QED
      BY <3>1
  <2>4. Seq(H) \subseteq Seq(L)
    <3> HIDE DEF H, L
    <3> QED
      BY <2>2
  <2> QED
    BY <2>1, <2>3, <2>4 DEF Hosts
<1>3. MatchesAccepted(Patterns, Hosts) /\ PlainExact(Patterns, Hosts)
  <2> HIDE DEF L
  <2>1. MatchesAccepted(Seq(L), Seq(L)) /\ PlainExact(Seq(L), Seq(L))
    BY MatcherCorrect
  <2> QED
    BY <1>1, <1>2, <2>1 DEF MatchesAccepted, PlainExact
<1>4. WildcardAgrees
  BY <1>3 DEF WildcardAgrees
<1> QED
  BY <1>4, PTL

\* The two goroutines of tunnel deliver a stream that was ended completely,
\* though each closes the connection the other one reads from.
THEOREM EndedStreamsDelivered == Spec => []EndedStreamDelivered
<1>1. ProxyIInv => EndedStreamDelivered
  <2> SUFFICES ASSUME ProxyIInv, NEW r \in Req, NEW s \in Side,
                      Over(r), r \notin late, r \notin failed,
                      peer[r][s].state = "ended", peer[r][Other(s)].state = "open",
                      s = "client" => request[r].early = 0
               PROVE  peer[r][Other(s)].got = OneTo(peer[r][s].sent)
    BY DEF EndedStreamDelivered
  <2>1. copy[r][s].pc = "ended"
    BY DEF Over
  <2>2. TunnelAt(r, s)
    BY <2>1, InTunnel
  <2>3. CopiedSoFar(r, s) /\ StoppedRightly(r, s)
    BY <2>1, <2>2 DEF TunnelAt
  <2>4. Drained(r, s)
    BY <2>3 DEF StoppedRightly, Drained
  <2> QED
    BY <2>1, <2>3, <2>4 DEF CopiedSoFar, Drained
<1> QED
  BY <1>1, ProxyInductive, PTL

\* Types, for every reachable state of the proxy.
THEOREM ProxyTypeCorrect == Spec => []TypeOK
<1>1. ProxyIInv => TypeOK
  BY DEF ProxyIInv
<1> QED
  BY <1>1, ProxyInductive, PTL
===============================================================================
