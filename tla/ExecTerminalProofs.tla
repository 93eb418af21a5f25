-------------------------- MODULE ExecTerminalProofs --------------------------
(***************************************************************************)
(* Proofs about module ExecTerminal, for any number of projects, calls,    *)
(* closers and connections and any length of the output, and about the     *)
(* buffer its sessions replay from, module RingBuffer, for every capacity  *)
(* and every sequence of writes.                                           *)
(***************************************************************************)
EXTENDS ExecTerminal, RingBuffer, SequenceTheorems, TLAPS

-----------------------------------------------------------------------------
(* The circular buffer implements ReplayLog.                               *)

\* The buffer's content as a length and a function: Bytes is a sequence.
LEMMA BytesSeq ==
  ASSUME NEW rb \in Ring
  PROVE  /\ Bytes(rb) \in Seq(Byte \cup {NoByte})
         /\ Len(Bytes(rb)) = IF rb.full THEN Size ELSE rb.w
<1> USE RingAssumption DEF Ring, Cell, Bytes
<1>1. CASE rb.full
  <2> DEFINE f == [k \in 1 .. Size |-> IF k <= Size - rb.w THEN rb.buf[rb.w + k - 1]
                                                  ELSE rb.buf[k - (Size - rb.w) - 1]]
  <2>1. \A k \in 1 .. Size : f[k] \in Byte \cup {NoByte}
    OBVIOUS
  <2>2. f \in Seq(Byte \cup {NoByte}) /\ Len(f) = Size
    BY <2>1
  <2> QED
    BY <1>1, <2>2
<1>2. CASE ~rb.full
  <2> DEFINE f == [k \in 1 .. rb.w |-> rb.buf[k - 1]]
  <2>1. \A k \in 1 .. rb.w : f[k] \in Byte \cup {NoByte}
    OBVIOUS
  <2>2. f \in Seq(Byte \cup {NoByte}) /\ Len(f) = rb.w
    BY <2>1
  <2> QED
    BY <1>2, <2>2
<1> QED
  BY <1>1, <1>2

\* A write leaves a well-formed buffer.
LEMMA WriteType ==
  ASSUME NEW rb \in Ring, NEW p \in Seq(Byte)
  PROVE  Write(rb, p) \in Ring
<1> USE RingAssumption
<1> DEFINE n == FirstSegment(rb, p)
<1>0. rb.w \in Cell /\ rb.full \in BOOLEAN /\ rb.buf \in [Cell -> Byte \cup {NoByte}] /\ Len(p) \in Nat
  BY DEF Ring
<1>1. n \in Nat /\ n <= Len(p) /\ n <= Size - rb.w
  BY <1>0 DEF FirstSegment, Cell
<1>2. Copied(rb, p) \in [Cell -> Byte \cup {NoByte}]
  BY SMTT(30), <1>0, <1>1 DEF Copied, Cell
<1>3. Position(rb, p) \in Cell
  BY <1>0, <1>1 DEF Position, Cell, FirstSegment
<1>4. Wrapped(rb, p) \in BOOLEAN
  BY <1>0 DEF Wrapped
<1> QED
  BY <1>2, <1>3, <1>4 DEF Write, Ring

\* The content of the buffer, cell by cell.
LEMMA BytesAt ==
  ASSUME NEW rb \in Ring, NEW k \in 1 .. Len(Bytes(rb))
  PROVE  Bytes(rb)[k] = IF ~rb.full THEN rb.buf[k - 1]
                        ELSE IF k <= Size - rb.w THEN rb.buf[rb.w + k - 1]
                        ELSE rb.buf[k - (Size - rb.w) - 1]
<1>1. Len(Bytes(rb)) = IF rb.full THEN Size ELSE rb.w
  BY BytesSeq
<1>2. CASE rb.full
  BY <1>1, <1>2 DEF Bytes
<1>3. CASE ~rb.full
  BY <1>1, <1>3 DEF Bytes
<1> QED
  BY <1>2, <1>3

\* Write and Bytes in arithmetic only: S cells, f before and g after a write of
\* the P bytes p, whose first segment has n; w and v the write positions; s and
\* t the contents, L and M bytes long.
Circular(S, w, P, n, v, full, wrapped, f, g, p, L, M, s, t) ==
    /\ S \in Nat \ {0} /\ w \in 0 .. S - 1 /\ {P, L, M, n, v} \subseteq Nat
    /\ full \in BOOLEAN /\ wrapped \in BOOLEAN
    /\ n = IF P < S - w THEN P ELSE S - w
    /\ v = IF P >= S THEN 0 ELSE IF n < P THEN P - n ELSE IF w + n = S THEN 0 ELSE w + n
    /\ wrapped <=> full \/ P >= S - w
    /\ L = IF full THEN S ELSE w
    /\ M = IF wrapped THEN S ELSE v
    /\ \A j \in 0 .. S - 1 : g[j] =
          IF P >= S THEN p[P - S + j + 1]
          ELSE IF w <= j /\ j < w + n THEN p[j - w + 1]
          ELSE IF j < P - n THEN p[n + j + 1]
          ELSE f[j]
    /\ \A k \in 1 .. L : s[k] =
          IF ~full THEN f[k - 1] ELSE IF k <= S - w THEN f[w + k - 1] ELSE f[k - (S - w) - 1]
    /\ \A k \in 1 .. M : t[k] =
          IF ~wrapped THEN g[k - 1] ELSE IF k <= S - v THEN g[v + k - 1] ELSE g[k - (S - v) - 1]

LEMMA CircularCopy ==
  ASSUME NEW S, NEW w, NEW P, NEW n, NEW v, NEW full, NEW wrapped, NEW f, NEW g, NEW p,
         NEW L, NEW M, NEW s, NEW t,
         Circular(S, w, P, n, v, full, wrapped, f, g, p, L, M, s, t)
  PROVE  /\ M = IF L + P <= S THEN L + P ELSE S
         /\ \A k \in 1 .. M :
                t[k] = IF L + P - M + k <= L THEN s[L + P - M + k] ELSE p[P - M + k]
<1>a. /\ S \in Nat \ {0} /\ w \in 0 .. S - 1
      /\ P \in Nat /\ L \in Nat /\ M \in Nat /\ n \in Nat /\ v \in Nat
      /\ full \in BOOLEAN /\ wrapped \in BOOLEAN
      /\ n = IF P < S - w THEN P ELSE S - w
      /\ v = IF P >= S THEN 0 ELSE IF n < P THEN P - n ELSE IF w + n = S THEN 0 ELSE w + n
      /\ wrapped <=> full \/ P >= S - w
      /\ L = IF full THEN S ELSE w
      /\ M = IF wrapped THEN S ELSE v
  BY DEF Circular
<1>b. \A j \in 0 .. S - 1 : g[j] =
          IF P >= S THEN p[P - S + j + 1]
          ELSE IF w <= j /\ j < w + n THEN p[j - w + 1]
          ELSE IF j < P - n THEN p[n + j + 1]
          ELSE f[j]
  BY DEF Circular
<1>c. \A k \in 1 .. L : s[k] =
          IF ~full THEN f[k - 1] ELSE IF k <= S - w THEN f[w + k - 1] ELSE f[k - (S - w) - 1]
  BY DEF Circular
<1>d. \A k \in 1 .. M : t[k] =
          IF ~wrapped THEN g[k - 1] ELSE IF k <= S - v THEN g[v + k - 1] ELSE g[k - (S - v) - 1]
  BY DEF Circular
<1> USE <1>a, <1>b, <1>c, <1>d
<1>1. M = IF L + P <= S THEN L + P ELSE S
  OBVIOUS
<1>2. ASSUME NEW k \in 1 .. M
      PROVE  t[k] = IF L + P - M + k <= L THEN s[L + P - M + k] ELSE p[P - M + k]
  <2>1. CASE P >= S
    BY <2>1, <1>1
  <2>2. CASE P < S - w /\ full
    BY <2>2, <1>1
  <2>3. CASE P < S - w /\ ~full
    BY <2>3, <1>1
  <2>4. CASE P < S /\ P >= S - w /\ full
    BY <2>4, <1>1
  <2>5. CASE P < S /\ P >= S - w /\ ~full
    <3>1. n = S - w /\ v = P - n /\ wrapped /\ L = w /\ M = S /\ v < w
      BY <2>5
    <3>2. L + P - M + k = v + k /\ P - M + k = v + k - w
      BY <3>1
    <3>3. CASE v + k <= w
      <4>1. v + k - 1 \in 0 .. S - 1 /\ k <= S - v
        BY <3>1, <3>3
      <4>t. t[k] = g[v + k - 1]
        BY <3>1, <4>1
      <4>2. g[v + k - 1] = f[v + k - 1]
        BY <2>5, <3>1, <3>3, <4>1
      <4>3. s[v + k] = f[v + k - 1]
        BY <2>5, <3>1, <3>3
      <4> QED
        BY <3>1, <3>2, <3>3, <4>t, <4>2, <4>3
    <3>4. CASE v + k > w /\ k <= S - v
      <4>1. t[k] = g[v + k - 1] /\ v + k - 1 \in 0 .. S - 1
        BY SMTT(30), <3>1, <3>4
      <4>2. g[v + k - 1] = p[v + k - 1 - w + 1]
        BY <2>5, <3>1, <3>4, <4>1
      <4>3. v + k - 1 - w + 1 = v + k - w
        OBVIOUS
      <4> QED
        BY <3>1, <3>2, <3>4, <4>1, <4>2, <4>3
    <3>5. CASE k > S - v
      <4>1. t[k] = g[k - (S - v) - 1] /\ k - (S - v) - 1 \in 0 .. S - 1
        BY <3>1, <3>5
      <4>2. g[k - (S - v) - 1] = p[n + (k - (S - v) - 1) + 1]
        <5> DEFINE j == k - (S - v) - 1
        <5>1. j \in 0 .. S - 1 /\ j < P - n /\ ~(P >= S) /\ ~(w <= j)
          BY <2>5, <3>1, <3>5, <4>1
        <5> HIDE DEF j
        <5>2. g[j] = p[n + j + 1]
          BY <5>1
        <5> QED
          BY <5>2 DEF j
      <4>3. n + (k - (S - v) - 1) + 1 = v + k - w /\ v + k > w
        BY <3>1, <3>5
      <4> QED
        BY <3>1, <3>2, <3>5, <4>1, <4>2, <4>3
    <3> QED
      BY <3>1, <3>3, <3>4, <3>5
  <2> QED
    BY <2>1, <2>2, <2>3, <2>4, <2>5
<1> QED
  BY <1>1, <1>2

\* Write(p) appends p and keeps the last Size bytes.
LEMMA WriteAppends ==
  ASSUME NEW rb \in Ring, NEW p \in Seq(Byte)
  PROVE  Bytes(Write(rb, p)) = Log!Last(Bytes(rb) \o p, Size)
<1> USE RingAssumption
<1> DEFINE s == Bytes(rb)
           rc == Write(rb, p)
           t == Bytes(rc)
           L == Len(s)
           M == Len(t)
           P == Len(p)
<1>1. /\ rb.w \in 0 .. Size - 1
      /\ rb.full \in BOOLEAN
      /\ P \in Nat
  BY DEF Ring, Cell
<1>2. /\ rc \in Ring
      /\ rc.w = Position(rb, p)
      /\ rc.full = Wrapped(rb, p)
      /\ rc.buf = Copied(rb, p)
  BY WriteType DEF Write
<1>3. /\ s \in Seq(Byte \cup {NoByte})
      /\ L = IF rb.full THEN Size ELSE rb.w
  BY BytesSeq
<1>4. /\ t \in Seq(Byte \cup {NoByte})
      /\ M = IF rc.full THEN Size ELSE rc.w
  BY <1>2, BytesSeq
<1>5. \A j \in 0 .. Size - 1 : rc.buf[j] =
          IF P >= Size THEN p[P - Size + j + 1]
          ELSE IF rb.w <= j /\ j < rb.w + FirstSegment(rb, p) THEN p[j - rb.w + 1]
          ELSE IF j < P - FirstSegment(rb, p) THEN p[FirstSegment(rb, p) + j + 1]
          ELSE rb.buf[j]
  BY <1>2 DEF Copied, Cell
<1>6. \A k \in 1 .. L : s[k] =
          IF ~rb.full THEN rb.buf[k - 1]
          ELSE IF k <= Size - rb.w THEN rb.buf[rb.w + k - 1]
          ELSE rb.buf[k - (Size - rb.w) - 1]
  BY BytesAt
<1>7. \A k \in 1 .. M : t[k] =
          IF ~rc.full THEN rc.buf[k - 1]
          ELSE IF k <= Size - rc.w THEN rc.buf[rc.w + k - 1]
          ELSE rc.buf[k - (Size - rc.w) - 1]
  BY <1>2, BytesAt
<1>8. /\ FirstSegment(rb, p) = IF P < Size - rb.w THEN P ELSE Size - rb.w
      /\ FirstSegment(rb, p) \in Nat
  BY <1>1 DEF FirstSegment
<1>9. /\ rc.w = IF P >= Size THEN 0
                ELSE IF FirstSegment(rb, p) < P THEN P - FirstSegment(rb, p)
                ELSE IF rb.w + FirstSegment(rb, p) = Size THEN 0
                ELSE rb.w + FirstSegment(rb, p)
      /\ rc.w \in Nat
  BY <1>2 DEF Position, Ring, Cell
<1>10. rc.full \in BOOLEAN /\ (rc.full <=> rb.full \/ P >= Size - rb.w)
  BY <1>1, <1>2 DEF Wrapped, Ring
<1>11. L \in Nat /\ M \in Nat /\ Size \in Nat \ {0}
  BY <1>3, <1>4
<1> HIDE DEF s, rc, t, L, M, P
<1>12. /\ M = IF L + P <= Size THEN L + P ELSE Size
       /\ \A k \in 1 .. M :
             t[k] = IF L + P - M + k <= L THEN s[L + P - M + k] ELSE p[P - M + k]
  <2>1. Circular(Size, rb.w, P, FirstSegment(rb, p), rc.w, rb.full, rc.full, rb.buf, rc.buf, p, L, M, s, t)
    BY <1>1, <1>3, <1>4, <1>5, <1>6, <1>7, <1>8, <1>9, <1>10, <1>11 DEF Circular
  <2> QED
    BY <2>1, CircularCopy
<1> DEFINE q == s \o p
<1>13. /\ q \in Seq(Byte \cup {NoByte})
       /\ Len(q) = L + P
       /\ \A k \in 1 .. L + P : q[k] = IF k <= L THEN s[k] ELSE p[k - L]
  BY SMTT(30), <1>3 DEF L, P
<1> HIDE DEF q
<1>14. CASE L + P <= Size
  <2>1. M = L + P
    BY <1>12, <1>14
  <2>2. ASSUME NEW k \in 1 .. M PROVE t[k] = q[k]
    <3>1. L + P - M + k = k /\ P - M + k = k - L
      BY <1>1, <1>11, <2>1
    <3> QED
      BY <1>12, <1>13, <2>1, <3>1
  <2>3. t = q
    BY <1>4, <1>13, <2>1, <2>2 DEF M
  <2> QED
    BY <1>13, <1>14, <2>3 DEF Log!Last, s, t, q, rc
<1>15. CASE L + P > Size
  <2> DEFINE r == SubSeq(q, Len(q) - Size + 1, Len(q))
  <2>1. /\ r \in Seq(Byte \cup {NoByte})
        /\ Len(r) = Size
        /\ \A k \in 1 .. Size : r[k] = q[L + P - Size + k]
    BY <1>1, <1>11, <1>13, <1>15
  <2>2. M = Size /\ \A k \in 1 .. Size : t[k] = q[L + P - Size + k]
    BY <1>1, <1>11, <1>12, <1>13, <1>15
  <2> HIDE DEF r
  <2>3. t = r
    BY <1>4, <2>1, <2>2 DEF M
  <2> QED
    <3>1. ~(Len(q) <= Size)
      BY <1>1, <1>11, <1>13, <1>15
    <3>2. Log!Last(q, Size) = r
      BY <3>1 DEF Log!Last, r
    <3> QED
      BY <2>3, <3>2 DEF s, t, q, rc
<1> QED
  BY <1>1, <1>11, <1>14, <1>15

\* The circular buffer of ringbuf.go keeps exactly the most recent Size bytes,
\* for every Size and every sequence of writes.
THEOREM RingIsReplayLog == RingSpec => IsReplayLog
<1>1. RingInit => RingTypeOK /\ Log!LogInit
  <2> SUFFICES ASSUME RingInit PROVE RingTypeOK /\ Log!LogInit
    OBVIOUS
  <2>1. RingTypeOK
    BY RingAssumption DEF RingTypeOK, RingInit, NewRingBuffer, Ring, Cell
  <2>2. Bytes(ring) = <<>>
    BY DEF RingInit, NewRingBuffer, Bytes
  <2> QED
    BY <2>1, <2>2 DEF RingInit, Log!LogInit
<1>2. RingTypeOK /\ [RingNext]_<<ring, arg>> => RingTypeOK'
  BY RingAssumption, WriteType DEF RingTypeOK, RingNext, RingWrite
<1>3. RingTypeOK /\ [RingNext]_<<ring, arg>> => [Log!LogNext]_<<Bytes(ring), arg>>
  <2> SUFFICES ASSUME RingTypeOK, [RingNext]_<<ring, arg>>
               PROVE  [Log!LogNext]_<<Bytes(ring), arg>>
    OBVIOUS
  <2>1. CASE UNCHANGED <<ring, arg>>
    BY <2>1 DEF Bytes
  <2>2. ASSUME NEW p \in Chunks, RingWrite(p) PROVE Log!LogNext
    <3>1. Bytes(ring') = Log!Last(Bytes(ring) \o p, Size)
      BY <2>2, RingAssumption, WriteAppends DEF RingWrite, RingTypeOK
    <3>2. Log!Appended(p)
      BY <2>2, <3>1 DEF Log!Appended, RingWrite
    <3> QED
      BY <3>2 DEF Log!LogNext
  <2> QED
    BY <2>1, <2>2 DEF RingNext
<1> QED
  BY <1>1, <1>2, <1>3, PTL DEF RingSpec, IsReplayLog, Log!LogSpec

-----------------------------------------------------------------------------
(* The inductive invariant: the registry and the teardown.                 *)

\* A call that has not registered its session: nobody else knows of it.
UnregisteredInv ==
    \A k \in Call : create[k].pc \in {"idle", "exec", "attached"} =>
        /\ k \notin sessions
        /\ ~sess[k].done
        /\ pump[k] = "none"
        /\ create[k].pc = "attached" => Connected(exec[k])
        /\ \A x \in Closer \cup Call : teardown[x].pc \in {"conn", "subs"} => teardown[x].id # k

\* CloseSession: who is past the registry owns the session it removed, alone.
TeardownInv ==
    /\ \A x \in Closer \cup Call : teardown[x].pc \in {"conn", "subs"} =>
        /\ teardown[x].id \in Call
        /\ teardown[x].id \notin sessions
        /\ teardown[x].pc = "conn" => ~sess[teardown[x].id].done
    /\ \A x, y \in Closer \cup Call :
        /\ teardown[x].pc \in {"conn", "subs"}
        /\ teardown[y].pc \in {"conn", "subs"}
        /\ teardown[x].id = teardown[y].id
        => x = y

\* The pump calls CloseSession once, for its own session, when it is over.
PumpCloseInv ==
    \A k \in Call :
        /\ pump[k] # "ended" => teardown[k].pc = "idle"
        /\ teardown[k].ids = IF teardown[k].pc = "next" THEN {k} ELSE {}

RegistryInv == UnregisteredInv /\ TeardownInv /\ PumpCloseInv /\ RegisteredIsServed

-----------------------------------------------------------------------------
(* The inductive invariant: the output.                                    *)

\* The buffer has every chunk that was read, except one pumpOutput holds.
BufferInv == \A k \in Call : exec[k].read = IF pump[k] = "write" THEN sess[k].buf + 1 ELSE sess[k].buf

BeforeSubscribe == {"idle", "upgraded", "found"}

BeforeServing == BeforeSubscribe \cup {"subscribed", "replay", "copied"}

Subscribed(c, k) == c \in sess[k].subs

\* A channel is in the map of one session, the handler's, and while it is there
\* it is open.
SubscriberAt(c) ==
    /\ \A k \in Call : Subscribed(c, k) => ~ch[c].closed
    /\ \A j, k \in Call : Subscribed(c, j) /\ Subscribed(c, k) => j = k
    /\ handler[c].pc \in BeforeSubscribe =>
         ch[c].queue = <<>> /\ ~ch[c].closed /\ \A k \in Call : ~Subscribed(c, k)
    /\ handler[c].pc \notin {"idle", "returned"} => handler[c].id \in Call
    /\ handler[c].pc \notin BeforeSubscribe \cup {"returned"} =>
         \A k \in Call : Subscribed(c, k) => handler[c].id = k
    /\ handler[c].pc \in BeforeServing => handler[c].out = "none" /\ seen[c].live = <<>>
    /\ handler[c].pc \in BeforeServing \ {"copied"} => ~seen[c].found

SubscriberInv == \A c \in Conn : SubscriberAt(c)

\* s lists consecutive chunks.  (The distance to the first one, which NoGap
\* derives from neighbours, would need an induction.)
Run(s) == \A i \in 1 .. Len(s) : s[i] = s[1] + (i - 1)

\* What a client has received (l), then what waits for it (q): consecutive
\* chunks that begin no later than right after the replay.
Received(l, q, found, last) ==
    /\ Run(l)
    /\ Run(q)
    /\ l # <<>> /\ q # <<>> => q[1] = l[Len(l)] + 1
    /\ found /\ l # <<>> => l[1] <= last + 1
    /\ found /\ l = <<>> /\ q # <<>> => q[1] <= last + 1

\* For a subscriber they go up to the last chunk of the buffer, n.
UpTo(l, q, found, last, n) ==
    /\ q # <<>> => q[Len(q)] = n
    /\ q = <<>> /\ l # <<>> => l[Len(l)] = n
    /\ found /\ q = <<>> /\ l = <<>> => n <= last

StreamAt(c) ==
    /\ Received(seen[c].live, ch[c].queue, seen[c].found, seen[c].last)
    /\ \A k \in Call : Subscribed(c, k) =>
         UpTo(seen[c].live, ch[c].queue, seen[c].found, seen[c].last, sess[k].buf)
    /\ handler[c].pc \in {"subscribed", "replay"} /\ ch[c].queue # <<>> =>
         ch[c].queue[1] <= sess[handler[c].id].buf

StreamInv == \A c \in Conn : StreamAt(c)

OutputInv == BufferInv /\ SubscriberInv /\ StreamInv

ExecIInv == TypeOK /\ RegistryInv /\ OutputInv /\ NoPanic

-----------------------------------------------------------------------------
(* Runs of consecutive chunks.                                             *)

LEMMA FirstOfSeq ==
  ASSUME NEW S, NEW s \in Seq(S), s # <<>>
  PROVE  s[1] \in S
<1>1. Len(s) \in Nat /\ Len(s) # 0
  BY EmptySeq, LenProperties
<1> QED
  BY <1>1, ElementOfSeq

LEMMA RunAppend ==
  ASSUME NEW S \in SUBSET Nat, NEW s \in Seq(S), NEW n \in S, Run(s), s # <<>> => n = s[Len(s)] + 1
  PROVE  /\ Append(s, n) \in Seq(S) /\ Append(s, n) # <<>> /\ Len(Append(s, n)) = Len(s) + 1
         /\ Run(Append(s, n))
         /\ Append(s, n)[Len(Append(s, n))] = n
         /\ Append(s, n)[1] = IF s = <<>> THEN n ELSE s[1]
<1> DEFINE a == Append(s, n)
<1>1. a \in Seq(S) /\ Len(a) = Len(s) + 1 /\ a[Len(a)] = n /\ a # <<>>
  BY AppendProperties
<1>2. \A k \in 1 .. Len(s) : a[k] = s[k] /\ s[k] \in Nat
  <2>1. \A k \in 1 .. Len(s) : s[k] \in S
    BY ElementOfSeq
  <2>2. \A k \in 1 .. Len(s) : a[k] = s[k]
    BY AppendProperties
  <2> QED
    BY <2>1, <2>2
<1>3. Len(s) \in Nat /\ (s # <<>> => Len(s) >= 1) /\ (s = <<>> => Len(s) = 0)
  BY EmptySeq, LenProperties
<1> HIDE DEF a
<1>4. a[1] = IF s = <<>> THEN n ELSE s[1]
  BY <1>1, <1>2, <1>3
<1>5. Run(a)
  <2> SUFFICES ASSUME NEW i \in 1 .. Len(a) PROVE a[i] = a[1] + (i - 1)
    BY DEF Run
  <2>1. CASE s = <<>>
    BY <1>1, <1>3, <1>4, <2>1
  <2>2. CASE s # <<>> /\ i = Len(a)
    <3>1. s[Len(s)] = s[1] + (Len(s) - 1) /\ s[1] \in Nat
      BY <1>2, <1>3, <2>2 DEF Run
    <3> QED
      BY <1>1, <1>3, <1>4, <2>2, <3>1
  <2>3. CASE s # <<>> /\ i # Len(a)
    BY <1>1, <1>2, <1>3, <1>4, <2>3 DEF Run
  <2> QED
    BY <2>1, <2>2, <2>3
<1> QED
  BY <1>1, <1>4, <1>5 DEF a

LEMMA RunTail ==
  ASSUME NEW S \in SUBSET Nat, NEW s \in Seq(S), Run(s), s # <<>>
  PROVE  /\ Tail(s) \in Seq(S) /\ Len(Tail(s)) = Len(s) - 1
         /\ Head(s) \in S /\ Head(s) = s[1] /\ s[1] <= s[Len(s)]
         /\ Run(Tail(s))
         /\ Tail(s) # <<>> => Tail(s)[1] = Head(s) + 1 /\ Tail(s)[Len(Tail(s))] = s[Len(s)]
         /\ Tail(s) = <<>> => s[Len(s)] = Head(s)
<1> DEFINE r == Tail(s)
<1>1. /\ r \in Seq(S) /\ Len(r) = Len(s) - 1 /\ Head(s) = s[1]
      /\ Len(s) \in Nat /\ Len(s) >= 1 /\ Len(r) \in Nat
  BY HeadTailProperties, EmptySeq, LenProperties
<1>2. \A k \in 1 .. Len(r) : r[k] = s[k + 1]
  BY HeadTailProperties
<1>3. Head(s) \in S /\ s[1] \in Nat
  BY <1>1, HeadTailProperties
<1>4. (r # <<>> => Len(r) >= 1) /\ (r = <<>> => Len(r) = 0)
  <2> HIDE DEF r
  <2> QED
    BY <1>1, EmptySeq
<1> HIDE DEF r
<1>5. \A i \in 1 .. Len(r) : r[i] = s[1] + i
  BY <1>1, <1>2, <1>3 DEF Run
<1>6. Run(r)
  <2> SUFFICES ASSUME NEW i \in 1 .. Len(r) PROVE r[i] = r[1] + (i - 1)
    BY DEF Run
  <2>1. r[i] = s[1] + i /\ r[1] = s[1] + 1
    BY <1>1, <1>5
  <2> QED
    BY <1>1, <1>3, <2>1
<1>7. s[Len(s)] = s[1] + (Len(s) - 1)
  BY <1>1 DEF Run
<1>8. ASSUME r # <<>> PROVE r[1] = Head(s) + 1 /\ r[Len(r)] = s[Len(s)]
  <2>1. 1 \in 1 .. Len(r) /\ Len(r) \in 1 .. Len(r)
    BY <1>1, <1>4, <1>8
  <2>2. r[1] = s[1] + 1 /\ r[Len(r)] = s[1] + Len(r)
    BY <1>5, <2>1
  <2> QED
    BY <1>1, <1>3, <1>7, <2>2
<1>9. ASSUME r = <<>> PROVE s[Len(s)] = Head(s)
  <2>1. Len(r) = 0
    BY <1>4, <1>9
  <2>2. Len(s) = 1
    BY <1>1, <2>1
  <2> QED
    BY <1>1, <2>2
<1>10. s[1] <= s[Len(s)]
  BY <1>1, <1>3, <1>7
<1> QED
  BY <1>1, <1>3, <1>6, <1>8, <1>9, <1>10 DEF r

\* A chunk is sent to a subscriber.
LEMMA StreamSent ==
  ASSUME NEW S \in SUBSET Nat, NEW l \in Seq(S), NEW q \in Seq(S), NEW found, NEW last \in Nat,
         NEW n \in Nat, n + 1 \in S, Received(l, q, found, last), UpTo(l, q, found, last, n)
  PROVE  Received(l, Append(q, n + 1), found, last) /\ UpTo(l, Append(q, n + 1), found, last, n + 1)
<1> DEFINE a == Append(q, n + 1)
<1>1. /\ a # <<>> /\ Run(a) /\ a[Len(a)] = n + 1
      /\ a[1] = IF q = <<>> THEN n + 1 ELSE q[1]
  <2>1. Run(q) /\ (q # <<>> => n + 1 = q[Len(q)] + 1)
    BY DEF Received, UpTo
  <2> QED
    BY <2>1, RunAppend
<1> HIDE DEF a
<1>2. Received(l, a, found, last)
  BY <1>1 DEF Received, UpTo
<1>3. UpTo(l, a, found, last, n + 1)
  BY <1>1 DEF UpTo
<1> QED
  BY <1>2, <1>3 DEF a

\* The output goroutine takes a chunk.
LEMMA StreamTaken ==
  ASSUME NEW S \in SUBSET Nat, NEW l \in Seq(S), NEW q \in Seq(S), NEW found, NEW last \in Nat,
         q # <<>>, Received(l, q, found, last)
  PROVE  /\ Received(Append(l, Head(q)), Tail(q), found, last)
         /\ \A n \in Nat : UpTo(l, q, found, last, n) => UpTo(Append(l, Head(q)), Tail(q), found, last, n)
         /\ Append(l, Head(q)) \in Seq(S) /\ Tail(q) \in Seq(S) /\ Len(Tail(q)) = Len(q) - 1
<1> DEFINE a == Append(l, Head(q))
           r == Tail(q)
           h == Head(q)
<1>1. /\ r \in Seq(S) /\ Len(r) = Len(q) - 1 /\ h \in S /\ h = q[1] /\ Run(r)
      /\ r # <<>> => r[1] = h + 1 /\ r[Len(r)] = q[Len(q)]
      /\ r = <<>> => q[Len(q)] = h
  BY RunTail DEF Received
<1>2. /\ a \in Seq(S) /\ a # <<>> /\ Run(a) /\ a[Len(a)] = h
      /\ a[1] = IF l = <<>> THEN h ELSE l[1]
  <2>1. Run(l) /\ (l # <<>> => h = l[Len(l)] + 1)
    BY <1>1 DEF Received
  <2>2. \A e \in S : (l # <<>> => e = l[Len(l)] + 1) =>
            /\ Append(l, e) \in Seq(S) /\ Append(l, e) # <<>> /\ Run(Append(l, e))
            /\ Append(l, e)[Len(Append(l, e))] = e
            /\ Append(l, e)[1] = IF l = <<>> THEN e ELSE l[1]
    BY <2>1, RunAppend
  <2>3. h \in S
    BY <1>1
  <2> HIDE DEF h
  <2>4. /\ Append(l, h) \in Seq(S) /\ Append(l, h) # <<>> /\ Run(Append(l, h))
        /\ Append(l, h)[Len(Append(l, h))] = h
        /\ Append(l, h)[1] = IF l = <<>> THEN h ELSE l[1]
    BY <2>1, <2>2, <2>3, Zenon
  <2> QED
    BY <2>4 DEF h
<1> HIDE DEF a, r, h
<1>3. Received(a, r, found, last)
  BY <1>1, <1>2 DEF Received
<1>4. ASSUME NEW n \in Nat, UpTo(l, q, found, last, n) PROVE UpTo(a, r, found, last, n)
  BY <1>1, <1>2, <1>4 DEF UpTo
<1> QED
  BY <1>1, <1>2, <1>3, <1>4 DEF a, r, h

-----------------------------------------------------------------------------
(* What a step may leave alone.                                            *)

LEMMA ExecInitial == Init => ExecIInv
<1> SUFFICES ASSUME Init PROVE ExecIInv
  OBVIOUS
<1> USE ExecAssumption
<1>1. /\ \A k \in Call : create[k] \in Create /\ create[k].pc = "idle"
      /\ create \in [Call -> Create]
  BY DEF Init
<1>2. TypeOK
  <2>1. handler \in [Conn -> Handler] /\ ch \in [Conn -> Channel] /\ seen \in [Conn -> Seen]
    BY DEF Init, Handler, HandlerPc, Channel, Seen
  <2>2. exec \in [Call -> Exec] /\ sess \in [Call -> Session] /\ pump \in [Call -> PumpPc]
    BY DEF Init, Exec, Session, PumpPc
  <2>3. teardown \in [Closer \cup Call -> Teardown]
    BY DEF Init, Teardown
  <2>4. \A c \in Conn : Len(ch[c].queue) <= SubscriberBufSize
    BY DEF Init
  <2> QED
    BY <1>1, <2>1, <2>2, <2>3, <2>4 DEF Init, TypeOK
<1>3. RegistryInv
  BY <1>1 DEF Init, RegistryInv, UnregisteredInv, TeardownInv, PumpCloseInv, RegisteredIsServed
<1>4. BufferInv /\ SubscriberInv
  BY <1>1 DEF Init, BufferInv, SubscriberInv, SubscriberAt, Subscribed, BeforeSubscribe, BeforeServing
<1>5. StreamInv
  BY DEF Init, StreamInv, StreamAt, Subscribed, Received, UpTo, Run
<1> QED
  BY <1>2, <1>3, <1>4, <1>5 DEF ExecIInv, OutputInv, NoPanic, Init

\* A step that neither registers a session nor tears one down.
LEMMA RegistryFrame ==
  ASSUME RegistryInv, UNCHANGED <<sessions, byProject, create, teardown>>,
         \A k \in Call : /\ pump'[k] = "ended" <=> pump[k] = "ended"
                         /\ pump'[k] = "none" <=> pump[k] = "none"
                         /\ Connected(exec'[k]) <=> Connected(exec[k])
                         /\ sess'[k].done = sess[k].done,
         sessions \subseteq Call
  PROVE  RegistryInv'
<1>1. UnregisteredInv'
  BY DEF RegistryInv, UnregisteredInv
<1>2. TeardownInv'
  BY DEF RegistryInv, TeardownInv
<1>3. PumpCloseInv'
  BY DEF RegistryInv, PumpCloseInv
<1>4. RegisteredIsServed'
  BY DEF RegistryInv, RegisteredIsServed
<1> QED
  BY <1>1, <1>2, <1>3, <1>4 DEF RegistryInv

\* A step that neither moves a chunk nor changes a subscriber or a handler.
LEMMA OutputFrame ==
  ASSUME OutputInv, UNCHANGED <<handler, ch, seen>>,
         \A k \in Call : /\ exec'[k].read = exec[k].read
                         /\ sess'[k].buf = sess[k].buf
                         /\ sess'[k].subs = sess[k].subs
                         /\ pump'[k] = "write" <=> pump[k] = "write"
  PROVE  OutputInv'
<1>1. BufferInv'
  BY DEF OutputInv, BufferInv
<1>2. SubscriberInv'
  BY DEF OutputInv, SubscriberInv, SubscriberAt, Subscribed
<1>3. StreamInv'
  <2>1. ASSUME NEW c \in Conn, handler[c].pc \in {"subscribed", "replay"} PROVE handler[c].id \in Call
    BY <2>1 DEF OutputInv, SubscriberInv, SubscriberAt
  <2> QED
    BY <2>1 DEF OutputInv, StreamInv, StreamAt, Subscribed
<1> QED
  BY <1>1, <1>2, <1>3 DEF OutputInv

\* A step of one handler that moves no chunk and does not subscribe.
LEMMA HandlerFrame ==
  ASSUME OutputInv, UNCHANGED <<exec, sess, pump, ch, seen>>,
         NEW c \in Conn, NEW h, DOMAIN handler = Conn, handler' = [handler EXCEPT ![c] = h],
         h.pc \in BeforeSubscribe => handler[c].pc \in BeforeSubscribe,
         h.pc \notin {"idle", "returned"} => h.id \in Call,
         h.pc \notin BeforeSubscribe \cup {"returned"} =>
             handler[c].pc \notin BeforeSubscribe \cup {"returned"} /\ h.id = handler[c].id,
         h.pc \in BeforeServing => handler[c].pc \in BeforeServing /\ h.out = "none",
         h.pc \in BeforeServing \ {"copied"} => handler[c].pc \in BeforeServing \ {"copied"},
         h.pc \in {"subscribed", "replay"} => handler[c].pc \in {"subscribed", "replay"}
  PROVE  OutputInv'
<1>0. handler'[c] = h /\ \A d \in Conn \ {c} : handler'[d] = handler[d]
  OBVIOUS
<1>1. BufferInv'
  BY DEF OutputInv, BufferInv
<1>2. SubscriberInv'
  <2> SUFFICES ASSUME NEW d \in Conn PROVE SubscriberAt(d)'
    BY DEF SubscriberInv
  <2>1. CASE d = c
    BY <1>0, <2>1 DEF OutputInv, SubscriberInv, SubscriberAt, Subscribed
  <2>2. CASE d # c
    BY <1>0, <2>2 DEF OutputInv, SubscriberInv, SubscriberAt, Subscribed
  <2> QED
    BY <2>1, <2>2
<1>3. StreamInv'
  <2>1. h.pc \in {"subscribed", "replay"} => h.id = handler[c].id
    BY DEF BeforeSubscribe
  <2> QED
    BY <1>0, <2>1 DEF OutputInv, StreamInv, StreamAt, Subscribed
<1> QED
  BY <1>1, <1>2, <1>3 DEF OutputInv

LEMMA HandlerKeeps ==
  ASSUME ExecIInv, UNCHANGED <<registryVars, create, exec, sess, pump, teardown, ch, seen, panics>>,
         NEW c \in Conn, NEW h \in Handler, handler' = [handler EXCEPT ![c] = h],
         h.pc \in BeforeSubscribe => handler[c].pc \in BeforeSubscribe,
         h.pc \notin {"idle", "returned"} => h.id \in Call,
         h.pc \notin BeforeSubscribe \cup {"returned"} =>
             handler[c].pc \notin BeforeSubscribe \cup {"returned"} /\ h.id = handler[c].id,
         h.pc \in BeforeServing => handler[c].pc \in BeforeServing /\ h.out = "none",
         h.pc \in BeforeServing \ {"copied"} => handler[c].pc \in BeforeServing \ {"copied"},
         h.pc \in {"subscribed", "replay"} => handler[c].pc \in {"subscribed", "replay"}
  PROVE  ExecIInv'
<1>1. TypeOK'
  BY DEF ExecIInv, TypeOK, registryVars
<1>2. RegistryInv'
  BY RegistryFrame DEF ExecIInv, TypeOK, registryVars
<1>3. OutputInv'
  <2>1. DOMAIN handler = Conn /\ OutputInv
    BY DEF ExecIInv, TypeOK
  <2> QED
    BY <2>1, HandlerFrame
<1>4. NoPanic'
  BY DEF ExecIInv, NoPanic
<1> QED
  BY <1>1, <1>2, <1>3, <1>4 DEF ExecIInv

\* The handler's state changes, its place does not.
LEMMA HandlerStays ==
  ASSUME ExecIInv, UNCHANGED <<registryVars, create, exec, sess, pump, teardown, ch, seen, panics>>,
         NEW c \in Conn, NEW h \in Handler, handler' = [handler EXCEPT ![c] = h],
         h.pc = handler[c].pc, h.id = handler[c].id,
         h.out = handler[c].out \/ handler[c].out # "none"
  PROVE  ExecIInv'
<1>1. /\ handler[c].pc \notin {"idle", "returned"} => handler[c].id \in Call
      /\ handler[c].pc \in BeforeServing => handler[c].out = "none"
  BY DEF ExecIInv, OutputInv, SubscriberInv, SubscriberAt
<1> QED
  BY <1>1, HandlerKeeps

-----------------------------------------------------------------------------
(* The steps of HandleTerminalWS.                                          *)

LEMMA ConnectStep ==
  ASSUME ExecIInv, NEW c \in Conn, NEW s \in Call, Connect(c, s)
  PROVE  ExecIInv'
<1>0. handler \in [Conn -> Handler] /\ handler[c] \in Handler /\ handler[c].out = "none"
  BY DEF ExecIInv, TypeOK, OutputInv, SubscriberInv, SubscriberAt, Connect, BeforeServing, BeforeSubscribe
<1>1. CASE s \in sessions
  <2> DEFINE h == [handler[c] EXCEPT !.pc = "upgraded", !.id = s, !.open = TRUE]
  <2>1. h \in Handler /\ h.pc = "upgraded" /\ h.id = s /\ h.out = "none"
    BY <1>0 DEF Handler, HandlerPc
  <2>2. handler' = [handler EXCEPT ![c] = h]
    BY <1>0, <1>1 DEF Connect
  <2> HIDE DEF h
  <2> QED
    BY <2>1, <2>2, HandlerKeeps DEF Connect, BeforeServing, BeforeSubscribe
<1>2. CASE s \notin sessions
  <2>1. Returned \in Handler /\ Returned.pc = "returned"
    BY DEF Handler, HandlerPc, Returned
  <2>2. handler' = [handler EXCEPT ![c] = Returned]
    BY <1>2 DEF Connect
  <2> QED
    BY <2>1, <2>2, HandlerKeeps DEF Connect, BeforeServing, BeforeSubscribe
<1> QED
  BY <1>1, <1>2

LEMMA SubscribeLookupStep ==
  ASSUME ExecIInv, NEW c \in Conn, SubscribeLookup(c)
  PROVE  ExecIInv'
<1>0. /\ handler \in [Conn -> Handler] /\ handler[c] \in Handler /\ handler[c].out = "none"
      /\ handler[c].id \in Call /\ handler[c].pc = "upgraded"
  BY DEF ExecIInv, TypeOK, OutputInv, SubscriberInv, SubscriberAt, SubscribeLookup, BeforeServing, BeforeSubscribe
<1>1. CASE handler[c].id \in sessions
  <2> DEFINE h == [handler[c] EXCEPT !.pc = "found"]
  <2>1. h \in Handler /\ h.pc = "found" /\ h.id = handler[c].id /\ h.out = "none"
    BY <1>0 DEF Handler, HandlerPc
  <2>2. handler' = [handler EXCEPT ![c] = h]
    BY <1>0, <1>1 DEF SubscribeLookup
  <2> HIDE DEF h
  <2> QED
    BY <1>0, <2>1, <2>2, HandlerKeeps DEF SubscribeLookup, BeforeServing, BeforeSubscribe
<1>2. CASE handler[c].id \notin sessions
  <2>1. Returned \in Handler /\ Returned.pc = "returned"
    BY DEF Handler, HandlerPc, Returned
  <2>2. handler' = [handler EXCEPT ![c] = Returned]
    BY <1>2 DEF SubscribeLookup
  <2> QED
    BY <2>1, <2>2, HandlerKeeps DEF SubscribeLookup, BeforeServing, BeforeSubscribe
<1> QED
  BY <1>1, <1>2

LEMMA ReplayLookupStep ==
  ASSUME ExecIInv, NEW c \in Conn, ReplayLookup(c)
  PROVE  ExecIInv'
<1>0. /\ handler \in [Conn -> Handler] /\ handler[c] \in Handler /\ handler[c].out = "none"
      /\ handler[c].id \in Call /\ handler[c].pc = "subscribed"
  BY DEF ExecIInv, TypeOK, OutputInv, SubscriberInv, SubscriberAt, ReplayLookup, BeforeServing, BeforeSubscribe
<1> DEFINE h == [handler[c] EXCEPT !.pc = IF handler[c].id \in sessions THEN "replay" ELSE "copied"]
<1>1. h \in Handler /\ h.pc \in {"replay", "copied"} /\ h.id = handler[c].id /\ h.out = "none"
  BY <1>0 DEF Handler, HandlerPc
<1>2. handler' = [handler EXCEPT ![c] = h]
  BY <1>0 DEF ReplayLookup
<1> HIDE DEF h
<1> QED
  BY <1>0, <1>1, <1>2, HandlerKeeps DEF ReplayLookup, BeforeServing, BeforeSubscribe

LEMMA StartServingStep ==
  ASSUME ExecIInv, NEW c \in Conn, StartServing(c)
  PROVE  ExecIInv'
<1>0. /\ handler \in [Conn -> Handler] /\ handler[c] \in Handler
      /\ handler[c].id \in Call /\ handler[c].pc = "copied"
  BY DEF ExecIInv, TypeOK, OutputInv, SubscriberInv, SubscriberAt, StartServing
<1>1. ASSUME NEW h \in Handler, handler' = [handler EXCEPT ![c] = h],
             h.pc \in {"serving", "unsubscribe"}, h.id = handler[c].id
      PROVE  ExecIInv'
  BY <1>0, <1>1, HandlerKeeps DEF StartServing, BeforeServing, BeforeSubscribe
<1>2. ASSUME handler' = [handler EXCEPT ![c].pc = "serving", ![c].out = "select"] PROVE ExecIInv'
  <2> DEFINE h == [handler[c] EXCEPT !.pc = "serving", !.out = "select"]
  <2>1. h \in Handler /\ h.pc = "serving" /\ h.id = handler[c].id /\ handler' = [handler EXCEPT ![c] = h]
    BY <1>0, <1>2 DEF Handler, HandlerPc
  <2> HIDE DEF h
  <2> QED
    BY <1>1, <2>1
<1>3. ASSUME handler' = [handler EXCEPT ![c].pc = "unsubscribe"] PROVE ExecIInv'
  <2> DEFINE h == [handler[c] EXCEPT !.pc = "unsubscribe"]
  <2>1. h \in Handler /\ h.pc = "unsubscribe" /\ h.id = handler[c].id /\ handler' = [handler EXCEPT ![c] = h]
    BY <1>0, <1>3 DEF Handler, HandlerPc
  <2> HIDE DEF h
  <2> QED
    BY <1>1, <2>1
<1> QED
  BY <1>2, <1>3 DEF StartServing

LEMMA LoopStep ==
  ASSUME ExecIInv, NEW c \in Conn, Message(c) \/ InputTaken(c) \/ InputFails(c) \/ InputEnds(c) \/ WaitOutput(c)
  PROVE  ExecIInv'
<1>0. /\ handler \in [Conn -> Handler] /\ handler[c] \in Handler
      /\ handler[c].id \in Call /\ handler[c].pc \in {"serving", "input", "stopping"}
  BY DEF ExecIInv, TypeOK, OutputInv, SubscriberInv, SubscriberAt,
         Message, InputTaken, InputFails, InputEnds, WaitOutput
<1>1. PICK p \in {"serving", "input", "stopping", "unsubscribe"}, o, i \in BOOLEAN :
        handler' = [handler EXCEPT ![c] = [handler[c] EXCEPT !.pc = p, !.open = o, !.idle = i]]
  <2>1. CASE Message(c)
    <3>1. CASE handler' = [handler EXCEPT ![c].idle = FALSE]
      <4>1. handler' = [handler EXCEPT ![c] = [handler[c] EXCEPT
                          !.pc = "serving", !.open = handler[c].open, !.idle = FALSE]]
        <5>1. handler' = [handler EXCEPT ![c] = [handler[c] EXCEPT !.idle = FALSE]]
          BY <1>0, <3>1
        <5>2. handler[c].pc = "serving"
          BY <2>1 DEF Message
        <5>3. [handler[c] EXCEPT !.idle = FALSE]
                = [handler[c] EXCEPT !.pc = "serving", !.open = handler[c].open, !.idle = FALSE]
          BY <1>0, <5>2 DEF Handler
        <5> QED
          BY <5>1, <5>3
      <4> QED
        BY <1>0, <4>1 DEF Handler
    <3>2. CASE handler' = [handler EXCEPT ![c].pc = "input", ![c].idle = FALSE]
      <4>1. handler' = [handler EXCEPT ![c] = [handler[c] EXCEPT
                          !.pc = "input", !.open = handler[c].open, !.idle = FALSE]]
        BY <1>0, <3>2 DEF Handler
      <4> QED
        BY <1>0, <4>1 DEF Handler
    <3> QED
      BY <2>1, <3>1, <3>2 DEF Message
  <2>2. CASE InputTaken(c) \/ InputFails(c)
    <3>1. handler' = [handler EXCEPT ![c] = [handler[c] EXCEPT
                        !.pc = "serving", !.open = handler[c].open, !.idle = handler[c].idle]]
      BY <1>0, <2>2 DEF InputTaken, InputFails, Handler
    <3> QED
      BY <1>0, <3>1 DEF Handler
  <2>3. CASE InputEnds(c)
    <3>1. handler' = [handler EXCEPT ![c] = [handler[c] EXCEPT
                        !.pc = "stopping", !.open = handler[c].open, !.idle = FALSE]]
      BY <1>0, <2>3 DEF InputEnds, Handler
    <3> QED
      BY <1>0, <3>1 DEF Handler
  <2>4. CASE WaitOutput(c)
    <3>1. handler' = [handler EXCEPT ![c] = [handler[c] EXCEPT
                        !.pc = "unsubscribe", !.open = FALSE, !.idle = handler[c].idle]]
      BY <1>0, <2>4 DEF WaitOutput, Handler
    <3> QED
      BY <1>0, <3>1 DEF Handler
  <2> QED
    BY <2>1, <2>2, <2>3, <2>4
<1> DEFINE h == [handler[c] EXCEPT !.pc = p, !.open = o, !.idle = i]
<1>2. h \in Handler /\ h.pc = p /\ h.id = handler[c].id
  BY <1>0, <1>1 DEF Handler, HandlerPc
<1>3. UNCHANGED <<registryVars, create, exec, sess, pump, teardown, ch, seen, panics>>
  BY DEF Message, InputTaken, InputFails, InputEnds, WaitOutput
<1>4. handler' = [handler EXCEPT ![c] = h]
  BY <1>1
<1> HIDE DEF h
<1> QED
  BY <1>0, <1>1, <1>2, <1>3, <1>4, HandlerKeeps DEF BeforeServing, BeforeSubscribe

LEMMA OutputGoroutineStep ==
  ASSUME ExecIInv, NEW c \in Conn, WriteChunk(c) \/ OutputEnds(c)
  PROVE  ExecIInv'
<1>0. handler \in [Conn -> Handler] /\ handler[c] \in Handler /\ handler[c].out # "none"
  BY DEF ExecIInv, TypeOK, WriteChunk, OutputEnds
<1>1. PICK o \in {"select", "ended"} : handler' = [handler EXCEPT ![c].out = o]
  BY DEF WriteChunk, OutputEnds
<1> DEFINE h == [handler[c] EXCEPT !.out = o]
<1>2. h \in Handler /\ h.pc = handler[c].pc /\ h.id = handler[c].id /\ handler' = [handler EXCEPT ![c] = h]
  BY <1>0, <1>1 DEF Handler
<1>3. UNCHANGED <<registryVars, create, exec, sess, pump, teardown, ch, seen, panics>>
  BY DEF WriteChunk, OutputEnds
<1> HIDE DEF h
<1> QED
  BY <1>0, <1>2, <1>3, HandlerStays

\* The client and the clock.
LEMMA ClientStep ==
  ASSUME ExecIInv, NEW c \in Conn, TimePasses(c) \/ Disconnect(c) \/ Stall(c)
  PROVE  ExecIInv'
<1>0. handler \in [Conn -> Handler] /\ handler[c] \in Handler
  BY DEF ExecIInv, TypeOK
<1>1. PICK o, t, i \in BOOLEAN :
        handler' = [handler EXCEPT ![c] = [handler[c] EXCEPT !.open = o, !.stalled = t, !.idle = i]]
  <2>1. CASE TimePasses(c)
    <3>1. handler' = [handler EXCEPT ![c] = [handler[c] EXCEPT
                        !.open = handler[c].open, !.stalled = handler[c].stalled, !.idle = TRUE]]
      BY <1>0, <2>1 DEF TimePasses, Handler
    <3> QED
      BY <1>0, <3>1 DEF Handler
  <2>2. CASE Disconnect(c)
    <3>1. handler' = [handler EXCEPT ![c] = [handler[c] EXCEPT
                        !.open = FALSE, !.stalled = FALSE, !.idle = FALSE]]
      BY <1>0, <2>2 DEF Disconnect, Handler
    <3> QED
      BY <1>0, <3>1 DEF Handler
  <2>3. CASE Stall(c)
    <3>1. handler' = [handler EXCEPT ![c] = [handler[c] EXCEPT
                        !.open = handler[c].open, !.stalled = TRUE, !.idle = handler[c].idle]]
      BY <1>0, <2>3 DEF Stall, Handler
    <3> QED
      BY <1>0, <3>1 DEF Handler
  <2> QED
    BY <2>1, <2>2, <2>3
<1> DEFINE h == [handler[c] EXCEPT !.open = o, !.stalled = t, !.idle = i]
<1>2. h \in Handler /\ h.pc = handler[c].pc /\ h.id = handler[c].id /\ h.out = handler[c].out
  BY <1>0, <1>1 DEF Handler
<1>3. UNCHANGED <<registryVars, create, exec, sess, pump, teardown, ch, seen, panics>>
  BY DEF TimePasses, Disconnect, Stall
<1>4. handler' = [handler EXCEPT ![c] = h]
  BY <1>1
<1> HIDE DEF h
<1> QED
  BY <1>2, <1>3, <1>4, HandlerStays

\* A connection that a step leaves alone.
LEMMA ConnectionFrame ==
  ASSUME OutputInv, NEW d \in Conn,
         handler'[d] = handler[d], ch'[d] = ch[d], seen'[d] = seen[d],
         \A k \in Call : sess'[k].buf = sess[k].buf /\ (d \in sess'[k].subs <=> d \in sess[k].subs)
  PROVE  SubscriberAt(d)' /\ StreamAt(d)'
<1>0. SubscriberAt(d) /\ StreamAt(d)
  BY DEF OutputInv, SubscriberInv, StreamInv
<1>1. SubscriberAt(d)'
  BY <1>0 DEF SubscriberAt, Subscribed
<1>2. handler[d].pc \in {"subscribed", "replay"} => handler[d].id \in Call
  BY <1>0 DEF SubscriberAt
<1>3. StreamAt(d)'
  BY <1>0, <1>2 DEF StreamAt, Subscribed
<1> QED
  BY <1>1, <1>3

LEMMA SubscribeAddStep ==
  ASSUME ExecIInv, NEW c \in Conn, SubscribeAdd(c)
  PROVE  ExecIInv'
<1>0. TypeOK /\ RegistryInv /\ BufferInv /\ OutputInv /\ ~panics /\ SubscriberAt(c) /\ StreamAt(c)
  BY DEF ExecIInv, OutputInv, SubscriberInv, StreamInv, NoPanic
<1> DEFINE k == handler[c].id
<1>t. /\ handler \in [Conn -> Handler] /\ handler[c] \in Handler /\ handler[c].pc = "found"
      /\ sess \in [Call -> Session] /\ k \in Call /\ sess[k] \in Session
  BY <1>0 DEF TypeOK, SubscribeAdd, SubscriberAt
<1>s. /\ sess'[k].subs = sess[k].subs \cup {c}
      /\ \A j \in Call \ {k} : sess'[j] = sess[j]
      /\ \A j \in Call : sess'[j].buf = sess[j].buf /\ sess'[j].done = sess[j].done
  BY <1>t DEF SubscribeAdd, Session
<1>h. /\ handler'[c].pc = "subscribed" /\ handler'[c].id = k /\ handler'[c].out = handler[c].out
      /\ \A d \in Conn \ {c} : handler'[d] = handler[d]
  BY <1>t DEF SubscribeAdd, Handler
<1>1. TypeOK'
  <2>1. sess' \in [Call -> Session]
    BY <1>t DEF SubscribeAdd, Session
  <2>2. handler' \in [Conn -> Handler]
    BY <1>t DEF SubscribeAdd, Handler, HandlerPc
  <2> QED
    BY <1>0, <2>1, <2>2 DEF TypeOK, SubscribeAdd, registryVars
<1>2. RegistryInv'
  BY <1>0, <1>s, RegistryFrame DEF SubscribeAdd, registryVars, TypeOK
<1>3. BufferInv'
  BY <1>0, <1>s DEF BufferInv, SubscribeAdd
<1>4. ch' = ch /\ seen' = seen
  BY DEF SubscribeAdd
<1>c. /\ ch[c].queue = <<>> /\ ~ch[c].closed /\ seen[c].live = <<>> /\ ~seen[c].found /\ handler[c].out = "none"
      /\ \A j \in Call : ~Subscribed(c, j)
  BY <1>0, <1>t DEF SubscriberAt, BeforeServing, BeforeSubscribe
<1>5. ASSUME NEW d \in Conn PROVE SubscriberAt(d)' /\ StreamAt(d)'
  <2>1. CASE d # c
    <3>1. \A j \in Call : d \in sess'[j].subs <=> d \in sess[j].subs
      BY <1>s, <2>1
    <3> QED
      BY <1>0, <1>4, <1>h, <1>s, <2>1, <3>1, ConnectionFrame
  <2>2. SubscriberAt(c)'
    <3>1. \A j \in Call : c \in sess'[j].subs => j = k
      BY <1>c, <1>s DEF Subscribed
    <3> QED
      BY <1>4, <1>c, <1>h, <1>t, <3>1 DEF SubscriberAt, Subscribed, BeforeSubscribe
  <2>3. StreamAt(c)'
    BY <1>0, <1>4, <1>c, <1>h DEF StreamAt, UpTo, Received
  <2> QED
    BY <2>1, <2>2, <2>3
<1> QED
  BY <1>0, <1>1, <1>2, <1>3, <1>5 DEF ExecIInv, OutputInv, SubscriberInv, StreamInv, NoPanic, SubscribeAdd

LEMMA ReplayCopyStep ==
  ASSUME ExecIInv, NEW c \in Conn, ReplayCopy(c)
  PROVE  ExecIInv'
<1>0. TypeOK /\ RegistryInv /\ BufferInv /\ OutputInv /\ ~panics /\ SubscriberAt(c) /\ StreamAt(c)
  BY DEF ExecIInv, OutputInv, SubscriberInv, StreamInv, NoPanic
<1> DEFINE k == handler[c].id
<1>t. /\ handler \in [Conn -> Handler] /\ handler[c] \in Handler /\ handler[c].pc = "replay"
      /\ sess \in [Call -> Session] /\ k \in Call /\ sess[k] \in Session
      /\ seen \in [Conn -> Seen] /\ seen[c] \in Seen
  BY <1>0 DEF TypeOK, ReplayCopy, SubscriberAt
<1>s. /\ seen'[c].found = TRUE /\ seen'[c].last = sess[k].buf /\ seen'[c].live = seen[c].live
      /\ \A d \in Conn \ {c} : seen'[d] = seen[d]
  BY <1>t DEF ReplayCopy, Seen
<1>h. /\ handler'[c].pc = "copied" /\ handler'[c].id = k /\ handler'[c].out = handler[c].out
      /\ \A d \in Conn \ {c} : handler'[d] = handler[d]
  BY <1>t DEF ReplayCopy, Handler
<1>1. TypeOK'
  <2>1. seen' \in [Conn -> Seen]
    BY <1>t DEF ReplayCopy, Seen, Session
  <2>2. handler' \in [Conn -> Handler]
    BY <1>t DEF ReplayCopy, Handler, HandlerPc
  <2> QED
    BY <1>0, <2>1, <2>2 DEF TypeOK, ReplayCopy, registryVars
<1>2. RegistryInv'
  BY <1>0, RegistryFrame DEF ReplayCopy, registryVars, TypeOK
<1>3. BufferInv'
  BY <1>0 DEF BufferInv, ReplayCopy
<1>4. ch' = ch /\ sess' = sess
  BY DEF ReplayCopy
<1>c. /\ seen[c].live = <<>> /\ handler[c].out = "none" /\ sess[k].buf \in Nat
      /\ \A j \in Call : Subscribed(c, j) => j = k
      /\ ch[c].queue # <<>> => ch[c].queue[1] <= sess[k].buf /\ ch[c].queue[1] \in Nat
  <2>1. ch[c].queue \in Seq(1 .. MaxOutput)
    BY <1>0 DEF TypeOK, Channel
  <2>2. ch[c].queue # <<>> => ch[c].queue[1] \in 1 .. MaxOutput
    BY <2>1, FirstOfSeq
  <2>3. sess[k].buf \in Nat /\ \A n \in 1 .. MaxOutput : n \in Nat
    BY <1>t, ExecAssumption DEF Session
  <2> QED
    BY <1>0, <1>t, <2>2, <2>3 DEF SubscriberAt, StreamAt, BeforeServing, BeforeSubscribe
<1>5. ASSUME NEW d \in Conn PROVE SubscriberAt(d)' /\ StreamAt(d)'
  <2>1. CASE d # c
    BY <1>0, <1>4, <1>h, <1>s, <2>1, ConnectionFrame
  <2>2. SubscriberAt(c)'
    BY <1>0, <1>4, <1>c, <1>h, <1>s, <1>t DEF SubscriberAt, Subscribed, BeforeSubscribe, BeforeServing
  <2>3. StreamAt(c)'
    <3>1. Received(<<>>, ch[c].queue, TRUE, sess[k].buf)
      BY <1>0, <1>c DEF StreamAt, Received
    <3>2. \A j \in Call : Subscribed(c, j) => UpTo(<<>>, ch[c].queue, TRUE, sess[k].buf, sess[j].buf)
      BY <1>0, <1>c DEF StreamAt, UpTo
    <3> QED
      BY ZenonT(40), <1>4, <1>c, <1>h, <1>s, <3>1, <3>2 DEF StreamAt, Subscribed
  <2> QED
    BY <2>1, <2>2, <2>3
<1> QED
  BY <1>0, <1>1, <1>2, <1>3, <1>5 DEF ExecIInv, OutputInv, SubscriberInv, StreamInv, NoPanic, ReplayCopy

LEMMA UnsubscribeLookupStep ==
  ASSUME ExecIInv, NEW c \in Conn, UnsubscribeLookup(c)
  PROVE  ExecIInv'
<1>0. /\ handler \in [Conn -> Handler] /\ handler[c] \in Handler
      /\ handler[c].id \in Call /\ handler[c].pc = "unsubscribe"
  BY DEF ExecIInv, TypeOK, OutputInv, SubscriberInv, SubscriberAt, UnsubscribeLookup
<1> DEFINE h == [handler[c] EXCEPT !.pc = "removing"]
<1>1. h \in Handler /\ h.pc = "removing" /\ h.id = handler[c].id
  BY <1>0 DEF Handler, HandlerPc
<1>2. Returned \in Handler /\ Returned.pc = "returned"
  BY DEF Handler, HandlerPc, Returned
<1>3. handler' = [handler EXCEPT ![c] = h] \/ handler' = [handler EXCEPT ![c] = Returned]
  BY <1>0 DEF UnsubscribeLookup
<1>4. UNCHANGED <<registryVars, create, exec, sess, pump, teardown, ch, seen, panics>>
  BY DEF UnsubscribeLookup
<1> HIDE DEF h
<1> QED
  BY <1>0, <1>1, <1>2, <1>3, <1>4, HandlerKeeps DEF BeforeServing, BeforeSubscribe

LEMMA UnsubscribeStep ==
  ASSUME ExecIInv, NEW c \in Conn, Unsubscribe(c)
  PROVE  ExecIInv'
<1>0. TypeOK /\ RegistryInv /\ BufferInv /\ OutputInv /\ ~panics /\ SubscriberAt(c) /\ StreamAt(c)
  BY DEF ExecIInv, OutputInv, SubscriberInv, StreamInv, NoPanic
<1>t. /\ handler \in [Conn -> Handler] /\ handler[c].pc = "removing"
      /\ sess \in [Call -> Session] /\ handler[c].id \in Call
  BY <1>0 DEF TypeOK, Unsubscribe, SubscriberAt
<1>s. /\ sess' \in [Call -> Session]
      /\ \A j \in Call : /\ sess'[j].buf = sess[j].buf /\ sess'[j].done = sess[j].done
                         /\ sess'[j].subs \subseteq sess[j].subs
                         /\ \A d \in Conn \ {c} : d \in sess'[j].subs <=> d \in sess[j].subs
  BY <1>t DEF Unsubscribe, Session
<1>h. handler'[c] = Returned /\ \A d \in Conn \ {c} : handler'[d] = handler[d]
  BY <1>t DEF Unsubscribe
<1>r. Returned \in Handler /\ Returned.pc = "returned"
  BY DEF Returned, Handler, HandlerPc
<1>1. TypeOK'
  BY <1>0, <1>r, <1>s DEF TypeOK, Unsubscribe, registryVars
<1>2. RegistryInv'
  BY <1>0, <1>s, RegistryFrame DEF Unsubscribe, registryVars, TypeOK
<1>3. BufferInv'
  BY <1>0, <1>s DEF BufferInv, Unsubscribe
<1>4. ch' = ch /\ seen' = seen
  BY DEF Unsubscribe
<1>5. ASSUME NEW d \in Conn PROVE SubscriberAt(d)' /\ StreamAt(d)'
  <2>1. CASE d # c
    BY <1>0, <1>4, <1>h, <1>s, <2>1, ConnectionFrame
  <2>2. SubscriberAt(c)'
    BY <1>0, <1>4, <1>h, <1>r, <1>s DEF SubscriberAt, Subscribed, BeforeSubscribe, BeforeServing
  <2>3. StreamAt(c)'
    BY <1>0, <1>4, <1>h, <1>r, <1>s DEF StreamAt, Subscribed
  <2> QED
    BY <2>1, <2>2, <2>3
<1> QED
  BY <1>0, <1>1, <1>2, <1>3, <1>5 DEF ExecIInv, OutputInv, SubscriberInv, StreamInv, NoPanic, Unsubscribe

LEMMA TakeChunkStep ==
  ASSUME ExecIInv, NEW c \in Conn, TakeChunk(c)
  PROVE  ExecIInv'
<1>0. TypeOK /\ RegistryInv /\ BufferInv /\ OutputInv /\ ~panics /\ SubscriberAt(c) /\ StreamAt(c)
  BY DEF ExecIInv, OutputInv, SubscriberInv, StreamInv, NoPanic
<1> USE ExecAssumption
<1> DEFINE q == ch[c].queue
           l == seen[c].live
           S == 1 .. MaxOutput
<1>t. /\ handler \in [Conn -> Handler] /\ handler[c] \in Handler /\ handler[c].out = "select"
      /\ ch \in [Conn -> Channel] /\ ch[c] \in Channel /\ seen \in [Conn -> Seen] /\ seen[c] \in Seen
      /\ sess \in [Call -> Session]
  BY <1>0 DEF TypeOK, TakeChunk
<1>q. q \in Seq(S) /\ l \in Seq(S) /\ q # <<>> /\ S \in SUBSET Nat /\ seen[c].last \in Nat
      /\ Len(q) <= SubscriberBufSize /\ Len(q) \in Nat
  <2>1. q \in Seq(S) /\ l \in Seq(S) /\ q # <<>> /\ seen[c].last \in 0 .. MaxOutput
    BY <1>t DEF Channel, Seen, TakeChunk
  <2> QED
    BY <1>0, <2>1 DEF TypeOK
<1>n. /\ Received(Append(l, Head(q)), Tail(q), seen[c].found, seen[c].last)
      /\ \A n \in Nat : UpTo(l, q, seen[c].found, seen[c].last, n) =>
                        UpTo(Append(l, Head(q)), Tail(q), seen[c].found, seen[c].last, n)
      /\ Append(l, Head(q)) \in Seq(S) /\ Tail(q) \in Seq(S) /\ Len(Tail(q)) = Len(q) - 1
  <2>1. Received(l, q, seen[c].found, seen[c].last)
    BY <1>0 DEF StreamAt
  <2> HIDE DEF q, l, S
  <2> QED
    BY <1>q, <2>1, StreamTaken
<1>s. /\ seen'[c].live = Append(l, Head(q)) /\ seen'[c].found = seen[c].found /\ seen'[c].last = seen[c].last
      /\ ch'[c].queue = Tail(q) /\ ch'[c].closed = ch[c].closed
      /\ \A d \in Conn \ {c} : seen'[d] = seen[d] /\ ch'[d] = ch[d]
  BY <1>t DEF TakeChunk, Seen, Channel
<1>h. /\ handler'[c].pc = handler[c].pc /\ handler'[c].id = handler[c].id
      /\ \A d \in Conn \ {c} : handler'[d] = handler[d]
  BY <1>t DEF TakeChunk, Handler
<1>p. handler[c].pc \notin BeforeServing
  BY <1>0, <1>t DEF SubscriberAt
<1>1. TypeOK'
  <2>1. seen' \in [Conn -> Seen]
    BY <1>n, <1>t DEF TakeChunk, Seen
  <2>2. handler' \in [Conn -> Handler]
    BY <1>t DEF TakeChunk, Handler
  <2>3. ch' \in [Conn -> Channel]
    BY <1>n, <1>t DEF TakeChunk, Channel
  <2>4. \A d \in Conn : Len(ch'[d].queue) <= SubscriberBufSize
    <3>1. Len(ch'[c].queue) <= SubscriberBufSize
      BY <1>n, <1>q, <1>s
    <3> QED
      BY <1>0, <1>s, <3>1 DEF TypeOK
  <2> QED
    BY <1>0, <2>1, <2>2, <2>3, <2>4 DEF TypeOK, TakeChunk, registryVars
<1>2. RegistryInv'
  BY <1>0, RegistryFrame DEF TakeChunk, registryVars, TypeOK
<1>3. BufferInv'
  BY <1>0 DEF BufferInv, TakeChunk
<1>4. sess' = sess
  BY DEF TakeChunk
<1>5. ASSUME NEW d \in Conn PROVE SubscriberAt(d)' /\ StreamAt(d)'
  <2>1. CASE d # c
    BY <1>0, <1>4, <1>h, <1>s, <2>1, ConnectionFrame
  <2>2. SubscriberAt(c)'
    BY <1>0, <1>4, <1>h, <1>p, <1>s DEF SubscriberAt, Subscribed, BeforeSubscribe, BeforeServing
  <2>3. StreamAt(c)'
    <3>1. \A k \in Call : sess[k].buf \in Nat
      BY <1>t DEF Session
    <3>2. \A k \in Call : Subscribed(c, k) =>
             UpTo(Append(l, Head(q)), Tail(q), seen[c].found, seen[c].last, sess[k].buf)
      BY <1>0, <1>n, <3>1 DEF StreamAt
    <3>3. handler'[c].pc \notin {"subscribed", "replay"}
      BY <1>h, <1>p DEF BeforeServing
    <3> QED
      BY <1>4, <1>n, <1>s, <3>2, <3>3 DEF StreamAt, Subscribed
  <2> QED
    BY <2>1, <2>2, <2>3
<1> QED
  BY <1>0, <1>1, <1>2, <1>3, <1>5 DEF ExecIInv, OutputInv, SubscriberInv, StreamInv, NoPanic, TakeChunk

-----------------------------------------------------------------------------
(* The steps of the exec and of pumpOutput.                                *)

LEMMA ReadStep ==
  ASSUME ExecIInv, NEW k \in Call, ExecExits(k) \/ ReadChunk(k) \/ ReadFails(k)
  PROVE  ExecIInv'
<1>0. TypeOK /\ RegistryInv /\ BufferInv /\ OutputInv /\ ~panics
  BY DEF ExecIInv, OutputInv, NoPanic
<1>t. exec \in [Call -> Exec] /\ exec[k] \in Exec /\ pump \in [Call -> PumpPc] /\ sess \in [Call -> Session]
  BY <1>0 DEF TypeOK
<1>u. UNCHANGED <<sessions, byProject, create, teardown, sess, handler, ch, seen, panics>>
  BY DEF ExecExits, ReadChunk, ReadFails, registryVars
<1>s. /\ exec' \in [Call -> Exec] /\ pump' \in [Call -> PumpPc]
      /\ \A j \in Call : /\ pump'[j] = "ended" <=> pump[j] = "ended"
                         /\ pump'[j] = "none" <=> pump[j] = "none"
                         /\ Connected(exec'[j]) <=> Connected(exec[j])
  <2>1. CASE ExecExits(k)
    BY <1>t, <2>1 DEF ExecExits, Exec, Connected
  <2>2. CASE ReadChunk(k)
    <3>1. exec[k].read + 1 \in 0 .. MaxOutput
      BY <1>t, <2>2, ExecAssumption DEF ReadChunk, Exec
    <3> QED
      BY <1>t, <2>2, <3>1 DEF ReadChunk, Exec, PumpPc, Connected
  <2>3. CASE ReadFails(k)
    BY <1>t, <2>3 DEF ReadFails, PumpPc
  <2> QED
    BY <2>1, <2>2, <2>3
<1>1. TypeOK'
  BY <1>0, <1>s, <1>u DEF TypeOK
<1>2. RegistryInv'
  <2>1. sessions \subseteq Call
    BY <1>0 DEF TypeOK
  <2> QED
    BY <1>0, <1>s, <1>u, <2>1, RegistryFrame
<1>3. BufferInv'
  <2>1. CASE ExecExits(k)
    BY <1>0, <1>t, <2>1 DEF ExecExits, Exec, BufferInv
  <2>2. CASE ReadChunk(k)
    BY <1>0, <1>t, <2>2 DEF ReadChunk, Exec, BufferInv
  <2>3. CASE ReadFails(k)
    BY <1>0, <1>t, <2>3 DEF ReadFails, BufferInv
  <2> QED
    BY <2>1, <2>2, <2>3
<1>4. \A d \in Conn : SubscriberAt(d)' /\ StreamAt(d)'
  BY <1>0, <1>u, ConnectionFrame
<1> QED
  BY <1>0, <1>1, <1>2, <1>3, <1>4, <1>u DEF ExecIInv, OutputInv, SubscriberInv, StreamInv, NoPanic

\* Under the session's mutex a chunk goes to the buffer and to every subscriber.
LEMMA BroadcastStep ==
  ASSUME ExecIInv, NEW k \in Call, WriteAndBroadcast(k)
  PROVE  ExecIInv'
<1>0. TypeOK /\ RegistryInv /\ BufferInv /\ OutputInv /\ ~panics
  BY DEF ExecIInv, OutputInv, NoPanic
<1> USE ExecAssumption
<1> DEFINE S == 1 .. MaxOutput
           n == sess[k].buf
<1>t. /\ exec \in [Call -> Exec] /\ exec[k] \in Exec /\ pump \in [Call -> PumpPc]
      /\ sess \in [Call -> Session] /\ sess[k] \in Session /\ ch \in [Conn -> Channel] /\ seen \in [Conn -> Seen]
  BY <1>0 DEF TypeOK
<1>n. n \in Nat /\ exec[k].read = n + 1 /\ n + 1 \in S /\ n + 1 \in 0 .. MaxOutput /\ S \in SUBSET Nat
  <2>1. n \in Nat /\ exec[k].read \in 0 .. MaxOutput
    BY <1>t DEF Session, Exec
  <2>2. exec[k].read = n + 1
    BY <1>0 DEF BufferInv, WriteAndBroadcast
  <2> QED
    BY <2>1, <2>2
<1>u. UNCHANGED <<sessions, byProject, create, exec, teardown, handler, seen>>
  BY DEF WriteAndBroadcast, registryVars
<1>s. /\ sess' \in [Call -> Session]
      /\ sess'[k].buf = n + 1 /\ sess'[k].subs = {c \in sess[k].subs : ~Full(c)} /\ sess'[k].done = sess[k].done
      /\ \A j \in Call \ {k} : sess'[j] = sess[j]
  BY <1>n, <1>t DEF WriteAndBroadcast, Session
<1>p. /\ pump' \in [Call -> PumpPc] /\ pump'[k] = "read" /\ pump[k] = "write"
      /\ \A j \in Call \ {k} : pump'[j] = pump[j]
  BY <1>t DEF WriteAndBroadcast, PumpPc
<1>c. ASSUME NEW d \in Conn
      PROVE  /\ ch[d] \in Channel /\ ch[d].queue \in Seq(S) /\ Len(ch[d].queue) \in Nat
             /\ Len(ch[d].queue) <= SubscriberBufSize
             /\ seen[d].live \in Seq(S) /\ seen[d].last \in Nat
             /\ SubscriberAt(d) /\ StreamAt(d)
  <2>1. ch[d].queue \in Seq(S) /\ seen[d].live \in Seq(S) /\ seen[d].last \in 0 .. MaxOutput
    BY <1>t DEF Channel, Seen
  <2> QED
    BY <1>0, <1>t, <2>1 DEF TypeOK, OutputInv, SubscriberInv, StreamInv
<1>a. ASSUME NEW d \in Conn, d \notin sess[k].subs PROVE ch'[d] = ch[d]
  BY <1>a DEF WriteAndBroadcast, Sent
<1>b. ASSUME NEW d \in Conn, d \in sess[k].subs, Full(d)
      PROVE  ch'[d].queue = ch[d].queue /\ ch'[d] \in Channel
  BY <1>b, <1>c DEF WriteAndBroadcast, Sent, Channel
<1>d. ASSUME NEW d \in Conn, d \in sess[k].subs, ~Full(d)
      PROVE  /\ ch'[d].queue = Append(ch[d].queue, n + 1) /\ ch'[d].closed = ch[d].closed /\ ch'[d] \in Channel
             /\ Len(ch'[d].queue) <= SubscriberBufSize
  <2>1. ch'[d] = [ch[d] EXCEPT !.queue = Append(ch[d].queue, n + 1)]
    BY <1>d, <1>n DEF WriteAndBroadcast, Sent
  <2>2. Append(ch[d].queue, n + 1) \in Seq(S) /\ Len(Append(ch[d].queue, n + 1)) = Len(ch[d].queue) + 1
    BY <1>c, <1>n, AppendProperties
  <2>3. Len(ch[d].queue) + 1 <= SubscriberBufSize
    BY <1>c, <1>d DEF Full
  <2> QED
    BY <1>c, <2>1, <2>2, <2>3 DEF Channel
<1>1. TypeOK'
  <2>1. \A d \in Conn : ch'[d] \in Channel /\ Len(ch'[d].queue) <= SubscriberBufSize
    BY <1>a, <1>b, <1>c, <1>d
  <2>2. ch' \in [Conn -> Channel]
    <3>1. DOMAIN ch' = Conn /\ ch' = [d \in Conn |-> ch'[d]]
      BY DEF WriteAndBroadcast, Sent
    <3> QED
      BY <2>1, <3>1
  <2>3. panics' \in BOOLEAN
    BY DEF WriteAndBroadcast
  <2> QED
    BY <1>0, <1>p, <1>s, <1>u, <2>1, <2>2, <2>3 DEF TypeOK
<1>2. RegistryInv'
  <2>1. sessions \subseteq Call
    BY <1>0 DEF TypeOK
  <2>2. \A j \in Call : /\ pump'[j] = "ended" <=> pump[j] = "ended"
                        /\ pump'[j] = "none" <=> pump[j] = "none"
                        /\ Connected(exec'[j]) <=> Connected(exec[j])
                        /\ sess'[j].done = sess[j].done
    BY <1>p, <1>s, <1>u
  <2> QED
    BY <1>0, <1>u, <2>1, <2>2, RegistryFrame
<1>3. BufferInv'
  BY <1>0, <1>n, <1>p, <1>s, <1>u DEF BufferInv
<1>4. NoPanic'
  <2>1. \A d \in sess[k].subs : ~ch[d].closed
    <3>1. sess[k].subs \subseteq Conn
      BY <1>t DEF Session
    <3> QED
      BY <1>c, <3>1 DEF SubscriberAt, Subscribed
  <2> QED
    BY <1>0, <2>1 DEF WriteAndBroadcast, NoPanic
<1>5. ASSUME NEW d \in Conn PROVE SubscriberAt(d)' /\ StreamAt(d)'
  <2>0. /\ SubscriberAt(d) /\ StreamAt(d) /\ handler'[d] = handler[d] /\ seen'[d] = seen[d]
        /\ handler[d].pc \in {"subscribed", "replay"} => handler[d].id \in Call
    BY <1>c, <1>u DEF SubscriberAt
  <2>m. \A j \in Call : sess[j].buf \in Nat /\ sess'[j].buf \in Nat /\ sess[j].buf <= sess'[j].buf
    <3>1. \A j \in Call : sess[j].buf \in Nat
      BY <1>t DEF Session
    <3> QED
      BY <1>n, <1>s, <3>1
  <2>i. ch[d].queue # <<>> => ch[d].queue[1] \in Nat
    <3>1. ch[d].queue \in Seq(S) /\ \A i \in S : i \in Nat
      BY <1>c
    <3> HIDE DEF S
    <3> QED
      BY <3>1, FirstOfSeq
  <2>o. ASSUME handler[d].pc \in {"subscribed", "replay"}, ch[d].queue # <<>>
        PROVE  ch[d].queue[1] <= sess'[handler[d].id].buf
    <3>1. ch[d].queue[1] <= sess[handler[d].id].buf
      BY <2>0, <2>o DEF StreamAt
    <3>2. /\ sess[handler[d].id].buf \in Nat /\ sess'[handler[d].id].buf \in Nat
          /\ sess[handler[d].id].buf <= sess'[handler[d].id].buf
      BY <2>0, <2>m, <2>o
    <3> QED
      BY <2>i, <2>o, <3>1, <3>2
  <2>1. CASE d \notin sess[k].subs
    <3>1. \A j \in Call : d \in sess'[j].subs <=> d \in sess[j].subs
      BY <1>s, <2>1
    <3>2. SubscriberAt(d)'
      BY <1>a, <2>0, <2>1, <3>1 DEF SubscriberAt, Subscribed
    <3>3. \A j \in Call : d \in sess[j].subs => sess'[j].buf = sess[j].buf
      BY <1>s, <2>1
    <3> QED
      BY <1>a, <2>0, <2>o, <2>1, <3>1, <3>2, <3>3 DEF StreamAt, Subscribed
  <2>2. CASE d \in sess[k].subs /\ Full(d)
    <3>1. ch'[d].queue = ch[d].queue
      BY <1>b, <2>2
    <3>2. \A j \in Call : d \notin sess'[j].subs
      BY <1>s, <2>0, <2>2 DEF SubscriberAt, Subscribed
    <3>3. SubscriberAt(d)'
      BY <2>0, <2>2, <3>1, <3>2 DEF SubscriberAt, Subscribed
    <3> QED
      BY <2>0, <2>o, <3>1, <3>2, <3>3 DEF StreamAt, Subscribed
  <2>3. CASE d \in sess[k].subs /\ ~Full(d)
    <3> DEFINE q == ch[d].queue
               a == Append(q, n + 1)
    <3>1. ch'[d].queue = a /\ ch'[d].closed = ch[d].closed
      BY <1>d, <2>3
    <3>2. \A j \in Call : d \in sess'[j].subs <=> j = k
      BY <1>s, <2>0, <2>3 DEF SubscriberAt, Subscribed
    <3>3. handler[d].pc \notin BeforeSubscribe
      BY <2>0, <2>3 DEF SubscriberAt, Subscribed
    <3>4. SubscriberAt(d)'
      BY <2>0, <2>3, <3>1, <3>2, <3>3 DEF SubscriberAt, Subscribed
    <3>5. /\ Received(seen[d].live, a, seen[d].found, seen[d].last)
          /\ UpTo(seen[d].live, a, seen[d].found, seen[d].last, n + 1)
      <4>1. /\ Received(seen[d].live, q, seen[d].found, seen[d].last)
            /\ UpTo(seen[d].live, q, seen[d].found, seen[d].last, n)
        BY <2>0, <2>3 DEF StreamAt, Subscribed
      <4>2. seen[d].live \in Seq(S) /\ q \in Seq(S) /\ seen[d].last \in Nat
        BY <1>c
      <4> HIDE DEF S, q, n
      <4> QED
        BY <1>n, <4>1, <4>2, StreamSent
    <3>6. a[1] = IF q = <<>> THEN n + 1 ELSE q[1]
      <4>1. q \in Seq(S) /\ Len(q) \in Nat
        BY <1>c
      <4> HIDE DEF S, q, n
      <4>2. q # <<>> => Len(q) >= 1
        BY <4>1, EmptySeq
      <4>3. q = <<>> => Len(q) = 0
        BY EmptySeq
      <4> QED
        BY <1>n, <4>1, <4>2, <4>3, AppendProperties
    <3>7. handler[d].pc \in {"subscribed", "replay"} => a[1] <= n + 1 /\ handler[d].id = k
      <4>1. handler[d].pc \in {"subscribed", "replay"} => handler[d].id = k
        BY <2>0, <2>3 DEF SubscriberAt, Subscribed, BeforeSubscribe
      <4>2. handler[d].pc \in {"subscribed", "replay"} /\ q # <<>> => q[1] <= n
        BY <2>0, <4>1 DEF StreamAt
      <4> HIDE DEF a
      <4> QED
        BY <1>n, <2>i, <3>6, <4>1, <4>2
    <3> HIDE DEF a
    <3>8. StreamAt(d)'
      BY <1>s, <2>0, <3>1, <3>2, <3>5, <3>7 DEF StreamAt, Subscribed
    <3> QED
      BY <3>4, <3>8
  <2> QED
    BY <2>1, <2>2, <2>3
<1> QED
  BY <1>1, <1>2, <1>3, <1>4, <1>5 DEF ExecIInv, OutputInv, SubscriberInv, StreamInv

-----------------------------------------------------------------------------
(* The steps of CreateSession.                                             *)

LEMMA CheckExistingStep ==
  ASSUME ExecIInv, NEW k \in Call, CheckExisting(k)
  PROVE  ExecIInv'
<1>0. TypeOK /\ RegistryInv /\ OutputInv /\ ~panics
  BY DEF ExecIInv, NoPanic
<1>t. create \in [Call -> Create] /\ create[k] \in Create /\ create[k].pc = "idle"
  BY <1>0 DEF TypeOK, CheckExisting
<1>u. UNCHANGED <<sessions, byProject, exec, sess, pump, teardown, handler, ch, seen, panics>>
  BY DEF CheckExisting, registryVars
<1>s. /\ create' \in [Call -> Create]
      /\ create'[k].pc \in {"returned", "exec"} /\ create'[k].project = create[k].project
      /\ \A j \in Call \ {k} : create'[j] = create[j]
  <2>1. byProject[create[k].project] \subseteq Call
    BY <1>0, <1>t DEF TypeOK, Create
  <2> QED
    BY <1>t, <2>1 DEF CheckExisting, Create
<1>1. TypeOK'
  BY <1>0, <1>s, <1>u DEF TypeOK
<1>2. RegistryInv'
  <2>1. UnregisteredInv'
    BY <1>0, <1>s, <1>t, <1>u DEF RegistryInv, UnregisteredInv
  <2>2. TeardownInv' /\ PumpCloseInv'
    BY <1>0, <1>u DEF RegistryInv, TeardownInv, PumpCloseInv
  <2>3. RegisteredIsServed'
    <3>1. \A j \in Call : create'[j].project = create[j].project
      BY <1>s
    <3> QED
      BY <1>0, <1>u, <3>1 DEF RegistryInv, RegisteredIsServed, TypeOK
  <2> QED
    BY <2>1, <2>2, <2>3 DEF RegistryInv
<1>3. OutputInv'
  BY <1>0, <1>u, OutputFrame
<1> QED
  BY <1>0, <1>1, <1>2, <1>3, <1>u DEF ExecIInv, NoPanic

LEMMA ExecAttachStep ==
  ASSUME ExecIInv, NEW k \in Call, ExecAttach(k)
  PROVE  ExecIInv'
<1>0. TypeOK /\ RegistryInv /\ OutputInv /\ ~panics
  BY DEF ExecIInv, NoPanic
<1>t. /\ create \in [Call -> Create] /\ create[k] \in Create /\ create[k].pc = "exec"
      /\ exec \in [Call -> Exec] /\ exec[k] \in Exec
  BY <1>0 DEF TypeOK, ExecAttach
<1>u. UNCHANGED <<sessions, byProject, sess, pump, teardown, handler, ch, seen, panics>>
  BY DEF ExecAttach, registryVars
<1>s. /\ create' \in [Call -> Create]
      /\ create'[k].pc = "returned" \/ (create'[k].pc = "attached" /\ Connected(exec'[k]))
      /\ create'[k].project = create[k].project
      /\ \A j \in Call \ {k} : create'[j] = create[j] /\ exec'[j] = exec[j]
      /\ exec' \in [Call -> Exec] /\ \A j \in Call : exec'[j].read = exec[j].read
  <2>1. CASE exec' = exec /\ create' = [create EXCEPT ![k].pc = "returned"]
    BY <1>t, <2>1 DEF Create
  <2>2. CASE /\ exec' = [exec EXCEPT ![k].state = "running"]
             /\ create' = [create EXCEPT ![k].pc = "attached"]
    <3>1. /\ create' \in [Call -> Create] /\ create'[k].pc = "attached"
          /\ create'[k].project = create[k].project /\ \A j \in Call \ {k} : create'[j] = create[j]
      BY <1>t, <2>2 DEF Create
    <3>2. /\ exec' \in [Call -> Exec] /\ Connected(exec'[k]) /\ exec'[k].read = exec[k].read
          /\ \A j \in Call \ {k} : exec'[j] = exec[j]
      BY <1>t, <2>2 DEF Exec, Connected
    <3> QED
      BY <3>1, <3>2
  <2> QED
    BY <2>1, <2>2 DEF ExecAttach
<1>1. TypeOK'
  BY <1>0, <1>s, <1>u DEF TypeOK
<1>2. RegistryInv'
  <2>0. k \notin sessions
    BY <1>0, <1>t DEF RegistryInv, UnregisteredInv
  <2>1. UnregisteredInv'
    BY <1>0, <1>s, <1>t, <1>u DEF RegistryInv, UnregisteredInv
  <2>2. TeardownInv' /\ PumpCloseInv'
    BY <1>0, <1>u DEF RegistryInv, TeardownInv, PumpCloseInv
  <2>3. RegisteredIsServed'
    <3>1. \A j \in Call : create'[j].project = create[j].project
      BY <1>s
    <3>2. \A j \in sessions : exec'[j] = exec[j]
      BY <1>0, <1>s, <2>0 DEF TypeOK
    <3> QED
      BY <1>0, <1>u, <3>1, <3>2 DEF RegistryInv, RegisteredIsServed, TypeOK
  <2> QED
    BY <2>1, <2>2, <2>3 DEF RegistryInv
<1>3. OutputInv'
  BY <1>0, <1>s, <1>u, OutputFrame
<1> QED
  BY <1>0, <1>1, <1>2, <1>3, <1>u DEF ExecIInv, NoPanic

LEMMA RegisterStep ==
  ASSUME ExecIInv, NEW k \in Call, Register(k)
  PROVE  ExecIInv'
<1>0. TypeOK /\ RegistryInv /\ OutputInv /\ ~panics
  BY DEF ExecIInv, NoPanic
<1>t. /\ create \in [Call -> Create] /\ create[k] \in Create /\ create[k].pc = "attached"
      /\ byProject \in [Project -> SUBSET Call] /\ sessions \subseteq Call /\ create[k].project \in Project
      /\ pump \in [Call -> PumpPc]
  BY <1>0 DEF TypeOK, Register, Create
<1>u. UNCHANGED <<exec, sess, teardown, handler, ch, seen, panics>>
  BY DEF Register
<1>s. /\ create' \in [Call -> Create] /\ create'[k].pc = "returned"
      /\ \A j \in Call : create'[j].project = create[j].project
      /\ \A j \in Call \ {k} : create'[j] = create[j] /\ pump'[j] = pump[j]
      /\ pump' \in [Call -> PumpPc] /\ pump'[k] = "read"
      /\ sessions' = sessions \cup {k}
      /\ byProject' = [byProject EXCEPT ![create[k].project] = @ \cup {k}]
  <2>1. /\ create' \in [Call -> Create] /\ create'[k].pc = "returned"
        /\ create'[k].project = create[k].project /\ \A j \in Call \ {k} : create'[j] = create[j]
    BY <1>t DEF Register, Create
  <2>2. pump' \in [Call -> PumpPc] /\ pump'[k] = "read" /\ \A j \in Call \ {k} : pump'[j] = pump[j]
    BY <1>t DEF Register, PumpPc
  <2> QED
    BY <2>1, <2>2 DEF Register
<1>n. /\ k \notin sessions /\ ~sess[k].done /\ pump[k] = "none" /\ Connected(exec[k])
      /\ \A x \in Closer \cup Call : teardown[x].pc \in {"conn", "subs"} => teardown[x].id # k
  BY <1>0, <1>t DEF RegistryInv, UnregisteredInv
<1>1. TypeOK'
  BY <1>0, <1>s, <1>t, <1>u DEF TypeOK
<1>2. RegistryInv'
  <2>1. UnregisteredInv'
    BY <1>0, <1>s, <1>t, <1>u DEF RegistryInv, UnregisteredInv
  <2>2. TeardownInv'
    BY <1>0, <1>n, <1>s, <1>u DEF RegistryInv, TeardownInv
  <2>3. PumpCloseInv'
    BY <1>0, <1>n, <1>s, <1>u DEF RegistryInv, PumpCloseInv
  <2>4. RegisteredIsServed'
    <3>1. ASSUME NEW p \in Project PROVE byProject'[p] = {s \in sessions' : create'[s].project = p}
      <4>1. byProject[p] = {s \in sessions : create[s].project = p}
        BY <1>0 DEF RegistryInv, RegisteredIsServed
      <4>2. byProject'[p] = IF p = create[k].project THEN byProject[p] \cup {k} ELSE byProject[p]
        BY <1>s, <1>t
      <4> QED
        BY <1>s, <1>t, <4>1, <4>2
    <3>2. \A s \in sessions' : ~sess'[s].done /\ Connected(exec'[s]) /\ (pump'[s] = "ended" => teardown'[s].pc = "next")
      BY <1>0, <1>n, <1>s, <1>t, <1>u DEF RegistryInv, RegisteredIsServed
    <3> QED
      BY <3>1, <3>2 DEF RegisteredIsServed
  <2> QED
    BY <2>1, <2>2, <2>3, <2>4 DEF RegistryInv
<1>3. OutputInv'
  <2>1. \A j \in Call : pump'[j] = "write" <=> pump[j] = "write"
    BY <1>n, <1>s
  <2> QED
    BY <1>0, <1>u, <2>1, OutputFrame
<1> QED
  BY <1>0, <1>1, <1>2, <1>3, <1>u DEF ExecIInv, NoPanic

-----------------------------------------------------------------------------
(* The steps of CloseSession.                                              *)

LEMMA PumpClosesStep ==
  ASSUME ExecIInv, NEW k \in Call, PumpCloses(k)
  PROVE  ExecIInv'
<1>0. TypeOK /\ RegistryInv /\ OutputInv /\ ~panics
  BY DEF ExecIInv, NoPanic
<1>t. /\ teardown \in [Closer \cup Call -> Teardown] /\ pump \in [Call -> PumpPc] /\ pump[k] = "close"
      /\ sessions \subseteq Call
  BY <1>0 DEF TypeOK, PumpCloses
<1>u. UNCHANGED <<sessions, byProject, create, exec, sess, handler, ch, seen, panics>>
  BY DEF PumpCloses, registryVars
<1>s. /\ teardown' \in [Closer \cup Call -> Teardown]
      /\ teardown'[k].pc = "next" /\ teardown'[k].ids = {k}
      /\ \A x \in (Closer \cup Call) \ {k} : teardown'[x] = teardown[x]
      /\ pump' \in [Call -> PumpPc] /\ pump'[k] = "ended"
      /\ \A j \in Call \ {k} : pump'[j] = pump[j]
  BY <1>t DEF PumpCloses, Teardown, PumpPc
<1>1. TypeOK'
  BY <1>0, <1>s, <1>u DEF TypeOK
<1>2. RegistryInv'
  <2>1. UnregisteredInv'
    BY <1>0, <1>s, <1>t, <1>u DEF RegistryInv, UnregisteredInv
  <2>2. TeardownInv'
    <3>1. \A x \in Closer \cup Call : teardown'[x].pc \in {"conn", "subs"} => teardown'[x] = teardown[x]
      BY <1>s
    <3> QED
      BY <1>0, <1>u, <3>1 DEF RegistryInv, TeardownInv
  <2>3. PumpCloseInv'
    BY ZenonT(40), <1>0, <1>s DEF RegistryInv, PumpCloseInv
  <2>4. RegisteredIsServed'
    BY <1>0, <1>s, <1>t, <1>u DEF RegistryInv, RegisteredIsServed
  <2> QED
    BY <2>1, <2>2, <2>3, <2>4 DEF RegistryInv
<1>3. OutputInv'
  <2>1. \A j \in Call : pump'[j] = "write" <=> pump[j] = "write"
    BY <1>s, <1>t
  <2> QED
    BY <1>0, <1>u, <2>1, OutputFrame
<1> QED
  BY <1>0, <1>1, <1>2, <1>3, <1>u DEF ExecIInv, NoPanic

LEMMA SnapshotStep ==
  ASSUME ExecIInv, NEW x \in Closer, NEW ids \in SUBSET Call, Snapshot(x, ids)
  PROVE  ExecIInv'
<1>0. TypeOK /\ RegistryInv /\ OutputInv /\ ~panics
  BY DEF ExecIInv, NoPanic
<1>t. teardown \in [Closer \cup Call -> Teardown] /\ x \notin Call /\ sessions \subseteq Call
  BY <1>0, ExecAssumption DEF TypeOK
<1>u. UNCHANGED <<sessions, byProject, create, exec, sess, pump, handler, ch, seen, panics>>
  BY DEF Snapshot, registryVars
<1>s. /\ teardown' \in [Closer \cup Call -> Teardown] /\ teardown'[x].pc = "next"
      /\ \A y \in (Closer \cup Call) \ {x} : teardown'[y] = teardown[y]
  BY <1>t DEF Snapshot, Teardown
<1>1. TypeOK'
  BY <1>0, <1>s, <1>u DEF TypeOK
<1>2. RegistryInv'
  <2>0. \A y \in Closer \cup Call : teardown'[y].pc \in {"conn", "subs"} => teardown'[y] = teardown[y]
    BY <1>s
  <2>1. UnregisteredInv'
    BY <1>0, <1>u, <2>0 DEF RegistryInv, UnregisteredInv
  <2>2. TeardownInv'
    BY <1>0, <1>u, <2>0 DEF RegistryInv, TeardownInv
  <2>3. PumpCloseInv'
    BY <1>0, <1>s, <1>t, <1>u DEF RegistryInv, PumpCloseInv
  <2>4. RegisteredIsServed'
    BY <1>0, <1>s, <1>t, <1>u DEF RegistryInv, RegisteredIsServed
  <2> QED
    BY <2>1, <2>2, <2>3, <2>4 DEF RegistryInv
<1>3. OutputInv'
  BY <1>0, <1>u, OutputFrame
<1> QED
  BY <1>0, <1>1, <1>2, <1>3, <1>u DEF ExecIInv, NoPanic

LEMMA UnregisterStep ==
  ASSUME ExecIInv, NEW x \in Closer \cup Call, NEW s \in Call, Unregister(x, s)
  PROVE  ExecIInv'
<1>0. TypeOK /\ RegistryInv /\ OutputInv /\ ~panics
  BY DEF ExecIInv, NoPanic
<1>t. /\ teardown \in [Closer \cup Call -> Teardown] /\ teardown[x] \in Teardown /\ sessions \subseteq Call
      /\ teardown[x].pc = "next" /\ s \in teardown[x].ids /\ byProject \in [Project -> SUBSET Call]
  BY <1>0 DEF TypeOK, Unregister
<1>u. UNCHANGED <<create, exec, sess, pump, handler, ch, seen, panics>>
  BY DEF Unregister
<1>s. /\ teardown'[x].ids = teardown[x].ids \ {s}
      /\ IF s \in sessions THEN teardown'[x].pc = "conn" /\ teardown'[x].id = s
                           ELSE teardown'[x].pc = After(teardown[x].ids \ {s})
      /\ \A y \in (Closer \cup Call) \ {x} : teardown'[y] = teardown[y]
      /\ sessions' = sessions \ {s}
      /\ byProject' = [p \in Project |-> byProject[p] \ {s}]
  BY <1>t DEF Unregister
<1>a. After(teardown[x].ids \ {s}) \in {"idle", "next"}
  BY DEF After
<1>p. x \in Call => s = x /\ pump[x] = "ended" /\ teardown[x].ids = {x}
  BY <1>0, <1>t DEF RegistryInv, PumpCloseInv
<1>1. TypeOK'
  <2>1. teardown' \in [Closer \cup Call -> Teardown]
    BY <1>a, <1>t DEF Unregister, Teardown
  <2> QED
    BY <1>0, <1>s, <1>t, <1>u, <2>1 DEF TypeOK
<1>2. RegistryInv'
  <2>0. \A y \in Closer \cup Call : teardown'[y].pc \in {"conn", "subs"} =>
            \/ y # x /\ teardown'[y] = teardown[y]
            \/ y = x /\ s \in sessions /\ teardown'[x].pc = "conn" /\ teardown'[x].id = s
    BY <1>a, <1>s
  <2>1. UnregisteredInv'
    BY <1>0, <1>s, <1>u, <2>0 DEF RegistryInv, UnregisteredInv
  <2>2. TeardownInv'
    <3>1. s \in sessions => ~sess[s].done
      BY <1>0 DEF RegistryInv, RegisteredIsServed
    <3>2. \A y \in Closer \cup Call : teardown[y].pc \in {"conn", "subs"} => teardown[y].id \notin sessions
      BY <1>0 DEF RegistryInv, TeardownInv
    <3> QED
      BY <1>0, <1>s, <1>u, <2>0, <3>1, <3>2 DEF RegistryInv, TeardownInv
  <2>3. PumpCloseInv'
    <3>1. x \in Call => teardown'[x].ids = {} /\ teardown'[x].pc # "next"
      BY <1>p, <1>s DEF After
    <3> QED
      BY <1>0, <1>p, <1>s, <1>u, <3>1 DEF RegistryInv, PumpCloseInv
  <2>4. RegisteredIsServed'
    <3>1. ASSUME NEW p \in Project PROVE byProject'[p] = {j \in sessions' : create'[j].project = p}
      <4>1. byProject[p] = {j \in sessions : create[j].project = p}
        BY <1>0 DEF RegistryInv, RegisteredIsServed
      <4> QED
        BY <1>s, <1>u, <4>1
    <3>2. \A j \in sessions' : ~sess'[j].done /\ Connected(exec'[j]) /\ (pump'[j] = "ended" => teardown'[j].pc = "next")
      BY <1>0, <1>p, <1>s, <1>t, <1>u DEF RegistryInv, RegisteredIsServed
    <3> QED
      BY <3>1, <3>2 DEF RegisteredIsServed
  <2> QED
    BY <2>1, <2>2, <2>3, <2>4 DEF RegistryInv
<1>3. OutputInv'
  BY <1>0, <1>u, OutputFrame
<1> QED
  BY <1>0, <1>1, <1>2, <1>3, <1>u DEF ExecIInv, NoPanic

LEMMA CloseConnStep ==
  ASSUME ExecIInv, NEW x \in Closer \cup Call, CloseConn(x)
  PROVE  ExecIInv'
<1>0. TypeOK /\ RegistryInv /\ OutputInv /\ ~panics
  BY DEF ExecIInv, NoPanic
<1> DEFINE s == teardown[x].id
<1>t. /\ teardown \in [Closer \cup Call -> Teardown] /\ teardown[x] \in Teardown /\ sessions \subseteq Call
      /\ teardown[x].pc = "conn" /\ sess \in [Call -> Session] /\ exec \in [Call -> Exec]
  BY <1>0 DEF TypeOK, CloseConn
<1>o. s \in Call /\ s \notin sessions /\ ~sess[s].done
  BY <1>0, <1>t DEF RegistryInv, TeardownInv
<1>u. UNCHANGED <<sessions, byProject, create, pump, handler, ch, seen>>
  BY DEF CloseConn, registryVars
<1>s. /\ sess' \in [Call -> Session] /\ exec' \in [Call -> Exec]
      /\ \A j \in Call \ {s} : sess'[j] = sess[j] /\ exec'[j] = exec[j]
      /\ \A j \in Call : sess'[j].buf = sess[j].buf /\ sess'[j].subs = sess[j].subs /\ exec'[j].read = exec[j].read
  <2>1. sess' \in [Call -> Session] /\ exec' \in [Call -> Exec]
    BY ZenonT(40), <1>o, <1>t DEF CloseConn, Session, Exec
  <2>2. \A j \in Call \ {s} : sess'[j] = sess[j] /\ exec'[j] = exec[j]
    BY <1>o, <1>t DEF CloseConn
  <2>3. sess'[s].buf = sess[s].buf /\ sess'[s].subs = sess[s].subs /\ exec'[s].read = exec[s].read
    BY <1>o, <1>t DEF CloseConn, Session, Exec
  <2> QED
    BY <2>1, <2>2, <2>3
<1>d. /\ teardown' \in [Closer \cup Call -> Teardown]
      /\ teardown'[x].pc = "subs" /\ teardown'[x].id = s /\ teardown'[x].ids = teardown[x].ids
      /\ \A y \in (Closer \cup Call) \ {x} : teardown'[y] = teardown[y]
  BY <1>t DEF CloseConn, Teardown
<1> HIDE DEF s
<1>1. TypeOK'
  <2>1. panics' \in BOOLEAN
    BY DEF CloseConn
  <2> QED
    BY <1>0, <1>d, <1>s, <1>u, <2>1 DEF TypeOK
<1>2. RegistryInv'
  <2>0. /\ \A y \in Closer \cup Call :
            teardown'[y].id = teardown[y].id /\
            (teardown'[y].pc \in {"conn", "subs"} <=> teardown[y].pc \in {"conn", "subs"})
        /\ \A y \in Closer \cup Call : teardown'[y].pc = "conn" => y # x /\ teardown[y].pc = "conn"
    BY <1>d, <1>t DEF s
  <2>1. UnregisteredInv'
    <3>1. \A k \in Call : create[k].pc \in {"idle", "exec", "attached"} => k # s
      BY <1>0, <1>t DEF RegistryInv, UnregisteredInv, s
    <3> QED
      BY <1>0, <1>s, <1>u, <2>0, <3>1 DEF RegistryInv, UnregisteredInv
  <2>2. TeardownInv'
    <3>1. \A y \in Closer \cup Call : teardown'[y].pc = "conn" => teardown[y].id # s
      BY <1>0, <1>t, <2>0 DEF RegistryInv, TeardownInv, s
    <3> QED
      BY <1>0, <1>s, <1>u, <2>0, <3>1 DEF RegistryInv, TeardownInv
  <2>3. PumpCloseInv'
    BY <1>0, <1>d, <1>t, <1>u DEF RegistryInv, PumpCloseInv
  <2>4. RegisteredIsServed'
    <3>1. \A j \in sessions : sess'[j] = sess[j] /\ exec'[j] = exec[j]
      BY <1>o, <1>s, <1>t
    <3>2. \A j \in sessions : pump[j] = "ended" => teardown'[j] = teardown[j]
      BY <1>0, <1>d, <1>t DEF RegistryInv, RegisteredIsServed
    <3> QED
      BY <1>0, <1>u, <3>1, <3>2 DEF RegistryInv, RegisteredIsServed
  <2> QED
    BY <2>1, <2>2, <2>3, <2>4 DEF RegistryInv
<1>3. OutputInv'
  BY <1>0, <1>s, <1>u, OutputFrame
<1>4. NoPanic'
  BY <1>0, <1>o DEF CloseConn, NoPanic, s
<1> QED
  BY <1>1, <1>2, <1>3, <1>4 DEF ExecIInv

LEMMA CloseSubscribersStep ==
  ASSUME ExecIInv, NEW x \in Closer \cup Call, CloseSubscribers(x)
  PROVE  ExecIInv'
<1>0. TypeOK /\ RegistryInv /\ BufferInv /\ OutputInv /\ ~panics
  BY DEF ExecIInv, NoPanic, OutputInv
<1> DEFINE s == teardown[x].id
<1>t. /\ teardown \in [Closer \cup Call -> Teardown] /\ teardown[x] \in Teardown /\ sessions \subseteq Call
      /\ teardown[x].pc = "subs" /\ sess \in [Call -> Session] /\ ch \in [Conn -> Channel]
  BY <1>0 DEF TypeOK, CloseSubscribers
<1>o. s \in Call /\ sess[s].subs \subseteq Conn
  BY <1>0, <1>t DEF RegistryInv, TeardownInv, Session
<1>u. UNCHANGED <<sessions, byProject, create, exec, pump, handler, seen>>
  BY DEF CloseSubscribers, registryVars
<1>s. /\ sess' \in [Call -> Session] /\ sess'[s].subs = {}
      /\ \A j \in Call \ {s} : sess'[j] = sess[j]
      /\ \A j \in Call : sess'[j].buf = sess[j].buf /\ sess'[j].done = sess[j].done
  <2>1. sess' \in [Call -> Session] /\ sess'[s].subs = {}
    BY <1>o, <1>t DEF CloseSubscribers, Session
  <2>2. \A j \in Call \ {s} : sess'[j] = sess[j]
    BY <1>o, <1>t DEF CloseSubscribers
  <2>3. sess'[s].buf = sess[s].buf /\ sess'[s].done = sess[s].done
    BY <1>o, <1>t DEF CloseSubscribers, Session
  <2> QED
    BY <2>1, <2>2, <2>3
<1>c. /\ ch' \in [Conn -> Channel]
      /\ \A d \in Conn : ch'[d].queue = ch[d].queue
      /\ \A d \in Conn \ sess[s].subs : ch'[d] = ch[d]
  BY <1>t DEF CloseSubscribers, Channel
<1>a. After(teardown[x].ids) \in {"idle", "next"}
  BY DEF After
<1>d. /\ teardown' \in [Closer \cup Call -> Teardown]
      /\ teardown'[x].pc = After(teardown[x].ids) /\ teardown'[x].ids = teardown[x].ids
      /\ \A y \in (Closer \cup Call) \ {x} : teardown'[y] = teardown[y]
  BY <1>a, <1>t DEF CloseSubscribers, Teardown
<1>1. TypeOK'
  <2>1. panics' \in BOOLEAN
    BY DEF CloseSubscribers
  <2> QED
    BY <1>0, <1>c, <1>d, <1>s, <1>u, <2>1 DEF TypeOK
<1>p. /\ \A d \in sess[s].subs : ~ch[d].closed
      /\ panics' = (panics \/ \E d \in sess[s].subs : ch[d].closed)
  BY <1>0, <1>o DEF OutputInv, SubscriberInv, SubscriberAt, Subscribed, CloseSubscribers
<1>4. NoPanic'
  BY <1>0, <1>p DEF NoPanic
<1> HIDE DEF s
<1>2. RegistryInv'
  <2>0. \A y \in Closer \cup Call : teardown'[y].pc \in {"conn", "subs"} => teardown'[y] = teardown[y]
    BY <1>a, <1>d
  <2>1. UnregisteredInv'
    BY <1>0, <1>s, <1>u, <2>0 DEF RegistryInv, UnregisteredInv
  <2>2. TeardownInv'
    BY <1>0, <1>s, <1>u, <2>0 DEF RegistryInv, TeardownInv
  <2>3. PumpCloseInv'
    <3>1. x \in Call => teardown[x].ids = {} /\ pump[x] = "ended"
      BY <1>0, <1>t DEF RegistryInv, PumpCloseInv
    <3>2. x \in Call => teardown'[x].pc = "idle"
      BY <1>d, <3>1 DEF After
    <3> QED
      BY <1>0, <1>d, <1>u, <3>1, <3>2 DEF RegistryInv, PumpCloseInv
  <2>4. RegisteredIsServed'
    <3>1. \A j \in sessions : pump[j] = "ended" => teardown'[j] = teardown[j]
      BY <1>0, <1>d, <1>t DEF RegistryInv, RegisteredIsServed
    <3> QED
      BY <1>0, <1>s, <1>t, <1>u, <3>1 DEF RegistryInv, RegisteredIsServed
  <2> QED
    BY <2>1, <2>2, <2>3, <2>4 DEF RegistryInv
<1>3. BufferInv'
  BY <1>0, <1>s, <1>u DEF BufferInv
<1>5. ASSUME NEW d \in Conn PROVE SubscriberAt(d)' /\ StreamAt(d)'
  <2>1. CASE d \notin sess[s].subs
    <3>1. \A j \in Call : d \in sess'[j].subs <=> d \in sess[j].subs
      BY <1>o, <1>s, <2>1
    <3> QED
      BY <1>0, <1>c, <1>s, <1>u, <2>1, <3>1, ConnectionFrame
  <2>2. CASE d \in sess[s].subs
    <3>0. SubscriberAt(d) /\ StreamAt(d)
      BY <1>0 DEF OutputInv, SubscriberInv, StreamInv
    <3>1. \A j \in Call : d \notin sess'[j].subs
      BY <1>o, <1>s, <2>2, <3>0 DEF SubscriberAt, Subscribed
    <3>2. SubscriberAt(d)'
      BY <1>c, <1>o, <1>u, <2>2, <3>0, <3>1 DEF SubscriberAt, Subscribed
    <3>3. handler[d].pc \in {"subscribed", "replay"} => handler[d].id \in Call
      BY <3>0 DEF SubscriberAt
    <3>4. StreamAt(d)'
      BY <1>c, <1>s, <1>u, <3>0, <3>1, <3>3 DEF StreamAt, Subscribed
    <3> QED
      BY <3>2, <3>4
  <2> QED
    BY <2>1, <2>2
<1> QED
  BY <1>1, <1>2, <1>3, <1>4, <1>5 DEF ExecIInv, OutputInv, SubscriberInv, StreamInv

-----------------------------------------------------------------------------

LEMMA ExecStep == ExecIInv /\ [Next]_vars => ExecIInv'
<1> SUFFICES ASSUME ExecIInv, [Next]_vars PROVE ExecIInv'
  OBVIOUS
<1>1. ASSUME NEW k \in Call, CreateStep(k) \/ ExecExits(k) \/ ReadChunk(k) \/ PumpStep(k) PROVE ExecIInv'
  BY <1>1, CheckExistingStep, ExecAttachStep, RegisterStep, ReadStep, BroadcastStep, PumpClosesStep
  DEF CreateStep, PumpStep
<1>2. ASSUME NEW x \in Closer, CloseAll(x) \/ \E p \in Project : CloseProjectSessions(x, p) PROVE ExecIInv'
  <2>1. sessions \in SUBSET Call /\ \A p \in Project : byProject[p] \in SUBSET Call
    BY DEF ExecIInv, TypeOK
  <2> QED
    BY <1>2, <2>1, SnapshotStep DEF CloseAll, CloseProjectSessions
<1>3. ASSUME NEW x \in Closer \cup Call, TeardownStep(x) PROVE ExecIInv'
  BY <1>3, UnregisterStep, CloseConnStep, CloseSubscribersStep DEF TeardownStep
<1>4. ASSUME NEW c \in Conn, HandlerStep(c) PROVE ExecIInv'
  BY <1>4, SubscribeLookupStep, SubscribeAddStep, ReplayLookupStep, ReplayCopyStep, StartServingStep,
     ClientStep, LoopStep, UnsubscribeLookupStep, UnsubscribeStep DEF HandlerStep
<1>5. ASSUME NEW c \in Conn, OutputStep(c) PROVE ExecIInv'
  BY <1>5, TakeChunkStep, OutputGoroutineStep DEF OutputStep
<1>6. CASE UNCHANGED vars
  <2>1. UNCHANGED <<sessions, byProject, create, exec, sess, pump, teardown, handler, ch, seen, panics>>
    BY <1>6 DEF vars, registryVars
  <2>2. TypeOK'
    BY <2>1 DEF ExecIInv, TypeOK
  <2>3. RegistryInv'
    BY <2>1, RegistryFrame DEF ExecIInv, TypeOK
  <2>4. OutputInv'
    BY <2>1, OutputFrame DEF ExecIInv
  <2> QED
    BY <2>1, <2>2, <2>3, <2>4 DEF ExecIInv, NoPanic
<1> QED
  BY <1>1, <1>2, <1>3, <1>4, <1>5, <1>6, ConnectStep, LoopStep, ClientStep DEF Next

\* The types; in particular no subscriber's channel ever holds more than
\* subscriberBufSize chunks, so that pumpOutput, which holds the session's mutex,
\* never blocks on one (manager.go, pumpOutput).
THEOREM ExecTypeCorrect == Spec => []TypeOK
BY ExecInitial, ExecStep, PTL DEF Spec, ExecIInv

\* No channel is closed twice or used after it was closed, however many handlers,
\* pumps and closers run at once (manager.go: pumpOutput, CloseSession,
\* Subscribe, Unsubscribe).
THEOREM ExecChannelsUsedSafely == Spec => []NoPanic
BY ExecInitial, ExecStep, PTL DEF Spec, ExecIInv

\* Both maps of the registry agree, and what they name is being served: the
\* session CreateSession returns for a project is not half torn down
\* (manager.go, CreateSession and CloseSession).
THEOREM RegistryServes == Spec => []RegisteredIsServed
BY ExecInitial, ExecStep, PTL DEF Spec, ExecIInv, RegistryInv

\* A client that reconnects gets the replay and then the output without a gap
\* (HandleTerminalWS subscribes before it copies the buffer, handler.go).
THEOREM ReconnectWithoutGap == Spec => []NoGap
<1>1. ExecIInv => NoGap
  <2> SUFFICES ASSUME ExecIInv, NEW c \in Conn
               PROVE  LET live == seen[c].live IN
                      /\ \A i \in 1 .. Len(live) - 1 : live[i + 1] = live[i] + 1
                      /\ seen[c].found /\ live # <<>> => live[1] <= seen[c].last + 1
    BY DEF NoGap
  <2> DEFINE live == seen[c].live
  <2>1. /\ Run(live) /\ (seen[c].found /\ live # <<>> => live[1] <= seen[c].last + 1)
        /\ live \in Seq(1 .. MaxOutput)
    BY DEF ExecIInv, OutputInv, StreamInv, StreamAt, Received, TypeOK, Seen
  <2>2. Len(live) \in Nat /\ (Len(live) # 0 => live[1] \in Int)
    BY <2>1, ExecAssumption
  <2> HIDE DEF live
  <2>3. ASSUME NEW i \in 1 .. Len(live) - 1 PROVE live[i + 1] = live[i] + 1
    <3>1. i \in 1 .. Len(live) /\ i + 1 \in 1 .. Len(live) /\ live[1] \in Int
      BY <2>2
    <3>2. live[i] = live[1] + (i - 1) /\ live[i + 1] = live[1] + ((i + 1) - 1)
      BY <2>1, <3>1 DEF Run
    <3> QED
      BY <3>1, <3>2
  <2> QED
    BY <2>1, <2>3 DEF live
<1> QED
  BY <1>1, ExecInitial, ExecStep, PTL DEF Spec
==============================================================================
