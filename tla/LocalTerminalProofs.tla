-------------------------- MODULE LocalTerminalProofs --------------------------
(* Proofs about module LocalTerminal, for any number of connections, any   *)
(* length of the output and any size of the channels and of the buffer.    *)
EXTENDS LocalTerminal, TLAPS

-----------------------------------------------------------------------------
(* The inductive invariant.                                                *)

\* The types the proofs need.  What is in the ring buffer plays no part: the live
\* output never passes through it.
CoreType ==
    /\ printed \in Nat
    /\ read \in Nat
    /\ subs \subseteq Conn
    /\ ch \in [Conn -> [queue : Seq(Nat), closed : BOOLEAN]]
    /\ conn \in [Conn -> Handler]
    /\ live \in [Conn -> Seq(Nat)]

\* closeOnce: whoever closes sess.done is the only one who ever does.
OnceInv ==
    /\ doneClosed => once = "done"
    /\ pump = "wait" => once = "pump"

\* A handler uses its channel only after Subscribe; a channel in the map is open.
ChannelInv ==
    \A c \in Conn :
        /\ c \in subs => ~ch[c].closed
        /\ conn[c].pc \in BeforeSubscribe =>
             c \notin subs /\ ch[c].queue = <<>> /\ ~ch[c].closed
        /\ conn[c].out = "none" => live[c] = <<>>
        /\ conn[c].pc \in BeforeSubscribe \cup {"subscribed"} => conn[c].out = "none"

\* The last chunk every subscriber was sent.
LastSent == IF pump \in {"write", "broadcast"} THEN read - 1 ELSE read

\* What a connection has received (l), and then what waits in its channel (q), are
\* consecutive chunks that end, for a subscriber, at the last one sent.  A
\* goroutine that has ended receives nothing more.
Stream(l, q, receives, subscribed, last) ==
    /\ Consecutive(l)
    /\ Consecutive(q)
    /\ receives /\ l # <<>> /\ q # <<>> => q[1] = l[Len(l)] + 1
    /\ subscribed /\ q # <<>> => q[Len(q)] = last
    /\ subscribed /\ receives /\ q = <<>> /\ l # <<>> => l[Len(l)] = last

StreamInv ==
    \A c \in Conn : Stream(live[c], ch[c].queue, conn[c].out # "ended", c \in subs, LastSent)

TerminalIInv == CoreType /\ OnceInv /\ ChannelInv /\ NoPanic /\ StreamInv

-----------------------------------------------------------------------------
(* Sequences of consecutive numbers.                                       *)

LEMMA ConsecutiveEmpty == Consecutive(<<>>)
BY DEF Consecutive

LEMMA ConsecutiveAppend ==
  ASSUME NEW s \in Seq(Nat), NEW n \in Nat, Consecutive(s), s # <<>> => n = s[Len(s)] + 1
  PROVE  /\ Append(s, n) \in Seq(Nat) /\ Append(s, n) # <<>>
         /\ Consecutive(Append(s, n))
         /\ Append(s, n)[Len(Append(s, n))] = n
         /\ Append(s, n)[1] = IF s = <<>> THEN n ELSE s[1]
<1> DEFINE a == Append(s, n)
<1>1. a \in Seq(Nat) /\ Len(a) = Len(s) + 1 /\ a[Len(a)] = n /\ a # <<>>
  OBVIOUS
<1>2. \A k \in 1 .. Len(s) : a[k] = s[k]
  OBVIOUS
<1>3. Len(s) \in Nat /\ (s # <<>> => Len(s) >= 1) /\ (s = <<>> => Len(s) = 0)
  OBVIOUS
<1>4. \A k \in 1 .. Len(a) - 1 : a[k + 1] = a[k] + 1
  <2> SUFFICES ASSUME NEW k \in 1 .. Len(s) PROVE a[k + 1] = a[k] + 1
    BY <1>1
  <2>1. CASE k = Len(s)
    BY <1>1, <1>2, <1>3, <2>1
  <2>2. CASE k # Len(s)
    <3>1. k \in 1 .. Len(s) - 1 /\ k + 1 \in 1 .. Len(s)
      BY <1>3, <2>2
    <3> QED
      BY <1>2, <3>1 DEF Consecutive
  <2> QED
    BY <2>1, <2>2
<1>5. a[1] = IF s = <<>> THEN n ELSE s[1]
  BY <1>1, <1>2, <1>3
<1> QED
  BY <1>1, <1>4, <1>5 DEF Consecutive

LEMMA ConsecutiveTail ==
  ASSUME NEW s \in Seq(Nat), Consecutive(s), s # <<>>
  PROVE  /\ Tail(s) \in Seq(Nat)
         /\ Head(s) \in Nat /\ Head(s) = s[1]
         /\ Consecutive(Tail(s))
         /\ Tail(s) # <<>> => Tail(s)[1] = Head(s) + 1 /\ Tail(s)[Len(Tail(s))] = s[Len(s)]
         /\ Tail(s) = <<>> => s[Len(s)] = Head(s)
<1> DEFINE r == Tail(s)
<1>1. r \in Seq(Nat) /\ Len(r) = Len(s) - 1 /\ Head(s) = s[1] /\ Len(s) \in Nat /\ Len(s) >= 1 /\ Len(r) \in Nat
  OBVIOUS
<1>2. \A k \in 1 .. Len(r) : r[k] = s[k + 1]
  OBVIOUS
<1>3. Head(s) \in Nat
  BY <1>1
<1>4. Consecutive(r)
  <2> SUFFICES ASSUME NEW k \in 1 .. Len(r) - 1 PROVE r[k + 1] = r[k] + 1
    BY DEF Consecutive
  <2>1. k \in 1 .. Len(r) /\ k + 1 \in 1 .. Len(r) /\ k + 1 \in 1 .. Len(s) - 1
    BY <1>1
  <2> QED
    BY <1>2, <2>1 DEF Consecutive
<1>5. ASSUME r # <<>> PROVE r[1] = Head(s) + 1 /\ r[Len(r)] = s[Len(s)]
  <2>1. Len(r) >= 1 /\ 1 \in 1 .. Len(r) /\ Len(r) \in 1 .. Len(r) /\ 1 \in 1 .. Len(s) - 1
    BY <1>1, <1>5
  <2> QED
    <3>1. r[1] = s[1] + 1
      BY <1>2, <2>1 DEF Consecutive
    <3>2. r[Len(r)] = s[Len(s)]
      BY <1>1, <1>2, <2>1
    <3> QED
      BY <1>1, <3>1, <3>2
<1>6. r = <<>> => Len(s) = 1
  <2>1. \A e : e = <<>> => Len(e) = 0
    OBVIOUS
  <2> HIDE DEF r
  <2> QED
    BY <1>1, <2>1
<1> QED
  BY <1>1, <1>3, <1>4, <1>5, <1>6

-----------------------------------------------------------------------------
(* The invariant is inductive.                                             *)

\* A step that moves no chunk keeps the streams: it may remove subscribers, add
\* one that has received nothing, and end an output goroutine.
LEMMA StreamKeeps ==
  ASSUME StreamInv, UNCHANGED <<ch, live>>, LastSent' = LastSent,
         \A c \in Conn : conn'[c].out # "ended" => conn[c].out # "ended",
         \A c \in Conn : c \in subs' => c \in subs \/ (ch[c].queue = <<>> /\ live[c] = <<>>)
  PROVE  StreamInv'
<1> SUFFICES ASSUME NEW c \in Conn
             PROVE  Stream(live[c], ch[c].queue, conn'[c].out # "ended", c \in subs', LastSent)
  BY DEF StreamInv
<1>1. Stream(live[c], ch[c].queue, conn[c].out # "ended", c \in subs, LastSent)
  BY DEF StreamInv
<1> QED
  BY <1>1 DEF Stream

LEMMA TerminalInitial == Init => TerminalIInv
<1> SUFFICES ASSUME Init PROVE TerminalIInv
  OBVIOUS
<1>1. CoreType
  BY DEF Init, CoreType, Handler, HandlerPc, BeforeSubscribe
<1>2. OnceInv /\ ChannelInv /\ NoPanic
  BY DEF Init, OnceInv, ChannelInv, NoPanic
<1>3. StreamInv
  BY ConsecutiveEmpty DEF Init, StreamInv, Stream
<1> QED
  BY <1>1, <1>2, <1>3 DEF TerminalIInv

\* pumpOutput sends a chunk to every subscriber and evicts the slow ones.
LEMMA BroadcastStep ==
  ASSUME TerminalIInv, Broadcast
  PROVE  TerminalIInv'
<1>0. CoreType /\ OnceInv /\ ChannelInv /\ ~panics /\ StreamInv
  BY DEF TerminalIInv, NoPanic
<1>c. /\ ch \in [Conn -> [queue : Seq(Nat), closed : BOOLEAN]]
      /\ live \in [Conn -> Seq(Nat)] /\ read \in Nat /\ subs \subseteq Conn
  BY <1>0 DEF CoreType
<1>a. \A c \in Conn : c \notin subs => ch'[c] = ch[c] /\ c \notin subs'
  BY DEF Broadcast
<1>b. \A c \in Conn : c \in subs /\ Full(c) =>
          ch'[c].queue = ch[c].queue /\ ch'[c].closed = TRUE /\ c \notin subs'
  BY <1>c DEF Broadcast
<1>d. \A c \in Conn : c \in subs /\ ~Full(c) =>
          ch'[c].queue = Append(ch[c].queue, read) /\ ch'[c].closed = ch[c].closed /\ c \in subs'
  BY <1>c DEF Broadcast
<1>1. CoreType'
  <2>1. ASSUME NEW c \in Conn PROVE ch'[c] \in [queue : Seq(Nat), closed : BOOLEAN]
    <3>1. ch[c] \in [queue : Seq(Nat), closed : BOOLEAN] /\ Append(ch[c].queue, read) \in Seq(Nat)
      BY <1>c
    <3> QED
      BY <3>1 DEF Broadcast
  <2>2. ch' \in [Conn -> [queue : Seq(Nat), closed : BOOLEAN]]
    BY <2>1 DEF Broadcast
  <2> QED
    BY <1>0, <2>2 DEF Broadcast, CoreType
<1>2. OnceInv' /\ NoPanic'
  BY <1>0, <1>c DEF Broadcast, OnceInv, ChannelInv, NoPanic
<1>3. ChannelInv'
  BY <1>0, <1>a, <1>b, <1>d DEF Broadcast, ChannelInv
<1>4. StreamInv'
  <2> SUFFICES ASSUME NEW c \in Conn
               PROVE  Stream(live[c], ch'[c].queue, conn[c].out # "ended", c \in subs', read)
    BY DEF Broadcast, StreamInv, LastSent
  <2>0. Stream(live[c], ch[c].queue, conn[c].out # "ended", c \in subs, LastSent)
    BY <1>0 DEF StreamInv
  <2>1. CASE c \notin subs \/ Full(c)
    BY <1>a, <1>b, <2>0, <2>1 DEF Stream
  <2>2. CASE c \in subs /\ ~Full(c)
    <3> DEFINE q == ch[c].queue
    <3>0. ch'[c].queue = Append(q, read) /\ q \in Seq(Nat) /\ live[c] \in Seq(Nat)
      BY <1>c, <1>d, <2>2
    <3>1. LastSent = read - 1
      BY DEF Broadcast, LastSent
    <3>2. Consecutive(q) /\ (q # <<>> => read = q[Len(q)] + 1) /\ Consecutive(live[c])
      BY <1>c, <2>0, <2>2, <3>0, <3>1 DEF Stream
    <3>3. conn[c].out # "ended" /\ live[c] # <<>> =>
             IF q = <<>> THEN read = live[c][Len(live[c])] + 1 ELSE q[1] = live[c][Len(live[c])] + 1
      BY SMTT(30), <1>c, <2>0, <2>2, <3>0, <3>1 DEF Stream
    <3>4. /\ Consecutive(Append(q, read)) /\ Append(q, read) # <<>>
          /\ Append(q, read)[Len(Append(q, read))] = read
          /\ Append(q, read)[1] = IF q = <<>> THEN read ELSE q[1]
      BY <1>c, <3>0, <3>2, ConsecutiveAppend
    <3> HIDE DEF q
    <3> QED
      BY <3>0, <3>2, <3>3, <3>4 DEF Stream
  <2> QED
    BY <2>1, <2>2
<1> QED
  BY <1>1, <1>2, <1>3, <1>4 DEF TerminalIInv

\* The output goroutine takes a chunk from its channel.
LEMMA TakeChunkStep ==
  ASSUME TerminalIInv, NEW c \in Conn, TakeChunk(c)
  PROVE  TerminalIInv'
<1>0. CoreType /\ OnceInv /\ ChannelInv /\ ~panics /\ StreamInv
  BY DEF TerminalIInv, NoPanic
<1> DEFINE q == ch[c].queue
           l == live[c]
<1>c. /\ ch \in [Conn -> [queue : Seq(Nat), closed : BOOLEAN]] /\ conn \in [Conn -> Handler]
      /\ live \in [Conn -> Seq(Nat)] /\ q \in Seq(Nat) /\ l \in Seq(Nat) /\ q # <<>>
  BY <1>0 DEF CoreType, TakeChunk
<1>s. Stream(l, q, TRUE, c \in subs, LastSent)
  BY <1>0 DEF StreamInv, TakeChunk, Stream
<1>q. /\ Tail(q) \in Seq(Nat) /\ Head(q) \in Nat /\ Head(q) = q[1] /\ Consecutive(Tail(q))
      /\ Tail(q) # <<>> => Tail(q)[1] = Head(q) + 1 /\ Tail(q)[Len(Tail(q))] = q[Len(q)]
      /\ Tail(q) = <<>> => q[Len(q)] = Head(q)
  <2>1. Consecutive(q)
    BY <1>s DEF Stream
  <2> QED
    BY <1>c, <2>1, ConsecutiveTail
<1>e. /\ ch'[c].queue = Tail(q) /\ ch'[c].closed = ch[c].closed
      /\ \A d \in Conn \ {c} : ch'[d] = ch[d]
  BY <1>c DEF TakeChunk
<1>u. subs' = subs /\ LastSent' = LastSent /\ conn[c].out = "select" /\ UNCHANGED <<pump, read>>
  BY DEF TakeChunk, sessionVars, LastSent
<1>o. /\ conn'[c].out = "write" /\ conn'[c].pc = conn[c].pc
      /\ \A d \in Conn \ {c} : conn'[d] = conn[d]
      /\ conn' \in [Conn -> Handler]
  BY <1>c DEF TakeChunk, Handler
<1>l. live' = [live EXCEPT ![c] = Append(l, Head(q))]
  BY DEF TakeChunk
<1>1. ch' \in [Conn -> [queue : Seq(Nat), closed : BOOLEAN]]
  BY ZenonT(40), <1>c, <1>q DEF TakeChunk
<1>2. l # <<>> => Head(q) = l[Len(l)] + 1
  BY <1>c, <1>q, <1>s DEF Stream
<1>3. /\ Append(l, Head(q)) \in Seq(Nat) /\ Consecutive(Append(l, Head(q)))
      /\ Append(l, Head(q))[Len(Append(l, Head(q)))] = Head(q)
  <2>1. Consecutive(l)
    BY <1>s DEF Stream
  <2> QED
    BY <1>c, <1>q, <1>2, <2>1, ConsecutiveAppend
<1>4. CoreType'
  BY <1>0, <1>1, <1>c, <1>l, <1>o, <1>3 DEF CoreType, TakeChunk, sessionVars
<1>5. OnceInv' /\ NoPanic'
  BY <1>0 DEF OnceInv, NoPanic, TakeChunk, sessionVars
<1>6. ChannelInv'
  <2>1. \A d \in Conn \ {c} : live'[d] = live[d]
    BY <1>c, <1>l
  <2>2. conn[c].pc \notin BeforeSubscribe \cup {"subscribed"}
    BY <1>0, <1>u DEF ChannelInv
  <2> QED
    BY <1>0, <1>e, <1>u, <1>o, <2>1, <2>2 DEF ChannelInv
<1>7. StreamInv'
  <2>1. live'[c] = Append(l, Head(q)) /\ \A d \in Conn \ {c} : live'[d] = live[d]
    BY <1>c, <1>l
  <2>2. c \in subs => q[Len(q)] = LastSent
    BY <1>c, <1>s DEF Stream
  <2>3. Stream(Append(l, Head(q)), Tail(q), TRUE, c \in subs, LastSent)
    <3> HIDE DEF q, l
    <3> QED
      BY <1>q, <1>3, <2>2 DEF Stream
  <2> HIDE DEF q, l
  <2> QED
    BY ZenonT(40), <1>0, <1>e, <1>u, <1>o, <2>1, <2>3 DEF StreamInv
<1> QED
  BY <1>4, <1>5, <1>6, <1>7 DEF TerminalIInv

LEMMA TerminalStep == TerminalIInv /\ [Next]_vars => TerminalIInv'
<1> SUFFICES ASSUME TerminalIInv, [Next]_vars PROVE TerminalIInv'
  OBVIOUS
<1> USE DEF sessionVars
<1>0. CoreType /\ OnceInv /\ ChannelInv /\ ~panics /\ StreamInv
  BY DEF TerminalIInv, NoPanic
\* What a step of the session leaves to show when it moves no chunk.
<1>s. ASSUME UNCHANGED <<ch, conn, live>>, LastSent' = LastSent, subs' \subseteq subs,
             printed' \in Nat, read' \in Nat, OnceInv', NoPanic'
      PROVE  TerminalIInv'
  <2>1. CoreType'
    BY <1>0, <1>s DEF CoreType
  <2>2. ChannelInv'
    BY <1>0, <1>s DEF ChannelInv
  <2>3. StreamInv'
    BY <1>0, <1>s, StreamKeeps
  <2> QED
    BY <1>s, <2>1, <2>2, <2>3 DEF TerminalIInv
\* The same for a step of a connection.
<1>h. ASSUME NEW c \in Conn, UNCHANGED <<ch, live, printed, read, once, doneClosed, pump, panics>>,
             NEW h \in Handler, conn' = [conn EXCEPT ![c] = h],
             subs' \subseteq subs, h.out = "none" => conn[c].out = "none",
             h.out # "ended" => conn[c].out # "ended",
             h.pc \in BeforeSubscribe => conn[c].pc \in BeforeSubscribe,
             h.pc \in BeforeSubscribe \cup {"subscribed"} => h.out = "none"
      PROVE  TerminalIInv'
  <2>0. conn'[c] = h /\ \A d \in Conn \ {c} : conn'[d] = conn[d]
    BY <1>0, <1>h DEF CoreType
  <2>1. CoreType'
    BY <1>0, <1>h DEF CoreType
  <2>2. ChannelInv'
    BY <1>0, <1>h, <2>0 DEF ChannelInv
  <2>3. StreamInv'
    <3>1. LastSent' = LastSent
      BY <1>h DEF LastSent
    <3> QED
      BY <1>0, <1>h, <2>0, <3>1, StreamKeeps
  <2>4. OnceInv' /\ NoPanic'
    BY <1>0, <1>h DEF OnceInv, NoPanic
  <2> QED
    BY <2>1, <2>2, <2>3, <2>4 DEF TerminalIInv
<1>t. \A c \in Conn : conn[c] \in Handler
  BY <1>0 DEF CoreType
<1>n. printed \in Nat /\ read \in Nat
  BY <1>0 DEF CoreType
<1>1. CASE ShellPrints
  BY <1>0, <1>n, <1>1, <1>s DEF ShellPrints, OnceInv, NoPanic, LastSent
<1>2. ASSUME NEW s \in Shell, ShellLeaves(s) PROVE TerminalIInv'
  BY <1>0, <1>n, <1>2, <1>s DEF ShellLeaves, OnceInv, NoPanic, LastSent
<1>3. CASE ReadPty
  BY <1>0, <1>n, <1>3, <1>s DEF ReadPty, OnceInv, NoPanic, LastSent
<1>4. CASE WriteBuffer
  BY <1>0, <1>n, <1>4, <1>s DEF WriteBuffer, OnceInv, NoPanic, LastSent
<1>5. CASE Broadcast
  BY <1>5, BroadcastStep
<1>6. CASE CloseSubscribers
  <2>0. /\ ch \in [Conn -> [queue : Seq(Nat), closed : BOOLEAN]] /\ subs \subseteq Conn
        /\ live \in [Conn -> Seq(Nat)] /\ conn \in [Conn -> Handler]
    BY <1>0 DEF CoreType
  <2>1. \A c \in Conn : ch'[c].queue = ch[c].queue
    BY <1>6, <2>0 DEF CloseSubscribers
  <2>2. CoreType'
    BY <1>0, <1>6, <2>0 DEF CloseSubscribers, CoreType
  <2>3. OnceInv' /\ NoPanic'
    BY <1>0, <1>6, <2>0 DEF CloseSubscribers, OnceInv, NoPanic, ChannelInv
  <2>4. ChannelInv'
    BY <1>0, <1>6, <2>1 DEF CloseSubscribers, ChannelInv
  <2>5. StreamInv'
    <3> SUFFICES ASSUME NEW c \in Conn
                 PROVE  Stream(live[c], ch[c].queue, conn[c].out # "ended", FALSE, LastSent)
      BY <1>6, <2>1 DEF CloseSubscribers, StreamInv, Stream
    <3> QED
      BY <1>0 DEF StreamInv, Stream
  <2> QED
    BY <2>2, <2>3, <2>4, <2>5 DEF TerminalIInv
<1>7. CASE PumpOnce
  BY <1>0, <1>n, <1>7, <1>s DEF PumpOnce, OnceInv, NoPanic, LastSent
<1>8. CASE WaitShell
  BY <1>0, <1>n, <1>8, <1>s DEF WaitShell, OnceInv, NoPanic, LastSent
<1>9. CASE Forget
  BY <1>0, <1>n, <1>9, <1>s DEF Forget, OnceInv, NoPanic, LastSent
<1>10. CASE Close
  BY <1>0, <1>n, <1>10, <1>s DEF Close, OnceInv, NoPanic, LastSent
<1>11. CASE CloseOnce
  <2>1. OnceInv' /\ NoPanic'
    <3>1. CASE once = "free"
      <4>1. once' = "done" /\ pump' = pump /\ pump # "wait" /\ ~doneClosed /\ panics' = (panics \/ doneClosed)
        BY <1>0, <1>11, <3>1 DEF CloseOnce, OnceInv
      <4> QED
        BY <1>0, <4>1 DEF OnceInv, NoPanic
    <3>2. CASE once = "done"
      BY <1>0, <1>11, <3>2 DEF CloseOnce, OnceInv, NoPanic
    <3> QED
      BY <1>11, <3>1, <3>2 DEF CloseOnce
  <2>2. LastSent' = LastSent
    BY <1>11 DEF CloseOnce, LastSent
  <2> QED
    BY <1>n, <1>11, <1>s, <2>1, <2>2 DEF CloseOnce
<1>12. ASSUME NEW c \in Conn, Connect(c) PROVE TerminalIInv'
  <2> DEFINE h == [conn[c] EXCEPT !.pc = "upgraded", !.open = TRUE]
  <2>1. h \in Handler /\ h.pc = "upgraded" /\ h.out = conn[c].out
    BY <1>t DEF Handler, HandlerPc, BeforeSubscribe
  <2>2. conn' = [conn EXCEPT ![c] = h] /\ conn[c].out = "none" /\ conn[c].pc \in BeforeSubscribe
    BY <1>0, <1>12 DEF Connect, CoreType, ChannelInv, BeforeSubscribe
  <2> HIDE DEF h
  <2> QED
    BY <1>12, <1>h, <2>1, <2>2 DEF Connect, BeforeSubscribe
<1>13. ASSUME NEW c \in Conn, StartReplay(c) PROVE TerminalIInv'
  <2> DEFINE h == [conn[c] EXCEPT !.pc = IF registered THEN "copying" ELSE "replayed"]
  <2>1. h \in Handler /\ h.pc \in BeforeSubscribe /\ h.out = conn[c].out
    BY <1>t DEF Handler, HandlerPc, BeforeSubscribe
  <2>2. conn' = [conn EXCEPT ![c] = h] /\ conn[c].out = "none" /\ conn[c].pc \in BeforeSubscribe
    BY <1>0, <1>13 DEF StartReplay, CoreType, ChannelInv, BeforeSubscribe
  <2> HIDE DEF h
  <2> QED
    BY <1>13, <1>h, <2>1, <2>2 DEF StartReplay, BeforeSubscribe
<1>14. ASSUME NEW c \in Conn, FinishReplay(c) PROVE TerminalIInv'
  <2>0. PICK content \in ReplayContent(c) :
          conn' = [conn EXCEPT ![c].pc = IF content = <<>> THEN "replayed" ELSE "replay"]
    BY <1>14 DEF FinishReplay
  <2> DEFINE h == [conn[c] EXCEPT !.pc = IF content = <<>> THEN "replayed" ELSE "replay"]
  <2>1. h \in Handler /\ h.pc \in BeforeSubscribe /\ h.out = conn[c].out
    BY <1>t DEF Handler, HandlerPc, BeforeSubscribe
  <2>2. conn' = [conn EXCEPT ![c] = h] /\ conn[c].out = "none" /\ conn[c].pc \in BeforeSubscribe
    BY <1>0, <1>14, <2>0 DEF FinishReplay, CoreType, ChannelInv, BeforeSubscribe
  <2> HIDE DEF h
  <2> QED
    BY <1>14, <1>h, <2>1, <2>2 DEF FinishReplay
<1>15. ASSUME NEW c \in Conn, WriteReplay(c) PROVE TerminalIInv'
  <2> DEFINE h == [conn[c] EXCEPT !.pc = "replayed"]
  <2>1. h \in Handler /\ h.pc \in BeforeSubscribe /\ h.out = conn[c].out
    BY <1>t DEF Handler, HandlerPc, BeforeSubscribe
  <2>2. conn' = [conn EXCEPT ![c] = h] /\ conn[c].out = "none" /\ conn[c].pc \in BeforeSubscribe
    BY <1>0, <1>15 DEF WriteReplay, CoreType, ChannelInv, BeforeSubscribe
  <2> HIDE DEF h
  <2> QED
    BY <1>15, <1>h, <2>1, <2>2 DEF WriteReplay, BeforeSubscribe
<1>16. ASSUME NEW c \in Conn, SubscribeLookup(c) PROVE TerminalIInv'
  <2> DEFINE h == IF registered THEN [conn[c] EXCEPT !.pc = "found"] ELSE Returned(c)
  <2>1. h \in Handler /\ h.pc \in {"found", "returned"} /\ h.out = conn[c].out
    BY <1>t DEF Handler, HandlerPc, BeforeSubscribe, Returned
  <2>2. conn' = [conn EXCEPT ![c] = h] /\ conn[c].out = "none" /\ conn[c].pc \in BeforeSubscribe
    BY <1>0, <1>16 DEF SubscribeLookup, CoreType, ChannelInv, BeforeSubscribe
  <2> HIDE DEF h
  <2> QED
    BY <1>16, <1>h, <2>1, <2>2 DEF SubscribeLookup, BeforeSubscribe
<1>17. ASSUME NEW c \in Conn, Subscribe(c) PROVE TerminalIInv'
  <2>0. conn[c].out = "none" /\ live[c] = <<>> /\ ch[c].queue = <<>> /\ ~ch[c].closed /\ c \notin subs
    BY <1>0, <1>17 DEF Subscribe, ChannelInv, BeforeSubscribe
  <2> DEFINE h == [conn[c] EXCEPT !.pc = "subscribed"]
  <2>1. h \in Handler /\ h.pc = "subscribed" /\ h.pc \notin BeforeSubscribe /\ h.out = "none"
    BY <1>t, <2>0 DEF Handler, HandlerPc, BeforeSubscribe
  <2>2. conn' = [conn EXCEPT ![c] = h] /\ subs' = subs \cup {c}
    BY <1>17 DEF Subscribe
  <2>3. conn'[c] = h /\ \A d \in Conn \ {c} : conn'[d] = conn[d]
    BY <1>0, <2>2 DEF CoreType
  <2> HIDE DEF h
  <2>4. CoreType'
    BY <1>0, <1>17, <2>1, <2>2 DEF Subscribe, CoreType
  <2>5. OnceInv' /\ NoPanic'
    BY <1>0, <1>17 DEF Subscribe, OnceInv, NoPanic
  <2>6. ChannelInv'
    BY <1>0, <1>17, <2>0, <2>1, <2>2, <2>3 DEF Subscribe, ChannelInv
  <2>7. StreamInv'
    <3>1. LastSent' = LastSent
      BY <1>17 DEF Subscribe, LastSent
    <3> QED
      BY <1>0, <1>17, <2>0, <2>1, <2>2, <2>3, <3>1, StreamKeeps DEF Subscribe
  <2> QED
    BY <2>4, <2>5, <2>6, <2>7 DEF TerminalIInv
<1>18. ASSUME NEW c \in Conn, StartPumps(c) PROVE TerminalIInv'
  <2> DEFINE h == [conn[c] EXCEPT !.pc = "serving", !.out = "select",
                                  !.done = IF registered THEN "session" ELSE "closed"]
  <2>1. h \in Handler /\ h.pc = "serving" /\ h.out = "select"
    BY <1>t DEF Handler, HandlerPc, BeforeSubscribe
  <2>2. conn' = [conn EXCEPT ![c] = h] /\ conn[c].out = "none"
    BY <1>0, <1>18 DEF StartPumps, CoreType, ChannelInv
  <2> HIDE DEF h
  <2> QED
    BY <1>18, <1>h, <2>1, <2>2 DEF StartPumps, BeforeSubscribe
<1>19. ASSUME NEW c \in Conn, TakeChunk(c) PROVE TerminalIInv'
  BY <1>19, TakeChunkStep
<1>20. ASSUME NEW c \in Conn, WriteChunk(c) PROVE TerminalIInv'
  <2> DEFINE h == [conn[c] EXCEPT !.out = IF conn[c].open THEN "select" ELSE "ended"]
  <2>1. h \in Handler /\ h.pc = conn[c].pc /\ h.out \in {"select", "ended"}
    BY <1>t DEF Handler, HandlerPc, BeforeSubscribe
  <2>2. conn' = [conn EXCEPT ![c] = h] /\ conn[c].out = "write"
    BY <1>0, <1>20 DEF WriteChunk, CoreType
  <2>3. conn[c].pc \notin BeforeSubscribe \cup {"subscribed"}
    BY <1>0, <2>2 DEF ChannelInv
  <2> HIDE DEF h
  <2> QED
    BY <1>20, <1>h, <2>1, <2>2, <2>3 DEF WriteChunk
<1>21. ASSUME NEW c \in Conn, EndOutput(c) PROVE TerminalIInv'
  <2> DEFINE h == [conn[c] EXCEPT !.out = "ended", !.open = FALSE]
  <2>1. h \in Handler /\ h.pc = conn[c].pc /\ h.out = "ended"
    BY <1>t DEF Handler, HandlerPc, BeforeSubscribe
  <2>2. conn' = [conn EXCEPT ![c] = h] /\ conn[c].out = "select"
    BY <1>0, <1>21 DEF EndOutput, CoreType
  <2>3. conn[c].pc \notin BeforeSubscribe \cup {"subscribed"}
    BY <1>0, <2>2 DEF ChannelInv
  <2> HIDE DEF h
  <2> QED
    BY <1>21, <1>h, <2>1, <2>2, <2>3 DEF EndOutput
<1>22. ASSUME NEW c \in Conn, Disconnect(c) PROVE TerminalIInv'
  <2> DEFINE h == [conn[c] EXCEPT !.open = FALSE, !.stalled = FALSE]
  <2>1. h \in Handler /\ h.pc = conn[c].pc /\ h.out = conn[c].out
    BY <1>t DEF Handler, HandlerPc, BeforeSubscribe
  <2>2. conn' = [conn EXCEPT ![c] = h]
    BY <1>0, <1>22 DEF Disconnect, CoreType
  <2>3. conn[c].pc \in BeforeSubscribe \cup {"subscribed"} => conn[c].out = "none"
    BY <1>0 DEF ChannelInv
  <2> HIDE DEF h
  <2> QED
    BY <1>22, <1>h, <2>1, <2>2, <2>3 DEF Disconnect
<1>23. ASSUME NEW c \in Conn, Stall(c) PROVE TerminalIInv'
  <2> DEFINE h == [conn[c] EXCEPT !.stalled = TRUE]
  <2>1. h \in Handler /\ h.pc = conn[c].pc /\ h.out = conn[c].out
    BY <1>t DEF Handler, HandlerPc, BeforeSubscribe
  <2>2. conn' = [conn EXCEPT ![c] = h]
    BY <1>0, <1>23 DEF Stall, CoreType
  <2>3. conn[c].pc \in BeforeSubscribe \cup {"subscribed"} => conn[c].out = "none"
    BY <1>0 DEF ChannelInv
  <2> HIDE DEF h
  <2> QED
    BY ZenonT(60), <1>23, <1>h, <2>1, <2>2, <2>3 DEF Stall
<1>24. ASSUME NEW c \in Conn, EndInput(c) PROVE TerminalIInv'
  <2> DEFINE h == IF registered THEN [conn[c] EXCEPT !.pc = "removing"] ELSE Returned(c)
  <2>1. h \in Handler /\ h.pc \in {"removing", "returned"} /\ h.out = conn[c].out
    BY <1>t DEF Handler, HandlerPc, BeforeSubscribe, Returned
  <2>2. conn' = [conn EXCEPT ![c] = h]
    BY <1>0, <1>24 DEF EndInput, CoreType
  <2> HIDE DEF h
  <2> QED
    BY <1>24, <1>h, <2>1, <2>2 DEF EndInput, BeforeSubscribe
<1>25. ASSUME NEW c \in Conn, Unsubscribe(c) PROVE TerminalIInv'
  <2> DEFINE h == Returned(c)
  <2>1. h \in Handler /\ h.pc = "returned" /\ h.out = conn[c].out
    BY <1>t DEF Handler, HandlerPc, BeforeSubscribe, Returned
  <2>2. conn' = [conn EXCEPT ![c] = h] /\ subs' \subseteq subs
    BY <1>0, <1>25 DEF Unsubscribe, CoreType
  <2> HIDE DEF h
  <2> QED
    BY <1>25, <1>h, <2>1, <2>2 DEF Unsubscribe, BeforeSubscribe
<1>26. CASE UNCHANGED vars
  BY <1>0, <1>n, <1>26, <1>s DEF vars, OnceInv, NoPanic, LastSent
<1> QED
  BY <1>1, <1>2, <1>3, <1>4, <1>5, <1>6, <1>7, <1>8, <1>9, <1>10, <1>11, <1>12, <1>13, <1>14,
     <1>15, <1>16, <1>17, <1>18, <1>19, <1>20, <1>21, <1>22, <1>23, <1>24, <1>25, <1>26
  DEF Next, PumpStep, HandlerStep, OutputStep

-----------------------------------------------------------------------------

\* No channel is closed twice or used after it was closed (local.go: pumpOutput,
\* Close, Subscribe and Unsubscribe), with any number of connections.
THEOREM ChannelsUsedSafely == Spec => []NoPanic
BY TerminalInitial, TerminalStep, PTL DEF Spec, TerminalIInv

\* The live output of a connection has no gap and no repetition, whatever its
\* speed, the sizes of the channels and the moment it subscribed: pumpOutput
\* evicts a slow subscriber, it never skips a chunk (local.go, pumpOutput).
THEOREM LiveOutputConsecutive == Spec => []LiveConsecutive
<1>1. TerminalIInv => LiveConsecutive
  BY DEF TerminalIInv, StreamInv, Stream, LiveConsecutive
<1> QED
  BY <1>1, TerminalInitial, TerminalStep, PTL DEF Spec

-----------------------------------------------------------------------------
(* Types, the data race, and the end of a session.                         *)

\* A replay is no longer than the buffer and has only what was put there, also one
\* copied while a Write is half done (local.go:274 against local.go:232).
ReplayInBuffer ==
    /\ replay \in [Conn -> Seq(Chunk \cup {NoChunk})]
    /\ \A c \in Conn : Len(replay[c]) <= Size

\* When pumpOutput has ended, every output goroutine that still runs has been
\* told to stop, also one whose handler subscribed after the subscribers were
\* closed.
NobodyStranded ==
    pump = "ended" => \A c \in Conn : conn[c].out \in {"select", "write"} => OutputOver(c)

\* Whoever has been through closeOnce has closed done, and pumpOutput forgets
\* the session only then.
EndInv ==
    /\ once = "done" => doneClosed
    /\ pump \in {"forget", "ended"} => once = "done"
    /\ \A c \in Conn : conn[c].out \in {"select", "write"} => conn[c].done # "none"

\* The inductive invariant of the session's types.
SessionIInv ==
    /\ TypeOK
    /\ pump \in {"write", "broadcast"} => read > 0
    /\ ReplayInBuffer
    /\ EndInv

\* Write of one chunk leaves a well-formed buffer (ringbuf.go).
LEMMA RingWritten ==
  ASSUME NEW rb \in Buffer!Ring, NEW k \in Chunk
  PROVE  Buffer!Write(rb, <<k>>) \in Buffer!Ring
<1> DEFINE p == <<k>>
           r == Buffer!Write(rb, p)
<1>0. Size \in Nat \ {0} /\ Len(p) = 1 /\ p[1] = k
  BY TerminalAssumption
<1>1. /\ rb.buf \in [Buffer!Cell -> Chunk \cup {NoChunk}] /\ rb.w \in Buffer!Cell /\ rb.full \in BOOLEAN
  BY DEF Buffer!Ring
<1>2. rb.w \in 0 .. Size - 1 /\ rb.w \in Nat
  BY <1>0, <1>1 DEF Buffer!Cell
<1> HIDE DEF p
<1>3. Buffer!FirstSegment(rb, p) = 1
  BY <1>0, <1>2 DEF Buffer!FirstSegment
<1>4. Buffer!Position(rb, p) \in Buffer!Cell
  BY <1>0, <1>2, <1>3 DEF Buffer!Position, Buffer!Cell
<1>5. Buffer!Wrapped(rb, p) \in BOOLEAN
  BY <1>1 DEF Buffer!Wrapped
<1>6. Buffer!Copied(rb, p) \in [Buffer!Cell -> Chunk \cup {NoChunk}]
  <2>1. ASSUME NEW i \in Buffer!Cell
        PROVE  (IF Len(p) >= Size THEN p[Len(p) - Size + i + 1]
                ELSE IF rb.w <= i /\ i < rb.w + 1 THEN p[i - rb.w + 1]
                ELSE IF i < Len(p) - 1 THEN p[1 + i + 1]
                ELSE rb.buf[i]) \in Chunk \cup {NoChunk}
    <3>0. i \in 0 .. Size - 1 /\ i \in Nat /\ rb.buf[i] \in Chunk \cup {NoChunk}
      BY <1>0, <1>1 DEF Buffer!Cell
    <3>1. CASE Len(p) >= Size
      <4>1. Len(p) - Size + i + 1 = 1
        BY <1>0, <3>0, <3>1
      <4> QED
        BY <1>0, <3>1, <4>1
    <3>2. CASE ~(Len(p) >= Size) /\ rb.w <= i /\ i < rb.w + 1
      <4>1. i - rb.w + 1 = 1
        BY <1>2, <3>0, <3>2
      <4> QED
        BY <1>0, <3>2, <4>1
    <3>3. CASE ~(Len(p) >= Size) /\ ~(rb.w <= i /\ i < rb.w + 1)
      <4>1. ~(i < Len(p) - 1)
        BY <1>0, <3>0
      <4> QED
        BY <3>0, <3>3, <4>1
    <3> QED
      BY <3>1, <3>2, <3>3
  <2> QED
    BY <1>3, <2>1 DEF Buffer!Copied
<1>7. r = [buf |-> Buffer!Copied(rb, p), w |-> Buffer!Position(rb, p), full |-> Buffer!Wrapped(rb, p)]
  BY DEF Buffer!Write
<1> QED
  BY <1>4, <1>5, <1>6, <1>7 DEF Buffer!Ring, p

\* Every buffer that Bytes can find is well formed.
LEMMA FoundInRing ==
  ASSUME TypeOK, pump = "write" => read > 0, NEW c \in Conn
  PROVE  Found(c) \subseteq Buffer!Ring
<1>1. ring \in Buffer!Ring /\ seen[c] \subseteq Buffer!Ring
  BY DEF TypeOK
<1>2. pump = "write" => Buffer!Write(ring, <<read>>) \in Buffer!Ring
  <2> SUFFICES ASSUME pump = "write" PROVE Buffer!Write(ring, <<read>>) \in Buffer!Ring
    OBVIOUS
  <2>1. read \in Chunk
    BY TerminalAssumption DEF TypeOK, Chunk
  <2> QED
    BY <1>1, <2>1, RingWritten
<1> QED
  BY <1>1, <1>2 DEF Found

\* A copy fits in the buffer, wherever the position and the flag come from.
LEMMA CopyInBuffer ==
  ASSUME NEW f \in BOOLEAN, NEW w \in 0 .. Size, NEW v \in 0 .. Size,
         NEW b \in [Buffer!Cell -> Chunk \cup {NoChunk}]
  PROVE  Copy(f, w, v, b) \in Seq(Chunk \cup {NoChunk}) /\ Len(Copy(f, w, v, b)) <= Size
<1> DEFINE B == Chunk \cup {NoChunk}
<1>0. Size \in Nat \ {0}
  BY TerminalAssumption
<1>1. b \in [0 .. Size - 1 -> B] /\ w \in 0 .. Size /\ v \in 0 .. Size /\ NoChunk \in B
  BY DEF Buffer!Cell
<1> HIDE DEF B
<1>2. CASE f
  <2> DEFINE s == [k \in 1 .. Size |-> IF k <= Size - w THEN b[w + k - 1]
                                       ELSE IF k <= Size - w + v THEN b[k - (Size - w) - 1]
                                       ELSE NoChunk]
  <2>1. Copy(f, w, v, b) = s
    BY <1>2 DEF Copy
  <2>2. s \in [1 .. Size -> B]
    <3> SUFFICES ASSUME NEW k \in 1 .. Size PROVE s[k] \in B
      OBVIOUS
    <3>1. CASE k <= Size - w
      <4>1. w + k - 1 \in 0 .. Size - 1
        BY <1>0, <1>1, <3>1
      <4> QED
        BY <1>1, <3>1, <4>1
    <3>2. CASE ~(k <= Size - w) /\ k <= Size - w + v
      <4>1. k - (Size - w) - 1 \in 0 .. Size - 1
        BY <1>0, <1>1, <3>2
      <4> QED
        BY <1>1, <3>2, <4>1
    <3>3. CASE ~(k <= Size - w) /\ ~(k <= Size - w + v)
      BY <1>1, <3>3
    <3> QED
      BY <3>1, <3>2, <3>3
  <2>3. s \in Seq(B) /\ Len(s) = Size
    <3> HIDE DEF s
    <3> QED
      BY <1>0, <2>2
  <2> HIDE DEF s
  <2> QED
    BY <1>0, <2>1, <2>3 DEF B
<1>3. CASE ~f
  <2> DEFINE s == [k \in 1 .. w |-> IF k <= v THEN b[k - 1] ELSE NoChunk]
  <2>1. Copy(f, w, v, b) = s
    BY <1>3 DEF Copy
  <2>2. s \in [1 .. w -> B] /\ w \in Nat /\ w <= Size
    BY <1>0, <1>1
  <2>3. s \in Seq(B) /\ Len(s) = w
    <3> HIDE DEF s
    <3> QED
      BY <2>2
  <2> HIDE DEF s
  <2> QED
    BY <2>1, <2>2, <2>3 DEF B
<1> QED
  BY <1>2, <1>3

\* What a connection copies while pumpOutput writes has the size and the cells of
\* a buffer, though it may be one that never was.
LEMMA ReplayContentInBuffer ==
  ASSUME TypeOK, pump = "write" => read > 0, NEW c \in Conn, NEW s \in ReplayContent(c)
  PROVE  s \in Seq(Chunk \cup {NoChunk}) /\ Len(s) <= Size
<1>0. Size \in Nat \ {0}
  BY TerminalAssumption
<1>1. \A r \in Found(c) : r.full \in BOOLEAN /\ r.w \in 0 .. Size
  BY <1>0, FoundInRing DEF Buffer!Ring, Buffer!Cell
<1>2. PICK f \in {r.full : r \in Found(c)}, w \in Positions(c), v \in Positions(c),
           b \in [Buffer!Cell -> Chunk \cup {NoChunk}] : s = Copy(f, w, v, b)
  BY DEF ReplayContent
<1>3. f \in BOOLEAN /\ w \in 0 .. Size /\ v \in 0 .. Size
  BY <1>0, <1>1, <1>2 DEF Positions
<1> QED
  BY <1>2, <1>3, CopyInBuffer

LEMMA SessionInitial == Init => SessionIInv
<1> SUFFICES ASSUME Init PROVE SessionIInv
  OBVIOUS
<1> USE DEF Init
<1>0. Size \in Nat \ {0} /\ MaxOutput \in Nat
  BY TerminalAssumption
<1>1. ring \in Buffer!Ring
  <2>1. Buffer!NewRingBuffer = [buf |-> [i \in Buffer!Cell |-> NoChunk], w |-> 0, full |-> FALSE]
    BY DEF Buffer!NewRingBuffer
  <2>2. 0 \in Buffer!Cell
    BY <1>0 DEF Buffer!Cell
  <2> QED
    BY <2>1, <2>2 DEF Buffer!Ring
<1>2. conn \in [Conn -> Handler] /\ \A c \in Conn : conn[c].out = "none"
  BY DEF Handler, HandlerPc, BeforeSubscribe
<1>3. ch \in [Conn -> Channel]
  <2>1. <<>> \in Seq(Chunk)
    OBVIOUS
  <2> QED
    BY <2>1 DEF Channel
<1>4. TypeOK
  <2>1. printed \in 0 .. MaxOutput /\ read \in 0 .. printed
    BY <1>0
  <2>2. {ptmxOpen, registered, doneClosed, panics} \subseteq BOOLEAN
    OBVIOUS
  <2> QED
    BY <1>1, <1>2, <1>3, <2>1, <2>2 DEF TypeOK, PumpPc, Shell
<1>5. ReplayInBuffer
  <2>1. <<>> \in Seq(Chunk \cup {NoChunk}) /\ Len(<<>>) <= Size
    BY <1>0
  <2> QED
    BY <2>1 DEF ReplayInBuffer
<1>6. EndInv
  BY <1>2 DEF EndInv
<1> QED
  BY <1>4, <1>5, <1>6 DEF SessionIInv

LEMMA SessionStep == SessionIInv /\ [Next]_vars => SessionIInv'
<1> SUFFICES ASSUME SessionIInv, [Next]_vars PROVE SessionIInv'
  OBVIOUS
<1> USE DEF sessionVars
<1>0. TypeOK /\ (pump \in {"write", "broadcast"} => read > 0) /\ ReplayInBuffer /\ EndInv
  BY DEF SessionIInv
<1>a. Size \in Nat \ {0} /\ MaxOutput \in Nat
  BY TerminalAssumption
<1>n. printed \in Nat /\ read \in Nat /\ read <= printed /\ printed <= MaxOutput
  BY <1>0, <1>a DEF TypeOK
<1>t. /\ conn \in [Conn -> Handler] /\ ch \in [Conn -> Channel] /\ subs \subseteq Conn
      /\ ring \in Buffer!Ring /\ seen \in [Conn -> SUBSET Buffer!Ring]
  BY <1>0 DEF TypeOK
<1>b. ptmxOpen \in BOOLEAN /\ registered \in BOOLEAN /\ doneClosed \in BOOLEAN /\ panics \in BOOLEAN
  BY <1>0 DEF TypeOK
\* What a step of the session leaves to show.
<1>s. ASSUME UNCHANGED <<conn, replay>>, shell' \in Shell, seen' \in [Conn -> SUBSET Buffer!Ring],
             printed' \in 0 .. MaxOutput, read' \in 0 .. printed', ring' \in Buffer!Ring,
             subs' \subseteq Conn, ch' \in [Conn -> Channel],
             ptmxOpen' \in BOOLEAN, registered' \in BOOLEAN, doneClosed' \in BOOLEAN, panics' \in BOOLEAN,
             once' \in {"free", "pump", "done"}, pump' \in PumpPc, closer' \in {"idle", "once", "returned"},
             pump' \in {"write", "broadcast"} => read' > 0,
             once' = "done" => doneClosed', pump' \in {"forget", "ended"} => once' = "done"
      PROVE  SessionIInv'
  <2>1. TypeOK'
    BY <1>t, <1>s DEF TypeOK
  <2>2. ReplayInBuffer'
    BY <1>0, <1>s DEF ReplayInBuffer
  <2>3. EndInv'
    BY <1>0, <1>s DEF EndInv
  <2> QED
    BY <1>s, <2>1, <2>2, <2>3 DEF SessionIInv
\* What a step of a connection leaves to show.
<1>h. ASSUME NEW c \in Conn, NEW h \in Handler, conn' = [conn EXCEPT ![c] = h],
             UNCHANGED <<shell, printed, read, ptmxOpen, ring, registered, once, doneClosed, pump, closer, panics>>,
             subs' \subseteq Conn, ch' \in [Conn -> Channel], seen' \in [Conn -> SUBSET Buffer!Ring],
             h.out \in {"select", "write"} => h.done # "none", ReplayInBuffer'
      PROVE  SessionIInv'
  <2>0. conn' \in [Conn -> Handler] /\ conn'[c] = h /\ \A d \in Conn \ {c} : conn'[d] = conn[d]
    BY <1>t, <1>h
  <2>1. TypeOK'
    BY <1>0, <1>h, <2>0 DEF TypeOK
  <2>2. EndInv'
    BY <1>0, <1>h, <2>0 DEF EndInv
  <2> QED
    BY <1>0, <1>h, <2>1, <2>2 DEF SessionIInv
<1>r. ASSUME UNCHANGED replay PROVE ReplayInBuffer'
  BY <1>0, <1>r DEF ReplayInBuffer
<1>e. /\ once = "done" => doneClosed
      /\ pump \in {"forget", "ended"} => once = "done"
      /\ \A c \in Conn : conn[c].out \in {"select", "write"} => conn[c].done # "none"
  BY <1>0 DEF EndInv
<1>v. /\ shell \in Shell /\ printed \in 0 .. MaxOutput /\ read \in 0 .. printed
      /\ once \in {"free", "pump", "done"} /\ pump \in PumpPc /\ closer \in {"idle", "once", "returned"}
  BY <1>0 DEF TypeOK
<1>k. \A c \in Conn : conn[c] \in Handler /\ ch[c] \in Channel
  BY <1>t
<1>1. CASE ShellPrints
  <2>1. printed' \in 0 .. MaxOutput /\ read' \in 0 .. printed'
    BY <1>a, <1>n, <1>1 DEF ShellPrints
  <2> QED
    BY <1>0, <1>t, <1>b, <1>e, <1>v, <1>1, <1>s, <2>1 DEF ShellPrints
<1>2. ASSUME NEW s \in Shell, ShellLeaves(s) PROVE SessionIInv'
  BY <1>0, <1>t, <1>b, <1>e, <1>v, <1>2, <1>s DEF ShellLeaves
<1>3. CASE ReadPty
  <2>1. printed' = printed /\ read' \in 0 .. printed' /\ (pump' = "write" => read' > 0)
    BY <1>n, <1>3 DEF ReadPty
  <2>2. pump' \in {"write", "unsubscribe"}
    BY <1>3 DEF ReadPty
  <2> QED
    BY <1>t, <1>b, <1>e, <1>v, <1>3, <1>s, <2>1, <2>2 DEF ReadPty, PumpPc
<1>4. CASE WriteBuffer
  <2>1. read \in Chunk /\ read > 0
    BY <1>0, <1>a, <1>n, <1>4 DEF WriteBuffer, Chunk
  <2>2. ring' \in Buffer!Ring
    BY <1>t, <1>4, <2>1, RingWritten DEF WriteBuffer
  <2>3. seen' \in [Conn -> SUBSET Buffer!Ring]
    <3>1. \A c \in Conn : seen[c] \subseteq Buffer!Ring /\ seen[c] \cup {ring'} \subseteq Buffer!Ring
      BY <1>t, <2>2
    <3> QED
      BY <1>4, <3>1 DEF WriteBuffer
  <2> QED
    BY <1>t, <1>b, <1>e, <1>v, <1>4, <1>s, <2>1, <2>2, <2>3 DEF WriteBuffer, PumpPc
<1>5. CASE Broadcast
  <2>1. read \in Chunk
    BY <1>0, <1>a, <1>n, <1>5 DEF Broadcast, Chunk
  <2>2. \A c \in Conn : /\ [ch[c] EXCEPT !.closed = TRUE] \in Channel
                        /\ [ch[c] EXCEPT !.queue = Append(@, read)] \in Channel
    <3> SUFFICES ASSUME NEW c \in Conn
                 PROVE  /\ [ch[c] EXCEPT !.closed = TRUE] \in Channel
                        /\ [ch[c] EXCEPT !.queue = Append(@, read)] \in Channel
      OBVIOUS
    <3>1. ch[c] \in [queue : Seq(Chunk), closed : BOOLEAN]
      BY <1>k DEF Channel
    <3>2. Append(ch[c].queue, read) \in Seq(Chunk)
      BY <2>1, <3>1
    <3> QED
      BY <3>1, <3>2 DEF Channel
  <2>3. ch' \in [Conn -> Channel]
    BY <1>k, <1>5, <2>2 DEF Broadcast
  <2>4. panics' \in BOOLEAN /\ subs' \subseteq Conn /\ pump' = "read"
    BY <1>t, <1>5 DEF Broadcast
  <2> QED
    BY <1>t, <1>b, <1>e, <1>v, <1>5, <1>s, <2>3, <2>4 DEF Broadcast, PumpPc
<1>6. CASE CloseSubscribers
  <2>1. \A c \in Conn : [ch[c] EXCEPT !.closed = TRUE] \in Channel
    BY <1>k DEF Channel
  <2>2. ch' \in [Conn -> Channel]
    BY <1>k, <1>6, <2>1 DEF CloseSubscribers
  <2>3. panics' \in BOOLEAN /\ subs' \subseteq Conn /\ pump' = "once"
    BY <1>6 DEF CloseSubscribers
  <2> QED
    BY <1>t, <1>b, <1>e, <1>v, <1>6, <1>s, <2>2, <2>3 DEF CloseSubscribers, PumpPc
<1>7. CASE PumpOnce
  <2>1. /\ ptmxOpen' \in BOOLEAN /\ once' \in {"free", "pump", "done"} /\ pump' \in {"wait", "forget"}
        /\ once' = "done" => doneClosed' /\ pump' = "forget"
        /\ pump' = "forget" => once' = "done"
    BY <1>b, <1>e, <1>7 DEF PumpOnce
  <2> QED
    BY <1>t, <1>b, <1>e, <1>v, <1>7, <1>s, <2>1 DEF PumpOnce, PumpPc
<1>8. CASE WaitShell
  <2>1. panics' \in BOOLEAN /\ doneClosed' = TRUE /\ once' = "done" /\ pump' = "forget"
    BY <1>8 DEF WaitShell
  <2> QED
    BY <1>t, <1>b, <1>v, <1>8, <1>s, <2>1 DEF WaitShell, PumpPc
<1>9. CASE Forget
  BY <1>t, <1>b, <1>e, <1>v, <1>9, <1>s DEF Forget, PumpPc
<1>10. CASE Close
  BY <1>0, <1>t, <1>b, <1>e, <1>v, <1>10, <1>s DEF Close
<1>11. CASE CloseOnce
  <2>1. /\ ptmxOpen' \in BOOLEAN /\ panics' \in BOOLEAN /\ doneClosed' \in BOOLEAN
        /\ shell' \in Shell /\ once' = "done" /\ doneClosed'
    <3>1. CASE once = "free"
      BY <1>b, <1>11, <3>1 DEF CloseOnce, Shell
    <3>2. CASE once = "done"
      BY <1>b, <1>e, <1>v, <1>11, <3>2 DEF CloseOnce
    <3> QED
      BY <1>11, <3>1, <3>2 DEF CloseOnce
  <2> QED
    BY <1>0, <1>t, <1>b, <1>v, <1>11, <1>s, <2>1 DEF CloseOnce
<1>12. ASSUME NEW c \in Conn, Connect(c) PROVE SessionIInv'
  <2> DEFINE h == [conn[c] EXCEPT !.pc = "upgraded", !.open = TRUE]
  <2>1. h \in Handler /\ h.out = conn[c].out /\ h.done = conn[c].done
    BY <1>k DEF Handler, HandlerPc, BeforeSubscribe
  <2>2. conn' = [conn EXCEPT ![c] = h]
    BY <1>t, <1>12 DEF Connect
  <2> HIDE DEF h
  <2> QED
    BY <1>t, <1>e, <1>12, <1>h, <1>r, <2>1, <2>2 DEF Connect
<1>13. ASSUME NEW c \in Conn, StartReplay(c) PROVE SessionIInv'
  <2> DEFINE h == [conn[c] EXCEPT !.pc = IF registered THEN "copying" ELSE "replayed"]
  <2>1. h \in Handler /\ h.out = conn[c].out /\ h.done = conn[c].done
    BY <1>k DEF Handler, HandlerPc, BeforeSubscribe
  <2>2. conn' = [conn EXCEPT ![c] = h]
    BY <1>t, <1>13 DEF StartReplay
  <2>3. seen' \in [Conn -> SUBSET Buffer!Ring]
    BY <1>t, <1>13 DEF StartReplay
  <2> HIDE DEF h
  <2> QED
    BY <1>t, <1>e, <1>13, <1>h, <1>r, <2>3, <2>1, <2>2 DEF StartReplay
<1>14. ASSUME NEW c \in Conn, FinishReplay(c) PROVE SessionIInv'
  <2>0. PICK content \in ReplayContent(c) :
          /\ replay' = [replay EXCEPT ![c] = content]
          /\ conn' = [conn EXCEPT ![c].pc = IF content = <<>> THEN "replayed" ELSE "replay"]
    BY <1>14 DEF FinishReplay
  <2> DEFINE h == [conn[c] EXCEPT !.pc = IF content = <<>> THEN "replayed" ELSE "replay"]
  <2>1. h \in Handler /\ h.out = conn[c].out /\ h.done = conn[c].done
    BY <1>k DEF Handler, HandlerPc, BeforeSubscribe
  <2>2. conn' = [conn EXCEPT ![c] = h]
    BY <1>t, <2>0
  <2>3. ReplayInBuffer'
    <3>1. content \in Seq(Chunk \cup {NoChunk}) /\ Len(content) <= Size
      BY <1>0, ReplayContentInBuffer
    <3> QED
      BY <1>0, <2>0, <3>1 DEF ReplayInBuffer
  <2>4. seen' \in [Conn -> SUBSET Buffer!Ring]
    BY <1>t, <1>14 DEF FinishReplay
  <2> HIDE DEF h
  <2> QED
    BY <1>t, <1>e, <1>14, <1>h, <2>1, <2>2, <2>3, <2>4 DEF FinishReplay
<1>15. ASSUME NEW c \in Conn, WriteReplay(c) PROVE SessionIInv'
  <2> DEFINE h == [conn[c] EXCEPT !.pc = "replayed"]
  <2>1. h \in Handler /\ h.out = conn[c].out /\ h.done = conn[c].done
    BY <1>k DEF Handler, HandlerPc, BeforeSubscribe
  <2>2. conn' = [conn EXCEPT ![c] = h]
    BY <1>t, <1>15 DEF WriteReplay
  <2> HIDE DEF h
  <2> QED
    BY <1>t, <1>e, <1>15, <1>h, <1>r, <2>1, <2>2 DEF WriteReplay
<1>16. ASSUME NEW c \in Conn, SubscribeLookup(c) PROVE SessionIInv'
  <2> DEFINE h == IF registered THEN [conn[c] EXCEPT !.pc = "found"] ELSE Returned(c)
  <2>1. h \in Handler /\ h.out = conn[c].out /\ h.done = conn[c].done
    BY <1>k DEF Handler, HandlerPc, BeforeSubscribe, Returned
  <2>2. conn' = [conn EXCEPT ![c] = h]
    BY <1>t, <1>16 DEF SubscribeLookup
  <2> HIDE DEF h
  <2> QED
    BY <1>t, <1>e, <1>16, <1>h, <1>r, <2>1, <2>2 DEF SubscribeLookup
<1>17. ASSUME NEW c \in Conn, Subscribe(c) PROVE SessionIInv'
  <2> DEFINE h == [conn[c] EXCEPT !.pc = "subscribed"]
  <2>1. h \in Handler /\ h.out = conn[c].out /\ h.done = conn[c].done
    BY <1>k DEF Handler, HandlerPc, BeforeSubscribe
  <2>2. conn' = [conn EXCEPT ![c] = h]
    BY <1>t, <1>17 DEF Subscribe
  <2> HIDE DEF h
  <2> QED
    BY ZenonT(60), <1>t, <1>e, <1>17, <1>h, <1>r, <2>1, <2>2 DEF Subscribe
<1>18. ASSUME NEW c \in Conn, StartPumps(c) PROVE SessionIInv'
  <2> DEFINE h == [conn[c] EXCEPT !.pc = "serving", !.out = "select",
                                  !.done = IF registered THEN "session" ELSE "closed"]
  <2>1. h \in Handler /\ h.done # "none"
    BY <1>k DEF Handler, HandlerPc, BeforeSubscribe
  <2>2. conn' = [conn EXCEPT ![c] = h]
    BY <1>t, <1>18 DEF StartPumps
  <2> HIDE DEF h
  <2> QED
    BY <1>t, <1>e, <1>18, <1>h, <1>r, <2>1, <2>2 DEF StartPumps
<1>19. ASSUME NEW c \in Conn, TakeChunk(c) PROVE SessionIInv'
  <2> DEFINE h == [conn[c] EXCEPT !.out = "write"]
  <2>1. h \in Handler /\ h.done # "none"
    BY <1>k, <1>e, <1>19 DEF Handler, HandlerPc, BeforeSubscribe, TakeChunk
  <2>2. conn' = [conn EXCEPT ![c] = h]
    BY <1>t, <1>19 DEF TakeChunk
  <2>3. [ch[c] EXCEPT !.queue = Tail(@)] \in Channel
    <3>1. ch[c].queue \in Seq(Chunk) /\ ch[c].queue # <<>>
      BY <1>k, <1>19 DEF TakeChunk, Channel
    <3>2. Tail(ch[c].queue) \in Seq(Chunk)
      BY <3>1
    <3> QED
      BY <1>k, <3>2 DEF Channel
  <2>4. ch' \in [Conn -> Channel]
    BY <1>t, <1>19, <2>3 DEF TakeChunk
  <2> HIDE DEF h
  <2> QED
    BY <1>t, <1>19, <1>h, <1>r, <2>1, <2>2, <2>4 DEF TakeChunk
<1>20. ASSUME NEW c \in Conn, WriteChunk(c) PROVE SessionIInv'
  <2> DEFINE h == [conn[c] EXCEPT !.out = IF conn[c].open THEN "select" ELSE "ended"]
  <2>1. h \in Handler /\ h.done # "none"
    BY <1>k, <1>e, <1>20 DEF Handler, HandlerPc, BeforeSubscribe, WriteChunk
  <2>2. conn' = [conn EXCEPT ![c] = h]
    BY <1>t, <1>20 DEF WriteChunk
  <2> HIDE DEF h
  <2> QED
    BY <1>t, <1>20, <1>h, <1>r, <2>1, <2>2 DEF WriteChunk
<1>21. ASSUME NEW c \in Conn, EndOutput(c) PROVE SessionIInv'
  <2> DEFINE h == [conn[c] EXCEPT !.out = "ended", !.open = FALSE]
  <2>1. h \in Handler /\ h.out = "ended"
    BY <1>k DEF Handler, HandlerPc, BeforeSubscribe
  <2>2. conn' = [conn EXCEPT ![c] = h]
    BY <1>t, <1>21 DEF EndOutput
  <2> HIDE DEF h
  <2> QED
    BY <1>t, <1>e, <1>21, <1>h, <1>r, <2>1, <2>2 DEF EndOutput
<1>22. ASSUME NEW c \in Conn, Disconnect(c) PROVE SessionIInv'
  <2> DEFINE h == [conn[c] EXCEPT !.open = FALSE, !.stalled = FALSE]
  <2>1. h \in Handler /\ h.out = conn[c].out /\ h.done = conn[c].done
    BY <1>k DEF Handler, HandlerPc, BeforeSubscribe
  <2>2. conn' = [conn EXCEPT ![c] = h]
    BY <1>t, <1>22 DEF Disconnect
  <2> HIDE DEF h
  <2> QED
    BY <1>t, <1>e, <1>22, <1>h, <1>r, <2>1, <2>2 DEF Disconnect
<1>23. ASSUME NEW c \in Conn, Stall(c) PROVE SessionIInv'
  <2> DEFINE h == [conn[c] EXCEPT !.stalled = TRUE]
  <2>1. h \in Handler /\ h.out = conn[c].out /\ h.done = conn[c].done
    BY <1>k DEF Handler, HandlerPc, BeforeSubscribe
  <2>2. conn' = [conn EXCEPT ![c] = h]
    BY <1>t, <1>23 DEF Stall
  <2> HIDE DEF h
  <2> QED
    BY <1>t, <1>e, <1>23, <1>h, <1>r, <2>1, <2>2 DEF Stall
<1>24. ASSUME NEW c \in Conn, EndInput(c) PROVE SessionIInv'
  <2> DEFINE h == IF registered THEN [conn[c] EXCEPT !.pc = "removing"] ELSE Returned(c)
  <2>1. h \in Handler /\ h.out = conn[c].out /\ h.done = conn[c].done
    BY <1>k DEF Handler, HandlerPc, BeforeSubscribe, Returned
  <2>2. conn' = [conn EXCEPT ![c] = h]
    BY <1>t, <1>24 DEF EndInput
  <2> HIDE DEF h
  <2> QED
    BY <1>t, <1>e, <1>24, <1>h, <1>r, <2>1, <2>2 DEF EndInput
<1>25. ASSUME NEW c \in Conn, Unsubscribe(c) PROVE SessionIInv'
  <2> DEFINE h == Returned(c)
  <2>1. h \in Handler /\ h.out = conn[c].out /\ h.done = conn[c].done
    BY <1>k DEF Handler, HandlerPc, BeforeSubscribe, Returned
  <2>2. conn' = [conn EXCEPT ![c] = h]
    BY <1>t, <1>25 DEF Unsubscribe
  <2> HIDE DEF h
  <2> QED
    BY <1>t, <1>e, <1>25, <1>h, <1>r, <2>1, <2>2 DEF Unsubscribe
<1>26. CASE UNCHANGED vars
  BY <1>0, <1>t, <1>b, <1>e, <1>v, <1>26, <1>s DEF vars
<1> QED
  BY <1>1, <1>2, <1>3, <1>4, <1>5, <1>6, <1>7, <1>8, <1>9, <1>10, <1>11, <1>12, <1>13, <1>14,
     <1>15, <1>16, <1>17, <1>18, <1>19, <1>20, <1>21, <1>22, <1>23, <1>24, <1>25, <1>26
  DEF Next, PumpStep, HandlerStep, OutputStep

-----------------------------------------------------------------------------

\* Every variable of the session keeps its type: local.go never moves the write
\* position out of the buffer, and never sends what the shell did not print.
THEOREM TerminalTypeCorrect == Spec => []TypeOK
BY SessionInitial, SessionStep, PTL DEF Spec, SessionIInv

\* Bytes copies the ring buffer while Write may be half way through it, without
\* the mutex its comment asks for (local.go:274 and 232, ringbuf.go:21-22): what a
\* connection is sent may be out of order, it is never longer than the buffer
\* and never holds anything but chunks of the output and cells never written.
THEOREM ReplayHarmless == Spec => []ReplayInBuffer
BY SessionInitial, SessionStep, PTL DEF Spec, SessionIInv

\* When pumpOutput has ended, every output goroutine that still runs can end: its
\* channel is closed and drained, or the done channel it watches is closed, also
\* when its handler subscribed after pumpOutput had closed the subscribers.
THEOREM NoOutputStranded == Spec => []NobodyStranded
<1>1. SessionIInv => NobodyStranded
  <2> SUFFICES ASSUME SessionIInv, pump = "ended", NEW c \in Conn, conn[c].out \in {"select", "write"}
               PROVE  OutputOver(c)
    BY DEF NobodyStranded
  <2>1. doneClosed /\ conn[c].done # "none"
    BY DEF SessionIInv, EndInv
  <2>2. conn[c].done \in {"none", "session", "closed"}
    BY DEF SessionIInv, TypeOK, Handler
  <2> QED
    BY <2>1, <2>2 DEF OutputOver
<1> QED
  BY <1>1, SessionInitial, SessionStep, PTL DEF Spec

-----------------------------------------------------------------------------
(* What a replay shows when no write is under way.                         *)

\* The last chunks that fit in the buffer, of n.
LastChunks(n) ==
    LET m == IF n < Size THEN n ELSE Size IN
    [k \in 1 .. m |-> n - m + k]

\* A replay copied while no Write overlapped the copy shows the end of the output
\* up to the last chunk read from the PTY: in order and without a gap.
QuietReplayStep ==
    \A c \in Conn :
        FinishReplay(c) /\ seen[c] = {ring} /\ pump # "write" => replay'[c] = LastChunks(read)

QuietReplay == [][QuietReplayStep]_vars

\* The chunks pumpOutput has put into the ring buffer.
Written == IF pump = "write" THEN read - 1 ELSE read

\* Where each of the first n chunks is, when n were written.
Holds(rb, n) ==
    /\ ~rb.full => n = rb.w
    /\ rb.full => n >= Size
    /\ \A i \in 0 .. Size - 1 : i < rb.w => rb.buf[i] = n - rb.w + i + 1
    /\ \A i \in 0 .. Size - 1 : rb.full /\ rb.w <= i => rb.buf[i] = n - rb.w - Size + i + 1

\* A copy of one buffer unrolls it.
LEMMA CopyHeld ==
  ASSUME NEW rb \in Buffer!Ring, NEW n \in Nat, Holds(rb, n)
  PROVE  Copy(rb.full, rb.w, rb.w, rb.buf) = LastChunks(n)
<1>0. Size \in Nat \ {0}
  BY TerminalAssumption
<1>1. rb.buf \in [0 .. Size - 1 -> Chunk \cup {NoChunk}] /\ rb.w \in 0 .. Size - 1
  BY DEF Buffer!Ring, Buffer!Cell
<1>w. rb.w \in Nat /\ rb.w < Size /\ n \in Nat
  BY <1>0, <1>1
<1>2. CASE rb.full
  <2>1. LastChunks(n) = [k \in 1 .. Size |-> n - Size + k]
    BY <1>0, <1>2 DEF Holds, LastChunks
  <2> DEFINE Cell(k) == IF k <= Size - rb.w THEN rb.buf[rb.w + k - 1]
                        ELSE IF k <= Size - rb.w + rb.w THEN rb.buf[k - (Size - rb.w) - 1]
                        ELSE NoChunk
  <2>2. Copy(rb.full, rb.w, rb.w, rb.buf) = [k \in 1 .. Size |-> Cell(k)]
    BY <1>2 DEF Copy
  <2>3. ASSUME NEW k \in 1 .. Size PROVE Cell(k) = n - Size + k
    <3>0. k <= Size - rb.w + rb.w
      BY <1>0, <1>w
    <3>1. CASE k <= Size - rb.w
      <4> DEFINE i == rb.w + k - 1
      <4>1. i \in 0 .. Size - 1 /\ rb.w <= i /\ n - rb.w - Size + i + 1 = n - Size + k
        BY <1>0, <1>w, <3>1, SMTT(30)
      <4> HIDE DEF i
      <4>2. rb.buf[i] = n - Size + k
        BY <1>2, <4>1 DEF Holds
      <4> QED
        BY <3>1, <4>2 DEF i
    <3>2. CASE ~(k <= Size - rb.w)
      <4> DEFINE i == k - (Size - rb.w) - 1
      <4>1. i \in 0 .. Size - 1 /\ i < rb.w /\ n - rb.w + i + 1 = n - Size + k
        BY <1>0, <1>w, <3>2, SMTT(30)
      <4> HIDE DEF i
      <4>2. rb.buf[i] = n - Size + k
        BY <1>2, <4>1 DEF Holds
      <4> QED
        BY <3>0, <3>2, <4>2 DEF i
    <3> QED
      BY <3>1, <3>2
  <2> HIDE DEF Cell
  <2> QED
    BY <2>1, <2>2, <2>3
<1>3. CASE ~rb.full
  <2>0. n = rb.w /\ n < Size
    BY <1>0, <1>1, <1>3 DEF Holds
  <2>1. LastChunks(n) = [k \in 1 .. n |-> n - n + k]
    BY <2>0 DEF LastChunks
  <2> DEFINE Cell(k) == IF k <= rb.w THEN rb.buf[k - 1] ELSE NoChunk
  <2>2. Copy(rb.full, rb.w, rb.w, rb.buf) = [k \in 1 .. n |-> Cell(k)]
    BY <1>3, <2>0 DEF Copy
  <2>3. ASSUME NEW k \in 1 .. n PROVE Cell(k) = n - n + k
    <3> DEFINE i == k - 1
    <3>1. i \in 0 .. Size - 1 /\ i < rb.w /\ n - rb.w + i + 1 = n - n + k
      BY <1>0, <1>1, <2>0
    <3> HIDE DEF i
    <3>2. rb.buf[i] = n - n + k
      BY <3>1 DEF Holds
    <3> QED
      BY <2>0, <3>2 DEF i
  <2> HIDE DEF Cell
  <2> QED
    BY <2>1, <2>2, <2>3
<1> QED
  BY <1>2, <1>3

\* Write of the next chunk, in the four cases of position and flag.
LEMMA WriteHeld ==
  ASSUME NEW rb \in Buffer!Ring, NEW k \in Chunk, Holds(rb, k - 1)
  PROVE  Holds(Buffer!Write(rb, <<k>>), k)
<1> DEFINE p == <<k>>
           r == Buffer!Write(rb, p)
<1>0. Size \in Nat \ {0} /\ Len(p) = 1 /\ p[1] = k /\ k \in Nat \ {0}
  BY TerminalAssumption DEF Chunk
<1>1. rb.buf \in [0 .. Size - 1 -> Chunk \cup {NoChunk}] /\ rb.w \in 0 .. Size - 1 /\ rb.full \in BOOLEAN
  BY DEF Buffer!Ring, Buffer!Cell
<1> HIDE DEF p
<1>2. Buffer!FirstSegment(rb, p) = 1
  BY <1>0, <1>1 DEF Buffer!FirstSegment
<1>3. r.w = IF rb.w + 1 = Size THEN 0 ELSE rb.w + 1
  BY <1>0, <1>1, <1>2 DEF Buffer!Write, Buffer!Position
<1>4. r.full <=> rb.full \/ rb.w + 1 = Size
  <2>1. r.full = (rb.full \/ Len(p) >= Size - rb.w)
    BY DEF Buffer!Write, Buffer!Wrapped
  <2>2. Len(p) >= Size - rb.w <=> rb.w + 1 = Size
    BY <1>0, <1>1
  <2> QED
    BY <1>1, <2>1, <2>2
<1>5. ASSUME NEW i \in 0 .. Size - 1
      PROVE  r.buf[i] = IF i = rb.w THEN k ELSE rb.buf[i]
  <2>1. r.buf[i] = IF Len(p) >= Size THEN p[Len(p) - Size + i + 1]
                   ELSE IF rb.w <= i /\ i < rb.w + 1 THEN p[i - rb.w + 1]
                   ELSE IF i < Len(p) - 1 THEN p[1 + i + 1]
                   ELSE rb.buf[i]
    BY <1>2 DEF Buffer!Write, Buffer!Copied, Buffer!Cell
  <2>2. CASE Len(p) >= Size
    <3>1. Len(p) - Size + i + 1 = 1 /\ i = rb.w
      BY <1>0, <1>1, <2>2
    <3> QED
      BY <1>0, <2>1, <2>2, <3>1
  <2>3. CASE ~(Len(p) >= Size) /\ i = rb.w
    <3>1. i - rb.w + 1 = 1 /\ rb.w <= i /\ i < rb.w + 1
      BY <1>1, <2>3
    <3> QED
      BY <1>0, <2>1, <2>3, <3>1
  <2>4. CASE ~(Len(p) >= Size) /\ i # rb.w
    <3>1. ~(rb.w <= i /\ i < rb.w + 1) /\ ~(i < Len(p) - 1)
      BY <1>0, <1>1, <2>4
    <3> QED
      BY <2>1, <2>4, <3>1
  <2> QED
    BY <2>2, <2>3, <2>4
<1> HIDE DEF r
<1>6. (~r.full => k = r.w) /\ (r.full => k >= Size)
  BY <1>0, <1>1, <1>3, <1>4 DEF Holds
<1>7. ASSUME NEW i \in 0 .. Size - 1, i < r.w PROVE r.buf[i] = k - r.w + i + 1
  <2>1. r.w = rb.w + 1
    BY <1>0, <1>1, <1>3, <1>7
  <2>2. CASE i = rb.w
    BY <1>0, <1>1, <1>5, <2>1, <2>2
  <2>3. CASE i # rb.w
    <3>1. i < rb.w
      BY <1>1, <1>7, <2>1, <2>3
    <3>2. rb.buf[i] = (k - 1) - rb.w + i + 1
      BY <3>1 DEF Holds
    <3> QED
      BY <1>0, <1>1, <1>5, <2>1, <2>3, <3>2
  <2> QED
    BY <2>2, <2>3
<1>8. ASSUME NEW i \in 0 .. Size - 1, r.full, r.w <= i PROVE r.buf[i] = k - r.w - Size + i + 1
  <2>1. CASE rb.w + 1 = Size
    <3>1. r.w = 0 /\ i <= rb.w
      BY <1>0, <1>1, <1>3, <2>1
    <3>2. CASE i = rb.w
      <4>1. r.buf[i] = k
        BY <1>5, <3>2
      <4> QED
        BY <1>0, <1>1, <2>1, <3>1, <3>2, <4>1
    <3>3. CASE i # rb.w
      <4>1. i < rb.w
        BY <1>1, <3>1, <3>3
      <4>2. r.buf[i] = (k - 1) - rb.w + i + 1
        BY <1>5, <3>3, <4>1 DEF Holds
      <4> QED
        BY <1>0, <1>1, <2>1, <3>1, <4>2
    <3> QED
      BY <3>2, <3>3
  <2>2. CASE rb.w + 1 # Size
    <3>1. r.w = rb.w + 1 /\ rb.full
      BY <1>3, <1>4, <1>8, <2>2
    <3>2. i # rb.w /\ rb.w <= i
      BY <1>1, <1>8, <3>1
    <3>3. r.buf[i] = (k - 1) - rb.w - Size + i + 1
      BY <1>5, <3>1, <3>2 DEF Holds
    <3> QED
      BY <1>0, <1>1, <3>1, <3>3
  <2> QED
    BY <2>1, <2>2
<1>9. Holds(r, k)
  BY <1>6, <1>7, <1>8 DEF Holds
<1> QED
  BY <1>9 DEF r, p

\* The inductive invariant.
HistoryIInv == SessionIInv /\ Holds(ring, Written)

LEMMA HistoryStep == HistoryIInv /\ [Next]_vars => HistoryIInv'
<1> SUFFICES ASSUME SessionIInv, Holds(ring, Written), [Next]_vars
             PROVE  Holds(ring, Written)'
  BY SessionStep DEF HistoryIInv
<1> USE DEF sessionVars
<1>0. read \in Nat /\ ring \in Buffer!Ring /\ (pump \in {"write", "broadcast"} => read > 0)
  BY TerminalAssumption DEF SessionIInv, TypeOK
<1>s. ASSUME ring' = ring, Written' = Written PROVE Holds(ring, Written)'
  BY <1>s DEF Holds
<1>1. CASE ReadPty
  <2>1. Written' = Written
    BY <1>0, <1>1 DEF ReadPty, Written
  <2> QED
    BY <1>1, <1>s, <2>1 DEF ReadPty
<1>2. CASE WriteBuffer
  <2>1. read \in Chunk
    BY <1>0, <1>2, TerminalAssumption DEF WriteBuffer, SessionIInv, TypeOK, Chunk
  <2>2. Written = read - 1 /\ Written' = read /\ ring' = Buffer!Write(ring, <<read>>)
    BY <1>2 DEF WriteBuffer, Written
  <2>3. Holds(Buffer!Write(ring, <<read>>), read)
    BY <1>0, <2>1, <2>2, WriteHeld
  <2> QED
    BY <2>2, <2>3 DEF Holds
<1>3. CASE /\ ~ReadPty /\ ~WriteBuffer
  <2>1. ring' = ring /\ read' = read /\ (pump = "write" <=> pump' = "write")
    <3>1. CASE PumpStep \/ Close \/ CloseOnce \/ ShellPrints \/ \E s \in Shell : ShellLeaves(s)
      BY <1>3, <3>1 DEF PumpStep, Broadcast, CloseSubscribers, PumpOnce, WaitShell, Forget, Close, CloseOnce,
                        ShellPrints, ShellLeaves
    <3>2. ASSUME NEW c \in Conn,
                 \/ Connect(c) \/ HandlerStep(c) \/ OutputStep(c)
                 \/ Disconnect(c) \/ Stall(c) \/ EndInput(c)
          PROVE  ring' = ring /\ read' = read /\ pump' = pump
      BY <3>2 DEF Connect, HandlerStep, StartReplay, FinishReplay, WriteReplay, SubscribeLookup, Subscribe,
                  StartPumps, Unsubscribe, OutputStep, TakeChunk, WriteChunk, EndOutput, Disconnect, Stall,
                  EndInput
    <3>3. CASE UNCHANGED vars
      BY <3>3 DEF vars
    <3> QED
      BY <3>1, <3>2, <3>3 DEF Next
  <2> QED
    BY <1>s, <2>1 DEF Written
<1> QED
  BY <1>1, <1>2, <1>3

\* A connection whose copy of the ring buffer no Write of pumpOutput overlaps
\* (local.go:274) gets the last chunks of the output in order, whatever the size
\* of the buffer and however often it wrapped: the missing mutex is the only
\* reason why a replay can be out of order.
THEOREM QuietReplayInOrder == Spec => QuietReplay
<1>1. Init => HistoryIInv
  <2>1. Init => Holds(ring, Written)
    BY TerminalAssumption DEF Init, Holds, Written, Buffer!NewRingBuffer
  <2> QED
    BY <2>1, SessionInitial DEF HistoryIInv
<1>2. HistoryIInv => QuietReplayStep
  <2> SUFFICES ASSUME SessionIInv, Holds(ring, Written), NEW c \in Conn,
                      FinishReplay(c), seen[c] = {ring}, pump # "write"
               PROVE  replay'[c] = LastChunks(read)
    BY DEF HistoryIInv, QuietReplayStep
  <2>1. PICK content \in ReplayContent(c) : replay' = [replay EXCEPT ![c] = content]
    BY DEF FinishReplay
  <2>2. /\ ring \in Buffer!Ring /\ read \in Nat /\ Written = read
        /\ replay \in [Conn -> Seq(Chunk \cup {NoChunk})]
    BY TerminalAssumption DEF SessionIInv, TypeOK, ReplayInBuffer, Written
  <2>3. Found(c) = {ring} /\ Positions(c) = {ring.w}
    BY DEF Found, Positions
  <2>4. PICK b \in [Buffer!Cell -> Chunk \cup {NoChunk}] :
          (\A i \in Buffer!Cell : b[i] = ring.buf[i]) /\ content = Copy(ring.full, ring.w, ring.w, b)
    BY <2>3 DEF ReplayContent
  <2>5. b = ring.buf
    BY <2>2, <2>4 DEF Buffer!Ring
  <2>6. Copy(ring.full, ring.w, ring.w, ring.buf) = LastChunks(read)
    BY <2>2, CopyHeld
  <2> QED
    BY <2>1, <2>2, <2>4, <2>5, <2>6
<1> QED
  BY <1>1, <1>2, HistoryStep, PTL DEF Spec, QuietReplay
==============================================================================
