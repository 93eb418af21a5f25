------------------------------ MODULE RingBuffer ------------------------------
(***************************************************************************)
(* terminal.RingBuffer (internal/terminal/ringbuf.go): the last size bytes *)
(* written to a terminal, in a circular buffer of size cells.              *)
(*                                                                         *)
(* Write and Bytes are operators on the buffer's value, so that            *)
(* LocalTerminal can also say what happens when they run at the same time. *)
(***************************************************************************)
EXTENDS Naturals, Sequences

CONSTANTS
    Size,   \* the buffer's capacity
    Byte,   \* what a cell holds
    NoByte, \* a cell that was never written
    Chunks  \* the arguments of Write

ASSUME RingAssumption ==
    /\ Size \in Nat \ {0}
    /\ NoByte \notin Byte
    /\ \A p \in Chunks : p \in Seq(Byte)

Cell == 0 .. Size - 1

Ring == [buf : [Cell -> Byte \cup {NoByte}], w : Cell, full : BOOLEAN]

NewRingBuffer == [buf |-> [k \in Cell |-> NoByte], w |-> 0, full |-> FALSE]

\* How much of p fits between the write position and the end of the buffer.
FirstSegment(rb, p) == IF Len(p) < Size - rb.w THEN Len(p) ELSE Size - rb.w

\* What Write copies: the tail of p if p fills the buffer, else p in up to two
\* segments.
Copied(rb, p) ==
    LET n == FirstSegment(rb, p) IN
    [k \in Cell |->
        IF Len(p) >= Size THEN p[Len(p) - Size + k + 1]
        ELSE IF rb.w <= k /\ k < rb.w + n THEN p[k - rb.w + 1]
        ELSE IF k < Len(p) - n THEN p[n + k + 1]
        ELSE rb.buf[k]]

\* Mutant: after a wrap, the next Write starts over the second segment.
StuckPosition(rb, p) ==
    LET n == FirstSegment(rb, p) IN
    IF Len(p) >= Size THEN 0
    ELSE IF n < Len(p) THEN 0
    ELSE IF rb.w + n = Size THEN 0
    ELSE rb.w + n

\* Where the next Write starts.
Position(rb, p) ==
    LET n == FirstSegment(rb, p) IN
    IF Len(p) >= Size THEN 0
    ELSE IF n < Len(p) THEN Len(p) - n
    ELSE IF rb.w + n = Size THEN 0
    ELSE rb.w + n

Wrapped(rb, p) == rb.full \/ Len(p) >= Size - rb.w

Write(rb, p) == [buf |-> Copied(rb, p), w |-> Position(rb, p), full |-> Wrapped(rb, p)]

\* Cells in chronological order: [0, w) before the first wrap, [w, size) then
\* [0, w) after it.
Bytes(rb) ==
    IF rb.full
    THEN [k \in 1 .. Size |-> IF k <= Size - rb.w THEN rb.buf[rb.w + k - 1]
                                                  ELSE rb.buf[k - (Size - rb.w) - 1]]
    ELSE [k \in 1 .. rb.w |-> rb.buf[k - 1]]

-----------------------------------------------------------------------------
(* The buffer as a component.                                              *)

VARIABLES
    ring,
    arg    \* the argument of the last Write

RingInit ==
    /\ ring = NewRingBuffer
    /\ arg = <<>>

RingWrite(p) ==
    /\ ring' = Write(ring, p)
    /\ arg' = p

RingNext == \E p \in Chunks : RingWrite(p)

RingSpec == RingInit /\ [][RingNext]_<<ring, arg>>

\* ring is always a well-formed buffer: the write position never leaves it.
RingTypeOK == ring \in Ring

Log == INSTANCE ReplayLog WITH kept <- Bytes(ring)

\* Bytes returns the most recent Size bytes in the order they were written,
\* however the output is cut into writes: shorter than the buffer, ending at
\* its edge, wrapping over it, or longer than it.  (arg is part of both
\* specifications, so a write must have the effect of its own argument.)
IsReplayLog == Log!LogSpec
==============================================================================
