----------------------------- MODULE MCRingBuffer -----------------------------
(* Instances of RingBuffer for TLC: chunks of every length up to one more  *)
(* than the buffer holds.                                                  *)
EXTENDS RingBuffer

BytesOf(n) == [1 .. n -> Byte]

MCChunks == UNION {BytesOf(n) : n \in 0 .. Size + 1}
==============================================================================
