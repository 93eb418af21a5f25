------------------------------- MODULE ReplayLog -------------------------------
(***************************************************************************)
(* What a terminal's replay buffer promises: it keeps the most recent Size *)
(* bytes written to it, in order, and silently discards older ones         *)
(* (internal/terminal/ringbuf.go:3-5).                                     *)
(***************************************************************************)
EXTENDS Naturals, Sequences

CONSTANTS Size, Chunks

VARIABLES
    kept,
    arg   \* the argument of the last write

\* The last n elements of s.
Last(s, n) == IF Len(s) <= n THEN s ELSE SubSeq(s, Len(s) - n + 1, Len(s))

LogInit == kept = <<>> /\ arg = <<>>

Appended(p) ==
    /\ kept' = Last(kept \o p, Size)
    /\ arg' = p

LogNext == \E p \in Chunks : Appended(p)

LogSpec == LogInit /\ [][LogNext]_<<kept, arg>>
==============================================================================
