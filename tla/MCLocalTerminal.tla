---------------------------- MODULE MCLocalTerminal ----------------------------
(* Instances of LocalTerminal for TLC.                                     *)
EXTENDS LocalTerminal, TLC

CONSTANTS c1, c2

Symmetry == Permutations(Conn)
==============================================================================
