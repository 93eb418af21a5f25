---------------------------- MODULE MCExecTerminal ----------------------------
(* Instances of ExecTerminal for TLC.                                      *)
EXTENDS ExecTerminal

CONSTANTS p1, x1, c1
==============================================================================
