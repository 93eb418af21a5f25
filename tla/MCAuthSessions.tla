---------------------------- MODULE MCAuthSessions ----------------------------
(* Instances of AuthSessions for TLC.                                      *)
EXTENDS AuthSessions, TLC

CONSTANTS t1, t2, k1, k2, k3, p, q, s

Symmetry == Permutations(Thread) \cup Permutations(Token)
==============================================================================
