--------------------------- MODULE MCEgressPending ---------------------------
(* Instances of EgressPending for TLC.                                     *)
EXTENDS EgressPending, TLC

CONSTANTS t1, t2, r1, r2, d, a, i

\* Dashboard threads, and requests, are interchangeable.
Symmetry == Permutations(Thread) \cup Permutations(Request)
==============================================================================
