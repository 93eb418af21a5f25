--------------------------- MODULE MCProjectManager ---------------------------
(* Instances of ProjectManager for TLC.                                    *)
EXTENDS ProjectManager, TLC

CONSTANTS i1, i2, i3, a, b, d1, d2

Symmetry == Permutations(Id) \cup Permutations(Name) \cup Permutations(Deleter)
==============================================================================
