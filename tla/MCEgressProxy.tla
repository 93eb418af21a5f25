----------------------------- MODULE MCEgressProxy -----------------------------
(* Instances of EgressProxy for TLC.                                       *)
EXTENDS EgressProxy

CONSTANTS r1

\* a.b on two ports.
MCDest == {[host |-> <<"a", ".", "b">>, port |-> n] : n \in 1 .. 2}

\* a.b and *.b, on port 1.
MCEntry == {[host |-> h, port |-> 1] : h \in {<<"a", ".", "b">>, <<"*", ".", "b">>}}
==============================================================================
