------------------------------- MODULE MCBoot -------------------------------
(* The start of appx with two images and two port ranges.                   *)
EXTENDS Boot

MCConfig ==
    {[image |-> "v1", api |-> 1, start |-> 3, end |-> 5, egressBind |-> FALSE],
     [image |-> "v2", api |-> 1, start |-> 3, end |-> 5, egressBind |-> FALSE],
     [image |-> "v1", api |-> 1, start |-> 3, end |-> 6, egressBind |-> TRUE]}
=============================================================================
