------------------------------- MODULE MCRouter -------------------------------
(* Instances of Router for TLC.                                            *)
EXTENDS Router, TLC

CONSTANTS x, y

Symmetry == Permutations(Ip)

Base == <<"base">>

MCAlias == {Base, <<"alias">>}

MCName == {<<"a">>, <<"b">>, <<"a", "-dev">>, <<"..">>}

\* A name as a segment.
MCSlug == (<<"a">> :> "a") @@ (<<"b">> :> "b") @@ (<<"a", "-dev">> :> "a-dev") @@ (<<"..">> :> "..")

MCIds == <<"i1", "i2", "i3">>

\* A request whose path ends in a wildcard's value of n segments.
ToRest(host, method, path, n, json) ==
    [host |-> host, method |-> method, path |-> path, json |-> json,
     rest |-> SubSeq(path, Len(path) - n + 1, Len(path))]

To(host, method, path, json) == ToRest(host, method, path, 0, json)

\* In by a detour, and out into the project itself.
MirrorPaths ==
    { <<"v1", "sessions", "..", "projects", "a", ".", "sessions">>,
      <<"v1", "projects", "a", "sessions", "..", "..", "b", "">> }

\* Out with %2F: one segment of the path, four once it is decoded.
Encoded ==
    [To(Base, "DELETE", <<"api", "projects", "i2", "agent", "sessions%2F..%2F..%2Fb">>, TRUE)
        EXCEPT !.rest = <<"sessions", "..", "..", "b">>]

MCRequest ==
    {To(h, "GET", <<"">>, FALSE) :
        h \in {<<"alias">>, <<"other">>, <<".base">>, <<"a", ".base">>,
               <<"a", "-dev", ".base">>}}
    \cup {To(Base, "POST", <<"api", "login">>, j) : j \in BOOLEAN}
    \cup {To(Base, "DELETE", <<"api", "projects", "i2">>, TRUE),
          To(Base, "GET", <<"api", "shell", "s", "connect">>, FALSE)}
    \cup {ToRest(Base, "POST", <<"api", "pi">> \o p, Len(p), FALSE) : p \in MirrorPaths}
    \cup {To(Base, "DELETE", <<"api", "projects", "i2", "agent", "">>, TRUE), Encoded}
==============================================================================
