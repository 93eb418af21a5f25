------------------------------- MODULE Wildcard -------------------------------
(***************************************************************************)
(* How an allowlist entry matches a destination: wildcardHostMatch and     *)
(* labelGlob (internal/egress/store.go).  A host name or pattern is a      *)
(* sequence of characters; "." separates labels.                           *)
(***************************************************************************)
EXTENDS Integers, Sequences, SequencesExt

\* One character of strings.Split: a separator begins a new part, another
\* character belongs to the last one.
SplitStep(parts, c, sep) ==
    IF c = sep THEN Append(parts, <<>>) ELSE [parts EXCEPT ![Len(parts)] = Append(@, c)]

Split(s, sep) ==
    LET parts[n \in 0 .. Len(s)] ==
            IF n = 0 THEN << <<>> >> ELSE SplitStep(parts[n - 1], s[n], sep)
    IN parts[Len(s)]

\* The places after which part occurs in s, counted from the character at start.
Occurrences(s, part, start) ==
    {i \in start .. Len(s) - Len(part) : SubSeq(s, i + 1, i + Len(part)) = part}

NotFound == -1

\* strings.Index in label[start:], and what is left after the part.
SkipPart(label, start, part) ==
    LET places == IF start = NotFound THEN {} ELSE Occurrences(label, part, start)
    IN IF places = {} THEN NotFound
       ELSE (CHOOSE i \in places : \A j \in places : i <= j) + Len(part)

\* What is left of the label when the parts between the first and the last have
\* been found in order, each at its first occurrence after the one before.
SkipMiddle(parts, label) ==
    LET at[n \in 1 .. Len(parts) - 1] ==
            IF n = 1 THEN Len(parts[1]) ELSE SkipPart(label, at[n - 1], parts[n])
    IN at[Len(parts) - 1]

\* Mutant: a pattern of one star takes any label that begins like it.
GlobPrefixOnly(pattern, label) ==
    IF ~Contains(pattern, "*") THEN pattern = label
    ELSE LET parts == Split(pattern, "*") IN
         IsPrefix(parts[1], label) /\ SkipMiddle(parts, label) # NotFound

\* The first and the last part are anchored.
LabelGlob(pattern, label) ==
    IF ~Contains(pattern, "*") THEN pattern = label
    ELSE LET parts == Split(pattern, "*") IN
         /\ IsPrefix(parts[1], label)
         /\ IsSuffix(Last(parts), label)
         /\ SkipMiddle(parts, label) # NotFound

WildcardHostMatch(pattern, host) ==
    LET pp == Split(pattern, ".")
        hp == Split(host, ".")
    IN Len(pp) = Len(hp) /\ \A i \in DOMAIN pp : LabelGlob(pp[i], hp[i])

-----------------------------------------------------------------------------
(* The reference, and how far the matcher agrees with it.                  *)

\* A star stands for any run of characters other than ".": the pattern's first
\* i characters can stand for the host's first end[i].
Matches(pattern, host) ==
    \E end \in [0 .. Len(pattern) -> 0 .. Len(host)] :
        /\ end[0] = 0
        /\ end[Len(pattern)] = Len(host)
        /\ \A i \in 1 .. Len(pattern) :
            IF pattern[i] = "*"
            THEN end[i - 1] <= end[i] /\ \A k \in end[i - 1] + 1 .. end[i] : host[k] # "."
            ELSE end[i] = end[i - 1] + 1 /\ host[end[i]] = pattern[i]

Stars(label) == {i \in DOMAIN label : label[i] = "*"}

\* One star in a label at most, and each label of the host is long enough for
\* the other characters: what stands before and after the star cannot overlap.
Plain(pattern, host) ==
    LET pp == Split(pattern, ".")
        hp == Split(host, ".")
    IN \A i \in DOMAIN pp :
        /\ Stars(pp[i]) = {} \/ \E s \in DOMAIN pp[i] : Stars(pp[i]) = {s}
        /\ i \in DOMAIN hp => Len(hp[i]) >= Len(pp[i]) - 1

\* What a star may stand for is never refused: a host an entry is meant for can
\* be reached.
MatchesAccepted(Patterns, Hosts) ==
    \A p \in Patterns, h \in Hosts : Matches(p, h) => WildcardHostMatch(p, h)

\* Where the parts cannot overlap, nothing else is accepted; in particular a
\* star never reaches over a dot.
PlainExact(Patterns, Hosts) ==
    \A p \in Patterns, h \in Hosts : Plain(p, h) /\ WildcardHostMatch(p, h) => Matches(p, h)

\* Nothing else is ever accepted ("'*' matches zero or more characters",
\* store.go:192-193): not kept, "a*a" accepts the label "a".
AlwaysExact(Patterns, Hosts) ==
    \A p \in Patterns, h \in Hosts : WildcardHostMatch(p, h) => Matches(p, h)
==============================================================================
