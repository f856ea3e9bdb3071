------------------------------ MODULE Filters ------------------------------
(***************************************************************************)
(* [x for x in s if x in S] and the leading items of a sequence.  The      *)
(* filter of the standard modules takes a predicate, which the provers     *)
(* cannot look into; this one takes a set.                                 *)
(***************************************************************************)
EXTENDS Naturals, Sequences, FiniteSets

\* What is left of s when only the members of S stay.
Only(s, S) ==
    LET upto[n \in 0..Len(s)] ==
            IF n = 0 THEN <<>>
            ELSE IF s[n] \in S THEN Append(upto[n - 1], s[n]) ELSE upto[n - 1]
    IN  upto[Len(s)]

\* How many items of s are in front of the first one outside of S.
Leading(s, S) == Cardinality({n \in DOMAIN s : \A k \in 1..n : s[k] \in S})

\* s without them.
Behind(s, S) == SubSeq(s, Leading(s, S) + 1, Len(s))
=============================================================================
