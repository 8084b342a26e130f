-------------------------------- MODULE Lists --------------------------------
(***************************************************************************)
(* Operators on sequences and functions that the modules of the stored     *)
(* bytes share, in a form that the proofs can expand.                      *)
(***************************************************************************)
EXTENDS Naturals, Sequences, FiniteSets

\* The elements of s that are in S, in the order they have in s.
Only(s, S) ==
    LET upTo[k \in 0 .. Len(s)] ==
            IF k = 0
              THEN <<>>
              ELSE IF s[k] \in S THEN Append(upTo[k - 1], s[k]) ELSE upTo[k - 1]
    IN  upTo[Len(s)]

\* The k-th smallest of the numbers of S, and all of them, the smallest first.
nth(S, k) == CHOOSE i \in S : Cardinality({j \in S : j <= i}) = k

InOrder(S) == [k \in 1 .. Cardinality(S) |-> nth(S, k)]

\* f, but v at k, which may be new to it.
With(f, k, v) == [x \in DOMAIN f \cup {k} |-> IF x = k THEN v ELSE f[x]]
=============================================================================
