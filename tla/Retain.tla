------------------------------- MODULE Retain -------------------------------
(***************************************************************************)
(* The retain and filter of the standard library, of a vector and a test   *)
(* that is given as the set of what passes it. SelectSeq says the same of  *)
(* an operator; this is its form for modules that are proved about, as a   *)
(* recursive function.                                                     *)
(***************************************************************************)
EXTENDS Integers, Sequences

\* The members of s that are in S, in their order.
Retained(s, S) ==
    LET upTo[i \in 0 .. Len(s)] ==
            IF i = 0 THEN <<>>
            ELSE IF s[i] \in S THEN Append(upTo[i - 1], s[i]) ELSE upTo[i - 1]
    IN  upTo[Len(s)]

=============================================================================
