------------------------------- MODULE Selection -------------------------------
(* SelectSeq for a set: what the proofs reason about where the code filters a  *)
(* list.                                                                       *)
EXTENDS Naturals, Sequences

\* The elements of s that are in K, in their order.
Selected(s, K) ==
    LET upTo[i \in 0..Len(s)] ==
            IF i = 0 THEN <<>>
            ELSE IF s[i] \in K THEN Append(upTo[i - 1], s[i]) ELSE upTo[i - 1]
    IN  upTo[Len(s)]

================================================================================
