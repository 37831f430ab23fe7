------------------------------ MODULE Filters ------------------------------
(* Filtering of sequences, by a recursion on their length.                  *)
EXTENDS Integers, Sequences

\* The items of a sequence at the positions of a set, in their order.
Kept(s, P) ==
    LET out[k \in 0 .. Len(s)] ==
            IF k = 0 THEN <<>>
            ELSE IF k \in P THEN Append(out[k - 1], s[k])
            ELSE out[k - 1]
    IN out[Len(s)]

=============================================================================
