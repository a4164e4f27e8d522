------------------------------ MODULE Selection -----------------------------
(* The loop "for each item, if it is wanted, append it to the result", which *)
(* the code has in several places.                                           *)
EXTENDS Naturals, Sequences

\* The items of s that are in the set wanted, in their order.
Only(s, wanted) ==
    LET kept[n \in 0 .. Len(s)] ==
            IF n = 0 THEN <<>>
            ELSE IF s[n] \in wanted THEN Append(kept[n - 1], s[n]) ELSE kept[n - 1]
    IN kept[Len(s)]
=============================================================================
