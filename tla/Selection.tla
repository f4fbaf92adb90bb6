----------------------------- MODULE Selection -----------------------------
(* The list comprehensions with a condition that the parsers are full of.     *)
(* It is SelectSeq, for a set instead of a test, by a recursive function that *)
(* a proof can expand.                                                        *)
EXTENDS Naturals, Sequences

\* The elements of a sequence that are in a set, in their order.
Keep(seq, set) ==
    LET kept[n \in 0..Len(seq)] ==
            IF n = 0 THEN <<>>
            ELSE IF seq[n] \in set THEN Append(kept[n - 1], seq[n])
            ELSE kept[n - 1]
    IN  kept[Len(seq)]

=============================================================================
