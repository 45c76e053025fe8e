--------------------------- MODULE SequenceFilter ---------------------------
(* What is left of a sequence when only some values are kept, as a recursive    *)
(* function: SelectSeq for proofs.                                              *)
EXTENDS Naturals, Sequences

\* The entries of s that are in keep, in their order.
Only(s, keep) ==
    LET upTo[n \in 0 .. Len(s)] ==
            IF n = 0 THEN <<>>
            ELSE IF s[n] \in keep THEN Append(upTo[n - 1], s[n]) ELSE upTo[n - 1]
    IN  upTo[Len(s)]
=============================================================================
