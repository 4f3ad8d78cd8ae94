------------------------------ MODULE Entries ------------------------------
(***************************************************************************)
(* The filter of an array, as a recursive function: what SelectSeq is for  *)
(* TLC, in a form the provers can unfold; of nothing it is nothing at once.*)
(***************************************************************************)
EXTENDS Naturals, Sequences

\* filter: the entries at these places, in their order.
EntriesAt(seq, places) ==
    LET upTo[i \in 0..Len(seq)] ==
            IF i = 0 THEN <<>>
            ELSE IF i \in places THEN Append(upTo[i - 1], seq[i]) ELSE upTo[i - 1]
    IN IF seq = <<>> THEN <<>> ELSE upTo[Len(seq)]
=============================================================================
