------------------------------ MODULE Selection ------------------------------
(***************************************************************************)
(* The part of a sequence of messages that a set of positions or of kinds  *)
(* selects, in order.  It is defined by a recursive function on positions, *)
(* which proofs can unfold, where SelectSeq and SetToSortSeq of the        *)
(* library cannot be.                                                      *)
(***************************************************************************)
EXTENDS Integers, Sequences, FiniteSets

\* For every n, what is selected of the first n elements.
Selections(seq, indices) ==
    LET upTo[n \in 0 .. Len(seq)] ==
            IF n = 0 THEN <<>>
            ELSE IF n \in indices THEN Append(upTo[n - 1], seq[n])
            ELSE upTo[n - 1]
    IN  upTo

Select(seq, indices) == Selections(seq, indices)[Len(seq)]

\* The members of a set of positions up to n, in order.
InOrder(indices, n) == Select([i \in 1 .. n |-> i], indices)

\* Where the n-th element stands in the selection, if it is selected.
Rank(indices, n) == Cardinality(indices \cap 1 .. n)

OfKinds(seq, kinds) == Select(seq, {i \in DOMAIN seq : seq[i].kind \in kinds})
=============================================================================
