------------------------------- MODULE Filters -------------------------------
\* Rust's filter and collect. A fold, which proofs can unfold; SelectSeq they cannot.
EXTENDS SequencesExt

\* The elements of a list that are in a set, in the list's order.
Those(list, set) ==
  FoldLeft(LAMBDA kept, x : IF x \in set THEN Append(kept, x) ELSE kept, <<>>, list)
==============================================================================
