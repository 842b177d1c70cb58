----------------------------- MODULE MCDbCircuits -----------------------------
(* Instance of DbCircuits for TLC. *)
EXTENDS DbCircuits

\* A date on each side of the filter's and on it; with more rows than four only
\* the last matters.
Filters ==
  {[kind |-> "filter", rows |-> r, right |-> d] :
     r \in [1 .. 2 -> 1 .. 3] \cup [1 .. 4 -> 1 .. 3] \cup [1 .. 8 -> {2, 3}], d \in {1, 2}}

\* Up to three layers, with and without a segment left over.
Sorts == {[kind |-> "sort", rows |-> r, right |-> 2] :
            r \in UNION {[1 .. n -> 1 .. 3] : n \in 2 .. 7}}

MCCircuits == Filters \cup Sorts
=============================================================================
