----------------------------- MODULE MCSparseTree -----------------------------
(* Instance of SparseTree for TLC. *)
EXTENDS SparseTree

\* An injective hash.
TupleLeaf(v) == <<v>>
TupleInner(l, r) == <<l, r>>

PowersOfTwo == [d_ \in 0 .. Depth |-> 2^d_]
=============================================================================
