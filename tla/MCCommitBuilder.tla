---------------------------- MODULE MCCommitBuilder ----------------------------
(* Instance of CommitBuilder for TLC. *)
EXTENDS CommitBuilder

\* Every circuit whose stages allocate at most two witnesses and one input each.
SmallCircuits == [1 .. NumStages -> [wit : 0 .. 2, inst : 0 .. 1]]
=============================================================================
