---------------------------- MODULE MCAggregation ----------------------------
(***************************************************************************)
(* Four subcircuits, the two in the middle proved with one key: nothing is *)
(* wrong, that key is one for other constraints than the second of them    *)
(* has, or a subcircuit is refused in stage 0 or in stage 1.               *)
(***************************************************************************)
EXTENDS Aggregation

MCSubcircuit == 0 .. 3
MCRepresentative == [i \in MCSubcircuit |-> IF i = 2 THEN 1 ELSE i]

MCFault(misfit, refused0, refused1) ==
  [misfit |-> misfit, refused |-> [s \in {0, 1} |-> IF s = 0 THEN refused0 ELSE refused1]]

MCFaults ==
  {MCFault({}, {}, {}), MCFault({2}, {}, {}), MCFault({}, {2}, {}), MCFault({}, {}, {0})}
=============================================================================
