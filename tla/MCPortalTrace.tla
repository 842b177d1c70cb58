---------------------------- MODULE MCPortalTrace ----------------------------
EXTENDS PortalTrace, TLC

\* Wires are told apart by their addresses, which are dealt out in order.
WireSymmetry == Permutations(Names)

RamCircuit == [memType |-> "Ram", subcircuits |-> 2]
RamCircuits == {RamCircuit}
AllCircuits == {[memType |-> "Rom", subcircuits |-> 3], RamCircuit}
=============================================================================
