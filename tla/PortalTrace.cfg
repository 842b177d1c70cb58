SPECIFICATION Spec
CONSTANTS
  Circuits <- AllCircuits
  Names = {a, b}
  Vals = {0, 1}
  TimeBits = 2
  MaxEntries = 5
  None = None
SYMMETRY WireSymmetry
INVARIANTS MemoryConsistent Satisfied NeighboursCompared
