SPECIFICATION Spec
CONSTANTS
  Circuits <- RamCircuits
  Names = {a, b}
  Vals = {0, 1}
  TimeBits = 2
  MaxEntries = 3
  None = None
SYMMETRY WireSymmetry
INVARIANT PairsCompared
