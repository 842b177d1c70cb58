SPECIFICATION Spec
CONSTANTS
  Depth = 3
  Width <- PowersOfTwo
  Users = {0, 1, 3, 6}
  Leaves = {v1, v2}
  InitialLeaf = v0
  HashLeaf <- TupleLeaf
  HashInner <- TupleInner
  None = None
INVARIANTS TypeOK RootIsMerkleRoot PathTracksTree RootBindsLeaf
