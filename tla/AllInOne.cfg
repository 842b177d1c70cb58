SPECIFICATION Spec
CONSTANTS
  NumSubcircuits = 2
  Seeds = {s1, s2}
  None = None
INVARIANT CommitmentReconstructed
