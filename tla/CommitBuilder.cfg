SPECIFICATION Spec
CONSTANTS
  NumStages = 3
  Circuits <- SmallCircuits
  None = None
INVARIANTS RangesPartition StagesMatchKey ProofVerifies ShortProofRefused
