SPECIFICATION Spec
CONSTANTS
  Circuits <- MCCircuits
  One = 1
  Twelve = 2
  NumWorkers = 2
INVARIANTS FilterProofsValid FilterKeysFit SortNeverStarts MergesAgreeButTies
