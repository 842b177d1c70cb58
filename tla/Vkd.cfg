SPECIFICATION Spec
CONSTANTS
  Sizes <- MCSizes
  Depth = 8
  SplitFactor = 4
  KeyMod = 2
  Genesis = genesis
  User = user
  Index <- Indices
  NumWorkers = 2
  None = None
INVARIANTS ProofsValid VerifyAccepts KeysFitButPaddings
PROPERTY ImplementsDirectory
