SPECIFICATION Spec
CONSTANTS
  LogNums = {1, 2, 3, 4}
  Chunks = {2, 4}
  MerkleMemory = {FALSE, TRUE}
  RegisterNum = 3
  NumWorkers = 2
INVARIANTS ProofsValid ChunksHandOver KeysFitButLast
