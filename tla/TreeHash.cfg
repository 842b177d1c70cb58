SPECIFICATION Spec
CONSTANTS
  LeafCounts = {2, 4, 8, 16}
  PortalCounts = {1, 2}
  NumWorkers = 2
  Zero = Zero
  None = None
INVARIANTS ProofsValid WiresHoldSubtreeRoots HashesUsedOnce
