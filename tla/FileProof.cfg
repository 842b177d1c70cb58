SPECIFICATION Spec
CONSTANTS
  NumSubcircuits = 2
  MaxSessions = 2
  Scripts <- MCScripts
  None = None
  Torn = Torn
INVARIANTS OneCircuit SessionDelivers
PROPERTY ImplementsSession
