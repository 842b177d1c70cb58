SPECIFICATION AggSpec
CONSTANTS
  Subcircuit <- MCSubcircuit
  Com = {c1, c2}
  None = None
  Representative <- MCRepresentative
  Faults <- MCFaults
INVARIANTS AggregateConsistent InputsFoldedButRam
PROPERTIES ChallengesFinal DeliversUnlessCaught
