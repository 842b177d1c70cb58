SPECIFICATION Spec
CONSTANTS
  NumSubcircuits = 8
  NumWorkers = 2
  Envs <- MCEnvs
  Seeds = {s1, s2}
  ReqSize <- MCReqSize
  None = None
INVARIANTS TypeOK PanicsExplained ChallengesBindCommitments AggregateOpensSuperCom ProofsChained
PROPERTIES CommitmentsFrozen Termination ImplementsSession
