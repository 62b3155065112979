SPECIFICATION FairSpec
CONSTANTS
  Calls = {c1, c2, c3}
  Backend = "redis"
  OpenTimeout = 1
  HalfOpenMaxRequests = 2
  SuccessThreshold = 2
  FailureThreshold = 2
  TTL = 3
INVARIANT TypeOK
PROPERTIES
  ImplementsFSM
  ProbationEnds
