SPECIFICATION FairSpec
CONSTANTS
  Calls = {c1, c2}
  Backend = "memory"
  OpenTimeout = 1
  HalfOpenMaxRequests = 1
  SuccessThreshold = 1
  FailureThreshold = 1
  TTL = 2
PROPERTY ProbationEnds
