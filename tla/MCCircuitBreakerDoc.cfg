SPECIFICATION Spec
CONSTANTS
  Callers = {c1, c2}
  NoCaller = NoCaller
  OpenTimeout = 1
  HalfOpenMaxRequests = 1
  SuccessThreshold = 1
  FailureThreshold = 2
  WindowType = "CountBased"
  WindowSize = 2
  WindowDuration = 2
  MinimumRequests = 2
  RateNum = 1
  RateDen = 2
  RequestTimeout = TRUE
  Strategy <- FixedStrategy
  MaxNow = 3
  MaxRecorded = 0
PROPERTIES
  DocumentedStateMachine
