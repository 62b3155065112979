SPECIFICATION Spec
CONSTANTS
  Callers = {c1}
  NoCaller = NoCaller
  OpenTimeout = 2
  HalfOpenMaxRequests = 2
  SuccessThreshold = 2
  FailureThreshold = 2
  WindowType = "TimeBased"
  WindowSize = 2
  WindowDuration = 2
  MinimumRequests = 2
  RateNum = 1
  RateDen = 2
  RequestTimeout = TRUE
  Strategy <- RampStrategy
  MaxNow = 7
  MaxRecorded = 3
PROPERTIES
  DocumentedStateMachine
CHECK_DEADLOCK FALSE
