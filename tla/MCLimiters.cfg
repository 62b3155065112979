SPECIFICATION MCSpec
CONSTANTS
  Limit = 3
  Window = 3
  Capacity = 2
  Interval = 2
  IdleClean = 4
  Costs = {1, 2, 4}
  Horizon = 6
  MaxNow = 16
  LeakyCalls = {c1, c2}
  LeakyCapacity = 2
  BatchSizes = {1, 2}
  Priorities = {0, 1}
  MaxQueues = 2
  MaxResets = 1
  CombinedCalls = {c1, c2}
  ChildCount = 2
  ChildCapacity = 2
  CallSizes = {1, 2}
  AdaptiveKeys = {k1, k2}
  AdaptiveUsers = {c1, c2}
  MinLimit = 1
  MaxLimit = 3
  InitialLimit = 4
  UseSizes = {0, 2}
  StoreClients = {c1, c2}
  StoreKeys = {s1, s2}
  MaxKeys = 1
  MaxDrift = 0
SYMMETRY MCSymmetry
INVARIANTS
  ConformsToRate
  DecideAlike
  AtMostLimitPerWindow
  SlidingLogExact
  SlidingCounterBound
  
  TokensConserved
  LiveQueueHasLeaker
  TakesAllOrNothing
  RetunedEverywhere
  StoreLedger
CHECK_DEADLOCK FALSE
