SPECIFICATION MCSpec
CONSTANTS
  BulkheadCalls = {c1, c2, c3}
  MaxConcurrency = 1
  MaxWaitTicks = 2
  Tasks = {c1, c2, t3}
  Workers = {c1, c2}
  Closers = {c1, c2}
  QueueSizes = {0, 1}
  RetryCalls = {c1, c2}
  MaxAttempts = 3
  Overall = 3
  PerAttempt = 2
  BaseDelay = 1
  MaxDelay = 2
  Width = 8
  UnitsPerToken = 2
  BudgetBurst = 1
  MinRate = 1
  ArrivalRate = 2
  MaxRetryNow = 3
  MaxDeposits = 1
  Copies = 4
  CacheCallers = {c1, c2}
  CacheKeys = {k1, k2}
  FreshFor = 1
  StaleFor = 2
  MaxEntries = 1
  MaxCacheNow = 2
  MaxSource = 2
  MaxStages = 4
  PipeAttempts = 2
  Requests = {c1, c2}
  Target = 1
  ShedInterval = 2
  PriorityStep = 1
  PriorityCeil = 3
  PriorityDefault = 1
  ShedPriorities = {0, 1, 3}
  MaxShedNow = 8
  MaxTriggers = 5
  Publishers = {c1, c2}
  Subscribers = {c1, c2}
  SubBuffer = 1
  MaxSeq = 3
  WsClients = {c1, c2}
  HubBuffer = 1
  SendBuffer = 1
  MaxBroadcasts = 2
  Size = 2
  NumBuckets = 2
  BucketWidth = 2
  MaxNow = 6
  MaxRecords = 5
SYMMETRY MCSymmetry
INVARIANTS
  BulkheadAccounted
  AcceptedIsAnswered
  RetriesWithinBudget
  AttemptsShareDeadline
  HedgeSettles
  CacheNeverGoesBack
  PipelineSettles
  
  
  EventsAccounted
  HubSettles
  CountWindowExact
  TimeWindowSpan
  TimeTotalsMatchBuckets
CHECK_DEADLOCK FALSE
