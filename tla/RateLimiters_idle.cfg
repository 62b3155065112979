SPECIFICATION Spec
CONSTANTS
  Limit = 2
  Window = 4
  Capacity = 2
  Interval = 2
  IdleClean = 2
  Costs = {1, 2}
  Horizon = 4
  MaxNow = 8
INVARIANTS
  AtMostLimitPerWindow
