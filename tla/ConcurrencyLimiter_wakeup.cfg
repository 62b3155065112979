SPECIFICATION Spec
CONSTANTS
  Callers = {c1, c2}
  Blocking = {c1, c2}
  NoCaller = NoCaller
  MinLimit = 1
  MaxLimit = 2
  InitialLimit = 1
INVARIANT BlockedWaiterRechecks
