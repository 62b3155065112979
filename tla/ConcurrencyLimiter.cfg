SPECIFICATION FairSpec
CONSTANTS
  Callers = {c1, c2, c3}
  Blocking = {c1, c2}
  NoCaller = NoCaller
  MinLimit = 1
  MaxLimit = 2
  InitialLimit = 1
INVARIANTS
  TypeOK
  SlotsAccounted
PROPERTY ReleasesWakeWaiters
