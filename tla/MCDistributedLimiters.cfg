SPECIFICATION DistSpec
CONSTANTS
  EmissionTicks = 1
  Burst = 2
  WindowTicks = 2
  DistCallers = {c1, c2}
  DistSizes = {1, 2}
  Drift = 1
  SecondTicks = 2
  MaxTries = 2
  MaxDistNow = 4
  MaxAdmitted = 3
  MaxVersion = 2
SYMMETRY MCSymmetry
INVARIANTS
  BackendsAgree
  
CHECK_DEADLOCK FALSE
