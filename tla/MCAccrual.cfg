SPECIFICATION Spec
CONSTANTS
  RingLen = 3
  DefaultWindow = 1
  PeriodsLen = 2
  LimitUpdates = FALSE
  Wad = 10
  Amounts = {0, 3}
  Stakes = {1, 2}
  Rates = {3, 5}
  Delays = {0, 2}
  Lengths = {2}
  MaxSlot = 5
INVARIANTS
  AccrualIsExact
  SplitLosesOnlyRounding
CHECK_DEADLOCK FALSE
