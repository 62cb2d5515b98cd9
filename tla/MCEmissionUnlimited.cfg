SPECIFICATION Spec
CONSTANTS
  PeriodsLen = 3
  LimitUpdates = FALSE
  Rates <- MCRates
  Lengths <- MCLengths
  Delays <- MCDelays
  InitialWallet = 12
  MaxSlot = 7
  Horizon = 13
INVARIANT PromiseKept
CHECK_DEADLOCK FALSE
