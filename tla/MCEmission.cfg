SPECIFICATION Spec
CONSTANTS
  PeriodsLen = 3
  LimitUpdates = FALSE
  Rates <- MCRates
  Lengths <- MCLengths
  Delays <- MCDelays
  InitialWallet = 12
  MaxSlot = 7
  Horizon = 13
INVARIANTS
  TypeOK
  PeriodsInOrder
  HistoryIsExact
  LatestPromisesKept
PROPERTIES
  StartedPeriodIsKept
  ImplementsPromise
CHECK_DEADLOCK FALSE
