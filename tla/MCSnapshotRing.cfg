SPECIFICATION Spec
CONSTANTS
  RingLen = 3
  DefaultWindow = 2
  Amounts <- MCAmounts
  Windows <- MCWindows
  MaxSlot = 8
INVARIANTS
  TypeOK
  HistoryInOrder
  FirstSnapshotAfterIsExact
  EligibleSnapshotsAreExact
PROPERTIES
  ImplementsQueue
  WindowsAreSpaced
