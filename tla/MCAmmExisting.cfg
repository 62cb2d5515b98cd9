SPECIFICATION Spec
CONSTANTS
  Wad = 100
  ScaleBase = 6
  MaxIterations = 32
  MinProduct = 1
  InvertAbove = 3
  MaxTokens = 1000
  Mints <- BothMints
  Users <- TwoUsers
  Toll = owner
  A = A
  B = B
  u1 = u1
  u2 = u2
  owner = owner
  TollShare = 50
  MaxSwapFee = 50
  MaxReserves = 4
  None = None
  Starts <- StartExisting
  Amplifiers = {2}
  MaxDeposits <- TwoDeposits
  BurnAmounts = {2}
  SellAmounts = {2, 4}
  MinAmounts = {0, 2}
  Donations = {}
  Fees = {50}
  Discounted <- Nothing
  Discounts = {100}
  Validity = {1}
  MaxSlot = 1
  MaxSupply = 5
INVARIANTS
  ReservesHaveInvariant
CHECK_DEADLOCK FALSE
