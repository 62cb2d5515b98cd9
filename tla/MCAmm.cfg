SPECIFICATION LiveSpec
CONSTANTS
  Wad = 100
  ScaleBase = 6
  MaxIterations = 32
  MinProduct = 1
  InvertAbove = 3
  MaxTokens = 1000
  Mints <- BothMints
  Users <- TwoUsers
  Toll = owner
  A = A
  B = B
  u1 = u1
  u2 = u2
  owner = owner
  TollShare = 50
  MaxSwapFee = 50
  MaxReserves = 4
  None = None
  Starts <- StartEither
  Amplifiers = {0, 2}
  MaxDeposits <- TwoDeposits
  BurnAmounts = {2}
  SellAmounts = {3}
  MinAmounts = {0, 2}
  Donations = {4}
  Fees = {50, 150}
  Discounted <- OneUser
  Discounts = {100}
  Validity = {1}
  MaxSlot = 3
  MaxSupply = 5
INVARIANTS
  TypeOK
  ReservesAreBacked
  NoReserveRunsDry
  DepositStaysWithinLimit
  FeeFitsSale
  InvariantIsCurrent
  InvariantIsAtMostSum
  InvariantIsNearRoot
PROPERTIES
  ImplementsShares
  DepositDilutesByOneToken
  TollIsPartOfFee
  SwapKeepsInvariant
  LiquidityComesBack
CHECK_DEADLOCK FALSE
