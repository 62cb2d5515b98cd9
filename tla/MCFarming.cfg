SPECIFICATION SharedSpec
CONSTANTS
  RingLen = 3
  DefaultWindow = 1
  PeriodsLen = 2
  LimitUpdates = FALSE
  Wad = 12
  Farms <- OneFarm
  Users <- TwoUsers
  Admins <- OneAdmin
  Mints <- BothMints
  StakeMint <- StakesS
  MaxHarvestMints = 1
  None = None
  f1 = f1
  f2 = f2
  u1 = u1
  u2 = u2
  adm = adm
  adm2 = adm2
  S = S
  R = R
  StakeAmounts <- One
  UnstakeAmounts <- One
  AirdropAmounts <- Nothing
  Rates <- Nothing
  Lengths <- Nothing
  Delays <- Nothing
  Windows <- Nothing
  Pairs <- SamePairs
  Lags <- NowOrBefore
  InitialWallet <- Wallets0
  MaxSlot = 4
SYMMETRY UsersAlike
INVARIANTS
  TypeOK
  StakeIsConserved
  SharesAreParts
  Solvency
  UpdateNeverFails
  DepositFollowsUpdate
PROPERTIES
  CursorNeverMovesBack
  VestingIsNotProlonged
CHECK_DEADLOCK FALSE
