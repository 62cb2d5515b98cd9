SPECIFICATION PayoutSpec
CONSTANTS
  RingLen = 3
  DefaultWindow = 1
  PeriodsLen = 2
  LimitUpdates = FALSE
  Wad = 12
  Farms <- OneFarm
  Users <- TwoUsers
  Admins <- OneAdmin
  Mints <- BothMints
  StakeMint <- StakesS
  MaxHarvestMints = 1
  None = None
  f1 = f1
  f2 = f2
  u1 = u1
  u2 = u2
  adm = adm
  adm2 = adm2
  S = S
  R = R
  StakeAmounts <- One
  UnstakeAmounts <- Two
  AirdropAmounts <- Nothing
  Rates <- One
  Lengths <- Two
  Delays <- One
  Windows <- Nothing
  Pairs <- Nothing
  Lags <- NowOrBefore
  InitialWallet <- WalletOfOne
  MaxSlot = 4
PROPERTIES
  StakeComesBack
  HarvestIsPaid
  WealthIsKept
CHECK_DEADLOCK FALSE
