SPECIFICATION LifeSpec
CONSTANTS
  RingLen = 2
  DefaultWindow = 1
  PeriodsLen = 2
  LimitUpdates = FALSE
  Wad = 12
  Farms <- TwoFarms
  Users <- OneUser
  Admins <- TwoAdmins
  Mints <- BothMints
  StakeMint <- StakesS
  MaxHarvestMints = 1
  None = None
  f1 = f1
  f2 = f2
  u1 = u1
  u2 = u2
  adm = adm
  adm2 = adm2
  S = S
  R = R
  StakeAmounts <- One
  UnstakeAmounts <- One
  AirdropAmounts <- One
  Rates <- One
  Lengths <- Two
  Delays <- One
  Windows <- Two
  Pairs <- AcrossPairs
  Lags <- JustNow
  InitialWallet <- WalletsLife
  MaxSlot = 4
INVARIANTS
  Solvency
PROPERTIES
  RemovalLeavesNobodyOut
CHECK_DEADLOCK FALSE
