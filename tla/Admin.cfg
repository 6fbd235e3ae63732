SPECIFICATION AdminSpec
CONSTANTS
  v1 = v1
  v2 = v2
  c1 = c1
  c2 = c2
  s1 = s1
  s2 = s2
  s3 = s3
  None = None
  Validator = {v1}
  Stake = {c1, s1, s2}
  Ticket = {t1}
  CanonicalStake <- MCCanonicalStake
  StakeListCapacity = 3
  RentExempt = 2
  StakeRent = 1
  TreasuryReady = TRUE
  MaxEpoch = 2
  SolSupply = 1003
  Rewards = {107}
  SlowStake = {}
  Tips = {}
  Donations = {}
  Burns = {507}
  DelinquentValidator = {}
  Slashes = {}
  Scores = {1}
  UnstakeAmounts = {}
  ExtraRuns = {1}
  DepositAmounts = {1003}
  UserStakes = {1003}
  MsolAmounts = {507}
  LiquidityAmounts = {}
  LpAmounts = {}
  ConfigChoices <- OtherConfigs
  CapChoices = {1500}
  InitialConfig <- MCConfig
  InitialCap = 3000
  FirstEpoch = 0
CHECK_DEADLOCK FALSE
PROPERTIES
  ImplementsVault
  LateTicketsWait
  PriceFallsByDustAtMost
