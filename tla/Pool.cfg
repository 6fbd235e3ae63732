SPECIFICATION PoolSpec
CONSTANTS
  v1 = v1
  v2 = v2
  c1 = c1
  c2 = c2
  s1 = s1
  s2 = s2
  s3 = s3
  None = None
  Validator = {v1}
  Stake = {c1, s1}
  Ticket = {t1}
  CanonicalStake <- MCCanonicalStake
  StakeListCapacity = 3
  RentExempt = 2
  StakeRent = 1
  TreasuryReady = TRUE
  MaxEpoch = 0
  SolSupply = 30
  Rewards = {}
  SlowStake = {}
  Tips = {}
  Donations = {5}
  Burns = {15}
  DelinquentValidator = {}
  Slashes = {}
  Scores = {1}
  UnstakeAmounts = {}
  ExtraRuns = {}
  DepositAmounts = {10}
  UserStakes = {25}
  MsolAmounts = {15}
  LiquidityAmounts = {20}
  LpAmounts = {10}
  ConfigChoices <- MCLpChoices
  CapChoices = {}
  InitialConfig <- MCPoolConfig
  InitialCap = 1000
  FirstEpoch = 0
CHECK_DEADLOCK FALSE
INVARIANTS
  PoolCovered
  ReserveCovered
  MintCovered
PROPERTIES
  PriceNeverFalls
  LpPriceHolds
