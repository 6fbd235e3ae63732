SPECIFICATION LiveSpec
CONSTANTS
  v1 = v1
  v2 = v2
  c1 = c1
  c2 = c2
  s1 = s1
  s2 = s2
  s3 = s3
  None = None
  Validator = {v1}
  Stake = {c1, s1, s2}
  Ticket = {t1, t2}
  CanonicalStake <- MCCanonicalStake
  StakeListCapacity = 2
  RentExempt = 2
  StakeRent = 1
  TreasuryReady = TRUE
  MaxEpoch = 2
  SolSupply = 10
  Rewards = {}
  SlowStake = {s1}
  Tips = {}
  Donations = {2}
  Burns = {}
  DelinquentValidator = {}
  Slashes = {}
  Scores = {1}
  UnstakeAmounts = {}
  ExtraRuns = {}
  DepositAmounts = {8}
  UserStakes = {}
  MsolAmounts = {4}
  LiquidityAmounts = {}
  LpAmounts = {}
  ConfigChoices = {}
  CapChoices = {}
  InitialConfig <- MCLiveConfig
  InitialCap = 1000
  FirstEpoch = 2
INVARIANTS
  AssetsAreReal
  CooledDownIsCollectable
PROPERTIES
  TicketsArePaid
