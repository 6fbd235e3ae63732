SPECIFICATION DeltaSpec
CONSTANTS
  v1 = v1
  v2 = v2
  c1 = c1
  c2 = c2
  s1 = s1
  s2 = s2
  s3 = s3
  None = None
  Validator = {v1}
  Stake = {c1, s1, s2}
  Ticket = {t1}
  CanonicalStake <- MCCanonicalStake
  StakeListCapacity = 2
  RentExempt = 2
  StakeRent = 1
  TreasuryReady = TRUE
  MaxEpoch = 2
  SolSupply = 27
  Rewards = {}
  SlowStake = {s1}
  Tips = {}
  Donations = {}
  Burns = {}
  DelinquentValidator = {}
  Slashes = {}
  Scores = {1}
  UnstakeAmounts = {}
  ExtraRuns = {}
  DepositAmounts = {20}
  UserStakes = {}
  MsolAmounts = {8}
  LiquidityAmounts = {}
  LpAmounts = {}
  ConfigChoices = {}
  CapChoices = {}
  InitialConfig <- MCConfig
  InitialCap = 1000
  FirstEpoch = 0
CHECK_DEADLOCK FALSE
PROPERTIES
  TicketsWaitTwoEpochs
