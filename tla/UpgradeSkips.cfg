SPECIFICATION OutsideSpec
CONSTANTS
  v1 = v1
  v2 = v2
  c1 = c1
  c2 = c2
  s1 = s1
  s2 = s2
  s3 = s3
  None = None
  Validator = {v1, v2}
  Stake = {c1, c2, s1, s2, s3}
  Ticket = {t1}
  CanonicalStake <- MCCanonicalStake
  StakeListCapacity = 3
  RentExempt = 2
  StakeRent = 1
  TreasuryReady = TRUE
  MaxEpoch = 1
  SolSupply = 60
  Rewards = {3}
  SlowStake = {}
  Tips = {}
  Donations = {}
  Burns = {}
  DelinquentValidator = {v1}
  Slashes = {}
  Scores = {1}
  UnstakeAmounts = {}
  ExtraRuns = {}
  DepositAmounts = {20}
  UserStakes = {12}
  MsolAmounts = {}
  LiquidityAmounts = {}
  LpAmounts = {}
  ConfigChoices = {}
  CapChoices = {}
  InitialConfig <- MCConfig
  InitialCap = 1000
  FirstEpoch = 0
  OldStake = {s1, s2}
  OldAmounts = {10}
  OldMissing <- MCOldMissing
CHECK_DEADLOCK FALSE
INVARIANTS
  UnknownOnlyInFirstLoop
