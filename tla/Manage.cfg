SPECIFICATION ManageSpec
SYMMETRY KeypairSymmetry
CONSTANTS
  v1 = v1
  v2 = v2
  c1 = c1
  c2 = c2
  s1 = s1
  s2 = s2
  s3 = s3
  None = None
  Validator = {v1, v2}
  Stake = {c1, c2, s1, s2, s3}
  Ticket = {t1}
  CanonicalStake <- MCCanonicalStake
  StakeListCapacity = 2
  RentExempt = 2
  StakeRent = 1
  TreasuryReady = TRUE
  MaxEpoch = 1
  SolSupply = 20
  Rewards = {}
  SlowStake = {}
  Tips = {}
  Donations = {}
  Burns = {}
  DelinquentValidator = {v1}
  Slashes = {}
  Scores = {0, 1}
  UnstakeAmounts = {6}
  ExtraRuns = {}
  DepositAmounts = {20}
  UserStakes = {}
  MsolAmounts = {8}
  LiquidityAmounts = {}
  LpAmounts = {}
  ConfigChoices = {}
  CapChoices = {}
  InitialConfig <- MCMoveConfig
  InitialCap = 1000
  FirstEpoch = 0
CHECK_DEADLOCK FALSE
INVARIANTS
  ValidatorBooks
  CoolingBooks
  ScoreBooks
  ListMatchesAccounts
  MoveBudget
  ActiveStakeIsLarge
PROPERTIES
  TicketsStayCovered
  MovesRespectShares
