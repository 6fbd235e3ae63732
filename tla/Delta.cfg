SPECIFICATION DeltaSpec
SYMMETRY KeypairSymmetry
CONSTANTS
  v1 = v1
  v2 = v2
  c1 = c1
  c2 = c2
  s1 = s1
  s2 = s2
  s3 = s3
  None = None
  Validator = {v1, v2}
  Stake = {c1, c2, s1, s2, s3}
  Ticket = {t1, t2}
  CanonicalStake <- MCCanonicalStake
  StakeListCapacity = 3
  RentExempt = 2
  StakeRent = 1
  TreasuryReady = TRUE
  MaxEpoch = 2
  SolSupply = 40
  Rewards = {10}
  SlowStake = {}
  Tips = {}
  Donations = {}
  Burns = {}
  DelinquentValidator = {}
  Slashes = {}
  Scores = {1}
  UnstakeAmounts = {}
  ExtraRuns = {}
  DepositAmounts = {20}
  UserStakes = {}
  MsolAmounts = {8}
  LiquidityAmounts = {}
  LpAmounts = {}
  ConfigChoices = {}
  CapChoices = {}
  InitialConfig <- MCConfig
  InitialCap = 1000
  FirstEpoch = 0
CHECK_DEADLOCK FALSE
INVARIANTS
  TicketBooks
  Solvent
  ActiveStakeIsLarge
PROPERTIES
  ImplementsVault
  TicketsStayCovered
  UnstakesNoMoreThanNeeded
  MovesRespectShares
