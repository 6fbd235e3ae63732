SPECIFICATION Spec
CONSTANTS
  v1 = v1
  v2 = v2
  c1 = c1
  c2 = c2
  s1 = s1
  s2 = s2
  None = None
  Validator = {v1, v2}
  Stake = {c1, s1, s2}
  CanonicalStake <- MCCanonicalStake
  StakeCapacity = {2, 3}
  ValidatorCapacity = {1, 2}
  MayDelegate <- MCMayDelegate
  Lamports <- MCLamports
INVARIANTS
  KeysAreUnique
  EveryValidatorVisitedOnce
PROPERTIES
  ImplementsRecords
