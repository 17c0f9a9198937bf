SPECIFICATION Spec
CONSTANTS
  NpcCount = 2
  Difficulties = {1, 2}
  Payments = {1}
  SpawnCounts = {1, 2}
  MinMissions = 2
  MaxMissions = 5
  NullClaim = NullClaim
  Tables <- MCTables
INVARIANTS
  TypeOK
  ClaimsAgree
  PaidOnce
PROPERTIES
  CompletedByClaimant
CHECK_DEADLOCK FALSE
