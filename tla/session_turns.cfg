SPECIFICATION Spec
CONSTANTS
  MaxTurn = 3
  MaxRound = 3
  MaxKills = 2
  MaxLines = 3
INVARIANTS
  TypeOK
  RunningTotal
  TurnBudget
  RetiredSpent
  AuditTrail
  RecoveryLast
  Enforced
  FirstRunAlone
PROPERTIES
  GatherEnds
CHECK_DEADLOCK FALSE
