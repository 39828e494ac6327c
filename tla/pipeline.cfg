SPECIFICATION FairSpec
CONSTANTS
  Configs <- SmallConfigs
  MaxNum = 3
  MaxRound = 4
  MaxAborts = 1
INVARIANTS
  TypeOK
  EveryPhasePassed
  PhasesInOrder
  IdsDistinct
  AuditAccepts
PROPERTIES
  EscalatesByPolicy
  CommandEnds
CHECK_DEADLOCK FALSE
