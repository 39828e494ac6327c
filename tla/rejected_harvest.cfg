SPECIFICATION Spec
CONSTANTS
  Configs <- OneConfig
  MaxNum = 3
  MaxRound = 1
  MaxAborts = 0
INVARIANT RejectIsFinal
CHECK_DEADLOCK FALSE
