\* Progress: no process is killed, the configuration is edited once.
SPECIFICATION ReleasingSpec
CONSTANTS
  jewilo1 = jewilo1
  jewilo2 = jewilo2
  Cmd = {jewilo1, jewilo2}
  Nobody = Nobody
  Configs <- TwoConfigs
  MaxSlot = 2
  MaxRound = 1
  MaxAsking = 1
  MaxAborts = 0
  MaxEdits = 1
INVARIANT AuditAcceptsCount
PROPERTIES CommandEnds WonRoundHarvested ReceiptsFollowVerdicts
CHECK_DEADLOCK FALSE
