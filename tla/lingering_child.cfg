\* A verifier's descendant that outlives the timeout and keeps its pipes.
SPECIFICATION FairSpec
CONSTANTS
  jewilo1 = jewilo1
  jewilo2 = jewilo2
  Cmd = {jewilo1, jewilo2}
  Nobody = Nobody
  Configs <- OneConfig
  MaxSlot = 2
  MaxRound = 1
  MaxAsking = 1
  MaxAborts = 0
  MaxEdits = 0
PROPERTY CommandEnds
CHECK_DEADLOCK FALSE
