\* AUDIT after a receipt that came late.
SPECIFICATION Spec
CONSTANTS
  jewilo1 = jewilo1
  jewilo2 = jewilo2
  Cmd = {jewilo1, jewilo2}
  Nobody = Nobody
  Configs <- OneConfig
  MaxSlot = 2
  MaxRound = 1
  MaxAsking = 2
  MaxAborts = 0
  MaxEdits = 0
SYMMETRY Processes
INVARIANT AuditReproduces
CHECK_DEADLOCK FALSE
