\* One goal, every command twice over, one of them killed.
SPECIFICATION Spec
CONSTANTS
  jewilo1 = jewilo1
  jewilo2 = jewilo2
  Cmd = {jewilo1, jewilo2}
  Nobody = Nobody
  Configs <- OneConfig
  MaxSlot = 2
  MaxRound = 2
  MaxAsking = 2
  MaxAborts = 1
  MaxEdits = 0
SYMMETRY Processes
VIEW NoReceipts
INVARIANTS TypeOK CompletionBacked FreshSlots ResumeAdviceFinal OneAtATime
PROPERTY CertifiesOnlyBallots
CHECK_DEADLOCK FALSE
