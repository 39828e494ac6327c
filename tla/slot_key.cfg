\* Three mints on one slot, two of them failing or killed; a first child and
\* a nudge child.
SPECIFICATION FairSpec
CONSTANTS
  mint1 = mint1
  mint2 = mint2
  mint3 = mint3
  child = child
  nudge = nudge
  Nobody = Nobody
  Minter <- Mints
  Verifier <- Children
  MaxFaults = 2
INVARIANTS TypeOK KeyPaired NobodyRefused
PROPERTIES KeyFinal MintsEnd
CHECK_DEADLOCK FALSE
