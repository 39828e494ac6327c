\* Three invocations over an exclusive and a racing slot, two of them killed.
SPECIFICATION FairSpec
CONSTANTS
  call1 = call1
  call2 = call2
  call3 = call3
  Caller = {call1, call2, call3}
  Slots = {v1, v2}
  Racing = {v2}
  Nobody = Nobody
  MaxCrashes = 2
INVARIANTS TypeOK ReceiptsChained LossesBounded VerdictWhole
PROPERTIES FirstVerdictCounts CallsEnd
CHECK_DEADLOCK FALSE
