\* Two invocations race on one slot.
SPECIFICATION Spec
CONSTANTS
  call1 = call1
  call2 = call2
  call3 = call3
  Caller = {call1, call2}
  Slots = {v1}
  Racing = {v1}
  Nobody = Nobody
  MaxCrashes = 0
PROPERTY VerdictFinal
CHECK_DEADLOCK FALSE
