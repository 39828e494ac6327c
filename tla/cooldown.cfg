\* Two goals of two verifiers and two rounds each: the four failures of their
\* first rounds make a cooldown, three of them and both second rounds seven
\* events.
SPECIFICATION Spec
CONSTANTS
  goal1 = goal1
  goal2 = goal2
  Cmd <- Goals
  MaxSlot = 2
  Threshold = 3
  Window = 1
  MaxRun = 2
INVARIANTS TypeOK Overshoot
PROPERTIES CooldownEnds
CHECK_DEADLOCK FALSE
