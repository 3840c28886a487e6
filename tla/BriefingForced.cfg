SPECIFICATION Spec
CONSTANTS
  Run = {r1, r2, r3}
  Nobody = Nobody
  MaxDay = 1
  RetentionDays = 31
  MaxTries = 1
  Modes <- AllModes
  Faults = {}
CHECK_DEADLOCK FALSE
PROPERTIES
  NeverSentAgainUnforced
