SPECIFICATION FairSpec
CONSTANTS
  Run = {r1, r2}
  Nobody = Nobody
  MaxDay = 2
  RetentionDays = 0
  MaxTries = 2
  Modes <- AllModes
  Faults <- FaultKinds
INVARIANTS
  RecordsAreTruthful
  SuccessIsTrue
  OnceUnlessExcused
  RunInv
PROPERTIES
  DeliveredRecordSurvives
  OneRunAtATime
  EveryRunEnds
