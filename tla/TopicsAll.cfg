SPECIFICATION Spec
CONSTANTS
  launch = launch
  release = release
  merger = merger
  Headline <- Wordings
  Near <- Alike
  Mint <- Words
  MaxDay = 4
  MaxRuns = 3
  MaxChosen = 2
  MaxAge = 0
  RetentionDays = 2
  Faults <- FaultKinds
SYMMETRY Rewordings
INVARIANTS
  TopicInv
  ScoresHaveTopics
  MomentumIsOwn
  SteadyStoriesHaveMomentum
PROPERTIES
  TopicHistoryKept
CHECK_DEADLOCK FALSE
