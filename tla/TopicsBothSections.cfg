SPECIFICATION Spec
CONSTANTS
  launch = launch
  release = release
  merger = merger
  Headline <- Wordings
  Near <- Alike
  Mint <- Words
  MaxDay = 4
  MaxRuns = 3
  MaxChosen = 2
  MaxAge = 1
  RetentionDays = 2
  Faults = {}
PROPERTIES
  UntouchedHistoryKept
CHECK_DEADLOCK FALSE
