SPECIFICATION Spec
CONSTANTS
  topics = topics
  briefings = briefings
  NoBlob = NoBlob
  NoSha = NoSha
  Order <- OneFile
  MaxRuns = 2
  MaxCommits = 0
  MaxRows = 5
  MaxNested = 3
PROPERTIES
  HistorySurvives
