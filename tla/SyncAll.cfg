SPECIFICATION Spec
CONSTANTS
  topics = topics
  briefings = briefings
  NoBlob = NoBlob
  NoSha = NoSha
  Order <- TwoFiles
  MaxRuns = 2
  MaxCommits = 1
  MaxRows = 2
  MaxNested = 2
INVARIANTS
  SyncInv
  ReportIsTrue
PROPERTIES
  RowsLostOnlyAfterRefresh
