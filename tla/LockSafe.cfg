SPECIFICATION FairSpec
CONSTANTS
  r1 = r1
  r2 = r2
  r3 = r3
  p1 = p1
  p2 = p2
  NoFile = NoFile
  Run <- MCRun
  Process <- MCProcess
  TTL = 3
  MaxHold = 2
  Deployments <- MCSafe
INVARIANTS
  MutualExclusion
  LockInv
PROPERTIES
  ReleasesOwnFile
  RefusedByFreshFileOnly
  AbandonedFileIsCleared
  ImplementsGuard
