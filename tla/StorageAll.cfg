SPECIFICATION Spec
CONSTANTS
  MaxDays = 1
  Retention = 0
  Foreign <- MCForeign
INVARIANTS
  StorageInv
PROPERTIES
  
  DamageIsReported
  ImplementsAtomicFile
