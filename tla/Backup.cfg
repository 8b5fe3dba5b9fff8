CONSTANTS
  b1 = b1
  r1 = r1
  r2 = r2
  Backups = {b1}
  Restores = {r1, r2}
  EntryCount = 1
  FileSize = 2
  RetryLimit = 2
SPECIFICATION Spec
INVARIANTS SuccessIsStored  
PROPERTIES FlagIsLowered CreationEnds
