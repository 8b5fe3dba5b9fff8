SPECIFICATION Spec
CONSTANTS
  t1 = t1
  t2 = t2
  NoTransfer = NoTransfer
  Transfers <- TwoTransfers
  Entries = 1
  Backups = 1
  Buffer = 1
  DeleteBackups = TRUE
SYMMETRY TransferSymmetry
INVARIANTS FlagHasOwner StreamIsQuiet SuccessIsWholeBody
CHECK_DEADLOCK FALSE
