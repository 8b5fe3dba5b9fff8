SPECIFICATION FairOperations
CONSTANTS
  r1 = r1
  r2 = r2
  r3 = r3
  Requests <- MCRequests
  Limit = 2
INVARIANT RunningIsAbortable
PROPERTY AbortEnds
CHECK_DEADLOCK FALSE
