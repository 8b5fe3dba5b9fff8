SPECIFICATION FairSpec
CONSTANTS
  t1 = t1
  t2 = t2
  t3 = t3
  Main = Main
  N = 6
  Dirs = {1, 3}
  Odd = {5}
  Parent <- SomeParents
  Blocks <- SomeBlocks
  Traversal <- DepthFirst
  Threads = {t1, t2, t3}
  MaxChanges = 2
INVARIANTS SuccessIsComplete TimesAreRestored NothingAfterReturn EntriesAreFramed AbortIsHeeded
PROPERTIES OperationEnds
CHECK_DEADLOCK FALSE
