CONSTANTS
  Tasks <- MCTasks
  Mutexes <- MCMutexes
SPECIFICATION Spec
PROPERTIES BrowseEnds
CHECK_DEADLOCK FALSE
