SPECIFICATION LockSpec
CONSTANTS
  c1 = c1
  c2 = c2
  o1 = o1
  Callers <- MCCallers
  Observers <- MCObservers
  Timeouts = {"none", "zero", "some"}
  NoState = NoState
SYMMETRY CallerSymmetry
INVARIANTS LockIsHeld StatusFollowsState
