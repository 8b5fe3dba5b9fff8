SPECIFICATION Spec
CONSTANTS
  s1 = s1
  u1 = u1
  u2 = u2
  Nobody = Nobody
  Sessions = {s1}
  Users = {u1, u2}
  Grants <- SomeGrants
  ReadOnly = FALSE
  HandleLimit = 1
  MaxChanges = 2
  MaxHandleIds = 2
  SendCount = 1
  Window = 0
  MaxClock = 1
INVARIANTS TypeOK UserIsTheAcceptedOne ChangesAreLogged LockedOutSoon
PROPERTIES ToldOnceOrLost 
CHECK_DEADLOCK FALSE
SYMMETRY UserSymmetry
