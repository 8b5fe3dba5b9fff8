SPECIFICATION Spec
CONSTANTS
  c1 = c1
  c2 = c2
  d1 = d1
  d2 = d2
  x1 = x1
  Root = Root
  Clients = {c1, c2}
  Dirs = {d1, d2}
  Names = {x1}
  Limits = {2, 3}
  Sizes = {0, 1}
  Length = 1
  Threshold = 2
  Largest = 2
  Word = 100
  MaxOps = 2
  MaxChecks = 1
INVARIANTS NeverUndercounts RecountHeals OvershootIsBounded
SYMMETRY Symmetry
CHECK_DEADLOCK FALSE
