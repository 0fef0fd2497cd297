SPECIFICATION Spec
CONSTANTS
  Procs = {p1, p2}
  Txs = {t1, t2, t3}
  Files = {f1, f2, f3}
  Existing = {f1, f3}
  Order <- Three
  Deletes <- ThreeDeletes
  Projects <- OneProject
  ProjectOf <- InOne
  MaxCrash = 1
  MaxForeign = 1
  MaxError = 0
  t1 = t1
  t2 = t2
  t3 = t3
  f1 = f1
  f2 = f2
  f3 = f3
  pr1 = pr1
  pr2 = pr2
  p1 = p1
  p2 = p2
  Base = Base
  Foreign = Foreign
  None = None
CHECK_DEADLOCK FALSE
INVARIANT DoubtContained
PROPERTIES  Quarantined
