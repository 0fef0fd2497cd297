SPECIFICATION FairSpec
CONSTANTS
  Procs = {p1, p2}
  Txs = {t1, t2}
  Files = {f1, f2, f3}
  Existing = {f1, f3}
  Order <- AllKinds
  Deletes <- AllKindsDeletes
  Projects <- TwoProjects
  ProjectOf <- InTwo
  MaxCrash = 2
  MaxForeign = 0
  MaxError = 1
  t1 = t1
  t2 = t2
  t3 = t3
  f1 = f1
  f2 = f2
  f3 = f3
  pr1 = pr1
  pr2 = pr2
  p1 = p1
  p2 = p2
  Base = Base
  Foreign = Foreign
  None = None
CHECK_DEADLOCK FALSE
INVARIANTS PreparedFenced DoubtOnlyForeign TombstonesSwept
PROPERTIES  Atomic EventuallyResolved
