SPECIFICATION FairSpec
CONSTANTS
  p1 = p1  p2 = p2  t1 = t1  t2 = t2  t3 = t3
  None = None
  Procs = {p1, p2}
  Threads = {t1, t2, t3}
  ProcOf <- TwoAndOne
  NLocks = 2
  Inputs <- Callers
  MaxNest = 2
  MaxRequests <- Nested
  MaxCrash = 1
CHECK_DEADLOCK FALSE
INVARIANTS Exclusion Accounted
PROPERTY Drains
