SPECIFICATION MCSpec
CONSTANTS
    a1 = a1  a2 = a2  a3 = a3  c1 = c1
    m1 = m1  m2 = m2  m3 = m3  m4 = m4  n1 = n1
    r1 = r1  r2 = r2
    Waker = waker
    None = None
    Resident0 <- Residents2
    Cap = 2
    Agents = {a1, a2, a3}
    Runtimes = {r1, r2, r3, r4, r5}
    Msgs = {m1, m2, m3}
    To <- ToThree
    Trigger = {m1, m2}
    MaxExec = 1
    Spawnable = {}
    Note <- NoNote
    MaxFail = 1
    MaxInterrupt = 1
CHECK_DEADLOCK FALSE
INVARIANTS
    TypeOK
    NoLostWake
    EvictedEmpty
    Drivable
    CountersBalanced
    AtMostOnce
    ResidentsBounded
 
