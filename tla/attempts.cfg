SPECIFICATION FairSpec
CONSTANTS
    a1 = a1
    a2 = a2
    None = None
    Attempts = {a1, a2}
    Commands = {a2}
    Units = 1
    Limit = 1
    MaxStarts <- Resubmitted
    MaxCrash = 1
    MaxForeign = 1
    MaxCancel = 1
    MaxFaults = 2
    Usage = {1, 2}
INVARIANTS WireOnce  
PROPERTIES ClosedForGood 
CHECK_DEADLOCK FALSE
