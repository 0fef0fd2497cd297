SPECIFICATION FairSpec
CONSTANTS
    a1 = a1
    a2 = a2
    None = None
    Attempts = {a1, a2}
    Commands = {a2}
    Units = 1
    Limit = 1
    MaxStarts <- Resubmitted
    MaxCrash = 1
    MaxForeign = 0
    MaxCancel = 0
    MaxFaults = 2
    Usage = {1, 2}
PROPERTIES
    RestartRecovers
CHECK_DEADLOCK FALSE
