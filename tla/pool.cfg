SPECIFICATION FairSpec
CONSTANTS
    g = g
    c = c
    a = a
    None = None
    Ids = {g, c, a}
    Kind <- OneEach
    MaxConcurrency = 1
    MaxRuns = 2
    MaxCancels = 1
INVARIANTS AllTracked NoLostCompletion PointerKept
PROPERTIES  StopsEnd
CHECK_DEADLOCK FALSE
