SPECIFICATION FairSpec
CONSTANTS
    na = na
    nb = nb
    nc = nc
    nd = nd
    ne = ne
    End = End
    None = None
    Nodes = {na, nb, nc, nd, ne}
    Graphs <- All
    RecursionLimit = 6
    MaxFaults = 1
    MaxResume = 1
INVARIANTS  JoinsSound
 
CHECK_DEADLOCK FALSE
