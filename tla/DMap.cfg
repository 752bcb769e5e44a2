SPECIFICATION SFairSpec
CONSTANTS
    k1 = k1
    k2 = k2
    o = o
    b = b
    c = c
    p = p
    None = None
    Key = {k1, k2}
    Worker = {w1, w2}
    Owner = o
    MaxFragments = 2
    MaxFaults = 1
    Deployments <- All
INVARIANTS AckedKept ReplicasFollow   
PROPERTIES InFlightKeepsFragment QuorumHeld DeleteRemovesAll NXKeepsLive EverythingEnds
CHECK_DEADLOCK FALSE
