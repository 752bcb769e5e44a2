SPECIFICATION Spec
CONSTANTS
    Node = {1, 2}
    NameOf <- OwnName
    Initial = {1}
    Settled = FALSE
    Variants = {0}
    Quorum = 1
    MaxTimeouts = 0
    MaxCrashes = 1
    MaxSuspicions = 0
    MaxTicks = 0
    MaxChanges = 0
INVARIANTS TypeOK AckedInstalled  
PROPERTIES GenerationIsOneEpoch
CHECK_DEADLOCK FALSE
