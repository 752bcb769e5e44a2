SPECIFICATION TimerSpec
CONSTANTS
    Node = {1, 2}
    NameOf <- OwnName
    Initial = {1, 2}
    Settled = TRUE
    Variants = {0, 1}
    Quorum = 1
    MaxTimeouts = 0
    MaxCrashes = 0
    MaxSuspicions = 1
    MaxTicks = 2
    MaxChanges = 1
PROPERTIES Heals
CHECK_DEADLOCK FALSE
