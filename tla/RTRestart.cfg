SPECIFICATION FairSpec
CONSTANTS
    Node = {1, 2, 3}
    NameOf <- Restarted
    Initial = {1, 2}
    Settled = TRUE
    Variants = {0}
    Quorum = 1
    MaxTimeouts = 1
    MaxCrashes = 1
    MaxSuspicions = 0
    MaxTicks = 0
    MaxChanges = 0
PROPERTIES PushesInOrder EarlyAcksCount  Converges
CHECK_DEADLOCK FALSE
