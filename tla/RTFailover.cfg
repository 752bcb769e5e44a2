SPECIFICATION FairSpec
CONSTANTS
    Node = {1, 2, 3}
    NameOf <- OwnName
    Initial = {1, 2, 3}
    Settled = TRUE
    Variants = {0}
    Quorum = 1
    MaxTimeouts = 1
    MaxCrashes = 2
    MaxSuspicions = 0
    MaxTicks = 0
    MaxChanges = 0
INVARIANTS NoMissedCompletion
PROPERTIES Converges
CHECK_DEADLOCK FALSE
