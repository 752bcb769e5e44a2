SPECIFICATION FairSpec
CONSTANTS
    Keys = {k1, k2}
    Vals = {v}
    Ttls = {0}
    None = None
    Sizes = {1}
    TableSize = 3
    MaxEvict = 0
    Counts = {1}
    MaxCoefficient = 4
    MovesCompacted = TRUE
PROPERTIES CompactionKeepsEntries
CHECK_DEADLOCK FALSE
