SPECIFICATION Spec
CONSTANTS
    Keys = {k1, k2}
    Vals = {v}
    Ttls = {0, 1}
    None = None
    Sizes = {1, 2}
    TableSize = 5
    MaxEvict = 0
    Counts = {1}
    MaxCoefficient = 3
    MovesCompacted = FALSE
SYMMETRY Symmetry
INVARIANTS TypeOK OneVersion Accounted ScanComplete CopyComplete
PROPERTIES  CompactionAdvances
CHECK_DEADLOCK FALSE
