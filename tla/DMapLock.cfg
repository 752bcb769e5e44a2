CONSTANTS
    t1 = t1
    t2 = t2
    t3 = t3
    k1 = k1
    k2 = k2
    c1 = c1
    c2 = c2
    None = None
    Threads <- MCThreads
    Names <- MCNames
    Counters <- MCCounters
    LockKeys <- MCLockKeys
    CounterKeys <- MCCounterKeys
    Timeouts <- MCTimeouts
    Deltas <- MCDeltas
    MaxNow = 2
    Budgets <- MCBudgets
SPECIFICATION DFairSpec
INVARIANTS MutualExclusion NoLeakedEntry OneHolder
PROPERTIES  CommandsReturn
CHECK_DEADLOCK FALSE
