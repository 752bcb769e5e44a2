----------------------------- MODULE MCDMapLock -----------------------------
(***************************************************************************)
(* DMapLock with three goroutines, a lock, a counter and a heap in which a *)
(* dropped lockCtr may come back at the same address.                      *)
(***************************************************************************)
EXTENDS DMapLock

CONSTANTS t1, t2, t3, k1, k2, c1, c2

MCThreads == {t1, t2, t3}
MCNames == {k1, k2}
MCCounters == {c1, c2}
MCLockKeys == {k1}
MCCounterKeys == {k2}
MCTimeouts == {0, 1}
MCDeltas == {1}
MCBudgets == {[locks |-> 4, counters |-> 0, by |-> {t1, t2}],
              [locks |-> 0, counters |-> 3, by |-> MCThreads],
              [locks |-> 1, counters |-> 1, by |-> {t1, t2}]}
=============================================================================
