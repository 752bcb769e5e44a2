------------------------------- MODULE Locker -------------------------------
(***************************************************************************)
(* internal/locker: mutexes addressed by name, created on first use and    *)
(* dropped when nobody waits for them.  The read-modify-write commands of  *)
(* a DMap (Incr, Decr, IncrByFloat, GetPut) and Unlock and Lease of its    *)
(* locks run between Lock(name) and Unlock(name).                          *)
(*                                                                         *)
(* A goroutine calling Lock takes the main mutex, finds or creates the     *)
(* counter of the name and counts itself as a waiter (LockName), then      *)
(* waits for the counter's own mutex (AcquireName), then stops counting    *)
(* itself (DecWaiters).  Unlock drops the entry when nobody is counted     *)
(* (UnlockName) and releases both mutexes (ReleaseName).                   *)
(***************************************************************************)
EXTENDS Integers, FiniteSets

CONSTANTS Threads,  \* the goroutines
          Names,    \* the names locked
          Counters, \* the lockCtr objects the heap can hold
          None      \* no counter, no goroutine, no name

ASSUME ThreadsFinite == IsFiniteSet(Threads)
ASSUME NoneAssumption == None \notin Threads \cup Names \cup Counters

VARIABLES
    locks,    \* Locker.locks: the counter stored under each name
    waiters,  \* lockCtr.waiters of each counter
    holder,   \* lockCtr.mu of each counter: who holds it
    mu,       \* Locker.mu: who holds it across two steps
    pc,       \* where each goroutine is
    name,     \* the name it locks
    ref       \* its local variable nameLock

vars == <<locks, waiters, holder, mu, pc, name, ref>>

Sites == {"idle", "waiting", "acquired", "critical", "unlocking"}

TypeOK ==
    /\ locks \in [Names -> Counters \cup {None}]
    /\ waiters \in [Counters -> Nat]
    /\ holder \in [Counters -> Threads \cup {None}]
    /\ mu \in Threads \cup {None}
    /\ pc \in [Threads -> Sites]
    /\ name \in [Threads -> Names \cup {None}]
    /\ ref \in [Threads -> Counters \cup {None}]

Init ==
    /\ locks = [n \in Names |-> None]
    /\ waiters = [c \in Counters |-> 0]
    /\ holder = [c \in Counters |-> None]
    /\ mu = None
    /\ pc = [t \in Threads |-> "idle"]
    /\ name = [t \in Threads |-> None]
    /\ ref = [t \in Threads |-> None]

\* A counter nothing points to: what &lockCtr{} may return.
Fresh(c) ==
    /\ \A n \in Names : locks[n] # c
    /\ \A t \in Threads : ref[t] # c

\* The counter of name n: the stored one, or a new one.
CounterFor(n, c) ==
    IF locks[n] # None THEN c = locks[n] ELSE Fresh(c)

NewCounterCount(n, c) == IF locks[n] # None THEN waiters[c] ELSE 0

\* Lock, first part: one section under the main mutex.
LockName(t, n, c) ==
    /\ pc[t] = "idle"
    /\ mu = None
    /\ CounterFor(n, c)
    /\ locks' = [locks EXCEPT ![n] = c]
    /\ waiters' = [waiters EXCEPT ![c] = NewCounterCount(n, c) + 1]
    /\ holder' = [holder EXCEPT ![c] = IF locks[n] # None THEN @ ELSE None]
    /\ pc' = [pc EXCEPT ![t] = "waiting"]
    /\ name' = [name EXCEPT ![t] = n]
    /\ ref' = [ref EXCEPT ![t] = c]
    /\ UNCHANGED mu

\* Lock, second part: nameLock.Lock(), outside the main mutex.
AcquireName(t) ==
    /\ pc[t] = "waiting"
    /\ holder[ref[t]] = None
    /\ holder' = [holder EXCEPT ![ref[t]] = t]
    /\ pc' = [pc EXCEPT ![t] = "acquired"]
    /\ UNCHANGED <<locks, waiters, mu, name, ref>>

\* A plausible slip: dec is forgotten.
DecWaitersForgotten(t) ==
    /\ pc[t] = "acquired"
    /\ pc' = [pc EXCEPT ![t] = "critical"]
    /\ UNCHANGED <<locks, waiters, holder, mu, name, ref>>

\* Lock, third part: nameLock.dec(); Lock returns.
DecWaiters(t) ==
    /\ pc[t] = "acquired"
    /\ waiters' = [waiters EXCEPT ![ref[t]] = @ - 1]
    /\ pc' = [pc EXCEPT ![t] = "critical"]
    /\ UNCHANGED <<locks, holder, mu, name, ref>>

\* A plausible slip: the entry is dropped without looking at the waiters.
UnlockNameAlwaysDrops(t) ==
    /\ pc[t] = "critical"
    /\ mu = None
    /\ mu' = t
    /\ locks' = [locks EXCEPT ![name[t]] = None]
    /\ pc' = [pc EXCEPT ![t] = "unlocking"]
    /\ UNCHANGED <<waiters, holder, name, ref>>

\* Unlock, up to the decision to drop the entry; the main mutex stays held.
\* Unlock looks the counter up again, by name: the early return of
\* ErrNoSuchLock is the case locks[name[t]] = None.
UnlockName(t) ==
    /\ pc[t] = "critical"
    /\ mu = None
    /\ IF locks[name[t]] = None
       THEN /\ pc' = [pc EXCEPT ![t] = "idle"]
            /\ name' = [name EXCEPT ![t] = None]
            /\ ref' = [ref EXCEPT ![t] = None]
            /\ UNCHANGED <<locks, mu>>
       ELSE /\ mu' = t
            /\ ref' = [ref EXCEPT ![t] = locks[name[t]]]
            /\ locks' = IF waiters[locks[name[t]]] = 0
                        THEN [locks EXCEPT ![name[t]] = None]
                        ELSE locks
            /\ pc' = [pc EXCEPT ![t] = "unlocking"]
            /\ UNCHANGED name
    /\ UNCHANGED <<waiters, holder>>

\* Unlock, the rest: nameLock.Unlock() and the main mutex.
ReleaseName(t) ==
    /\ pc[t] = "unlocking"
    /\ holder' = [holder EXCEPT ![ref[t]] = None]
    /\ mu' = None
    /\ pc' = [pc EXCEPT ![t] = "idle"]
    /\ name' = [name EXCEPT ![t] = None]
    /\ ref' = [ref EXCEPT ![t] = None]
    /\ UNCHANGED <<locks, waiters>>

Next ==
    \E t \in Threads :
        \/ \E n \in Names, c \in Counters : LockName(t, n, c)
        \/ AcquireName(t)
        \/ DecWaiters(t)
        \/ UnlockName(t)
        \/ ReleaseName(t)

Spec == Init /\ [][Next]_vars
-----------------------------------------------------------------------------
\* Two goroutines are never both between Lock(n) and Unlock(n) of one name,
\* although the mutex of n may be dropped and created again in between.
MutualExclusion ==
    \A t, u \in Threads :
        /\ pc[t] \in {"acquired", "critical"}
        /\ pc[u] \in {"acquired", "critical"}
        /\ name[t] = name[u]
        => t = u

\* Unlock finds the very counter its goroutine locked: it neither returns
\* ErrNoSuchLock nor unlocks the mutex of somebody else.
UnlockFindsOwnLock ==
    \A t \in Threads :
        pc[t] \in {"acquired", "critical"} => locks[name[t]] = ref[t]

\* The map does not leak: an entry is there only while some goroutine waits
\* for the name or holds it.
NoLeakedEntry ==
    \A n \in Names :
        locks[n] # None => \E t \in Threads : name[t] = n
=============================================================================
