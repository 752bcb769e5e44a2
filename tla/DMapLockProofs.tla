--------------------------- MODULE DMapLockProofs ---------------------------
(***************************************************************************)
(* The read-modify-write commands of a member use the named locker as it   *)
(* is meant to be used, so that its mutual exclusion is theirs; hence each *)
(* of them acts on the very entry it read; and hence a lock has one holder *)
(* at a time: for any number of goroutines, keys, commands and timeouts.   *)
(***************************************************************************)
EXTENDS DMapLock, FiniteSetTheorems, SequenceTheorems, TLAPS

-----------------------------------------------------------------------------
(* Locker: mutual exclusion for any number of goroutines and names. The    *)
(* argument rests on one count: the waiters of a counter are exactly the   *)
(* goroutines between inc and dec, so a counter with no waiter is known to *)
(* nobody but the goroutine that is releasing it.                          *)

\* The goroutines between inc and dec on counter c.
Counted(c) == {t \in Threads : pc[t] \in {"waiting", "acquired"} /\ ref[t] = c}

WaitersExact == \A c \in Counters : waiters[c] = Cardinality(Counted(c))

Inside == {"waiting", "acquired", "critical"}

\* A goroutine's counter is the one stored under its name, from inc until
\* Unlock decides about the entry.
RefIsStored ==
    \A t \in Threads :
        /\ pc[t] = "idle" => ref[t] = None /\ name[t] = None
        /\ pc[t] # "idle" => ref[t] \in Counters /\ name[t] \in Names
        /\ pc[t] \in Inside => locks[name[t]] = ref[t]

HolderExact ==
    \A c \in Counters, t \in Threads :
        holder[c] = t <=> (ref[t] = c /\ pc[t] \in {"acquired", "critical", "unlocking"})

MainMutex == \A t \in Threads : mu = t <=> pc[t] = "unlocking"

StoredOnce ==
    \A n, m \in Names : locks[n] # None /\ locks[n] = locks[m] => n = m

\* While Unlock is between its decision and the release, either the entry is
\* still there or nobody else knows the counter.
Releasing ==
    \A t \in Threads :
        pc[t] = "unlocking" =>
            \/ locks[name[t]] = ref[t]
            \/ /\ \A n \in Names : locks[n] # ref[t]
               /\ \A u \in Threads : ref[u] = ref[t] => u = t

\* An entry that is stored is waited for or held.
EntryUsed ==
    \A n \in Names : locks[n] # None =>
        \E t \in Threads : name[t] = n /\ ref[t] = locks[n]
                           /\ (pc[t] = "unlocking" => waiters[locks[n]] # 0)

\* The inductive invariant.
LockerInv ==
    /\ TypeOK
    /\ WaitersExact
    /\ RefIsStored
    /\ HolderExact
    /\ MainMutex
    /\ StoredOnce
    /\ Releasing
    /\ EntryUsed


-----------------------------------------------------------------------------
\* Counted(c) is a finite set, so its cardinality is a natural number that is
\* zero only when it is empty.
LEMMA CountedFinite ==
    ASSUME NEW c
    PROVE  /\ IsFiniteSet(Counted(c))
           /\ Cardinality(Counted(c)) \in Nat
           /\ Cardinality(Counted(c)) = 0 <=> Counted(c) = {}
  <1>1. Counted(c) \in SUBSET Threads
    BY DEF Counted
  <1>2. IsFiniteSet(Counted(c))
    BY <1>1, ThreadsFinite, FS_Subset
  <1>3. QED
    BY <1>2, FS_CardinalityType, FS_EmptySet

\* The state New starts in satisfies the invariant: nothing is stored.
LEMMA LockerInit == Init => LockerInv
  <1> SUFFICES ASSUME Init PROVE LockerInv
    OBVIOUS
  <1>1. WaitersExact
    <2>1. \A c \in Counters : Counted(c) = {}
      BY DEF Init, Counted
    <2>2. QED
      BY <2>1, FS_EmptySet DEF Init, WaitersExact
  <1>2. TypeOK /\ RefIsStored /\ HolderExact /\ MainMutex /\ StoredOnce
        /\ Releasing /\ EntryUsed
    BY NoneAssumption DEF Init, TypeOK, Sites, RefIsStored, HolderExact, Inside,
       MainMutex, StoredOnce, Releasing, EntryUsed
  <1>3. QED
    BY <1>1, <1>2 DEF LockerInv

\* Lock counts its goroutine before it lets the main mutex go.
LEMMA LockNameStep ==
    ASSUME LockerInv, NEW t \in Threads, NEW n \in Names, NEW c \in Counters,
           LockName(t, n, c)
    PROVE  LockerInv'
  <1> USE DEF LockerInv
  <1>0. /\ pc[t] = "idle" /\ ref[t] = None /\ name[t] = None
        /\ c # None /\ n # None /\ mu = None
    BY NoneAssumption DEF LockName, RefIsStored
  <1>1. locks[n] # None => c = locks[n]
    BY DEF LockName, CounterFor
  <1>2. locks[n] = None => Fresh(c)
    BY DEF LockName, CounterFor
  <1>3. \A d \in Counters : Counted(d)' = IF d = c THEN Counted(d) \cup {t} ELSE Counted(d)
    BY <1>0 DEF Counted, LockName, TypeOK
  <1>4. t \notin Counted(c)
    BY <1>0 DEF Counted
  <1>5. locks[n] = None => waiters'[c] = 1 /\ Counted(c) = {}
    BY <1>2, NoneAssumption DEF Fresh, Counted, LockName, NewCounterCount, TypeOK
  <1>6. WaitersExact'
    <2>1. Cardinality(Counted(c) \cup {t}) = Cardinality(Counted(c)) + 1
      BY Zenon, <1>4, CountedFinite, FS_AddElement
    <2>2. ASSUME NEW d \in Counters PROVE waiters'[d] = Cardinality(Counted(d)')
      <3>1. CASE d # c
        BY <3>1, <1>3 DEF WaitersExact, LockName, TypeOK
      <3>2. CASE d = c /\ locks[n] # None
        BY Zenon, <3>2, <1>3, <2>1 DEF WaitersExact, LockName, TypeOK, NewCounterCount
      <3>3. CASE d = c /\ locks[n] = None
        BY <3>3, <1>3, <1>5, <2>1, FS_EmptySet
      <3>4. QED
        BY <3>1, <3>2, <3>3
    <2>3. QED
      BY <2>2 DEF WaitersExact
  <1>7. TypeOK'
    <2>1. NewCounterCount(n, c) + 1 \in Nat
      BY DEF NewCounterCount, TypeOK
    <2>2. QED
      BY <2>1 DEF TypeOK, LockName, Sites
  <1>8. RefIsStored'
    BY <1>0, <1>1, <1>2, NoneAssumption DEF RefIsStored, LockName, TypeOK, Fresh, Inside
  <1>9. HolderExact'
    BY <1>0, <1>1, <1>2, NoneAssumption DEF HolderExact, LockName, TypeOK, Fresh
  <1>10. MainMutex'
    BY <1>0, NoneAssumption DEF MainMutex, LockName, TypeOK
  <1>11. StoredOnce'
    BY <1>0, <1>1, <1>2 DEF StoredOnce, LockName, TypeOK, Fresh
  <1>12. Releasing'
    BY <1>0, NoneAssumption DEF Releasing, MainMutex, LockName, TypeOK
  <1>13. EntryUsed'
    <2>1. ASSUME NEW m \in Names, locks'[m] # None
          PROVE  \E u \in Threads : name'[u] = m /\ ref'[u] = locks'[m]
                       /\ (pc'[u] = "unlocking" => waiters'[locks'[m]] # 0)
      <3>1. CASE m = n
        BY <3>1, <1>0 DEF LockName, TypeOK
      <3>2. CASE m # n
        <4>1. PICK u \in Threads : name[u] = m /\ ref[u] = locks[m]
          BY <2>1, <3>2 DEF EntryUsed, LockName, TypeOK
        <4>2. u # t /\ pc[u] # "unlocking"
          BY <4>1, <1>0, NoneAssumption DEF MainMutex
        <4>3. QED
          BY <4>1, <4>2, <3>2 DEF LockName, TypeOK
      <3>3. QED
        BY <3>1, <3>2
    <2>2. QED
      BY <2>1 DEF EntryUsed
  <1>14. QED
    BY <1>6, <1>7, <1>8, <1>9, <1>10, <1>11, <1>12, <1>13

\* nameLock.Lock(): the mutex goes to a goroutine that is counted on it.
LEMMA AcquireNameStep ==
    ASSUME LockerInv, NEW t \in Threads, AcquireName(t)
    PROVE  LockerInv'
  <1> USE DEF LockerInv
  <1>0. pc[t] = "waiting" /\ ref[t] \in Counters /\ name[t] \in Names
    BY DEF AcquireName, RefIsStored
  <1>1. \A d \in Counters : Counted(d)' = Counted(d)
    BY <1>0 DEF Counted, AcquireName, TypeOK
  <1>2. WaitersExact'
    BY <1>1 DEF WaitersExact, AcquireName
  <1>3. TypeOK'
    BY <1>0 DEF TypeOK, AcquireName, Sites
  <1>4. RefIsStored'
    BY <1>0 DEF RefIsStored, AcquireName, TypeOK, Inside
  <1>5. HolderExact'
    BY <1>0, NoneAssumption DEF HolderExact, AcquireName, TypeOK
  <1>6. MainMutex' /\ StoredOnce' /\ Releasing' /\ EntryUsed'
    BY <1>0 DEF MainMutex, StoredOnce, Releasing, EntryUsed, AcquireName, TypeOK
  <1>7. QED
    BY <1>2, <1>3, <1>4, <1>5, <1>6

\* dec: the goroutine that has the mutex was counted, so the count stays exact
\* and never becomes negative.
LEMMA DecWaitersStep ==
    ASSUME LockerInv, NEW t \in Threads, DecWaiters(t)
    PROVE  LockerInv'
  <1> USE DEF LockerInv
  <1> DEFINE c == ref[t]
  <1>0. pc[t] = "acquired" /\ c \in Counters /\ name[t] \in Names
        /\ locks[name[t]] = c
    BY DEF DecWaiters, RefIsStored, Inside
  <1>1. \A d \in Counters : Counted(d)' = IF d = c THEN Counted(d) \ {t} ELSE Counted(d)
    BY <1>0 DEF Counted, DecWaiters, TypeOK
  <1>2. t \in Counted(c)
    BY <1>0 DEF Counted
  <1>3. Cardinality(Counted(c) \ {t}) = Cardinality(Counted(c)) - 1
    BY Zenon, <1>2, CountedFinite, FS_RemoveElement
  <1>4. Cardinality(Counted(c)) \in Nat /\ Cardinality(Counted(c)) # 0
    BY <1>2, CountedFinite
  <1>5. waiters[c] - 1 \in Nat /\ waiters' = [waiters EXCEPT ![c] = waiters[c] - 1]
    BY <1>0, <1>4 DEF WaitersExact, DecWaiters
  <1>6. WaitersExact'
    <2>1. ASSUME NEW d \in Counters PROVE waiters'[d] = Cardinality(Counted(d)')
      <3>1. CASE d = c
        BY Zenon, <3>1, <1>0, <1>1, <1>3, <1>5 DEF WaitersExact, TypeOK
      <3>2. CASE d # c
        BY <3>2, <1>1, <1>5 DEF WaitersExact, TypeOK
      <3>3. QED
        BY <3>1, <3>2
    <2>2. QED
      BY <2>1 DEF WaitersExact
  <1>7. TypeOK'
    BY <1>0, <1>5 DEF TypeOK, DecWaiters, Sites
  <1>8. RefIsStored' /\ HolderExact' /\ MainMutex' /\ StoredOnce' /\ Releasing'
    BY <1>0 DEF RefIsStored, HolderExact, MainMutex, StoredOnce, Releasing,
       DecWaiters, TypeOK, Inside
  <1>9. EntryUsed'
    <2>1. ASSUME NEW m \in Names, locks'[m] # None
          PROVE  \E u \in Threads : name'[u] = m /\ ref'[u] = locks'[m]
                       /\ (pc'[u] = "unlocking" => waiters'[locks'[m]] # 0)
      <3>1. CASE m = name[t]
        BY <3>1, <1>0 DEF DecWaiters, TypeOK
      <3>2. CASE m # name[t]
        <4>1. PICK u \in Threads : name[u] = m /\ ref[u] = locks[m]
                  /\ (pc[u] = "unlocking" => waiters[locks[m]] # 0)
          BY <2>1 DEF EntryUsed, DecWaiters
        <4>2. locks[m] # c
          BY <3>2, <1>0, NoneAssumption DEF StoredOnce
        <4>3. u # t
          BY <4>1, <3>2
        <4>4. QED
          BY <4>1, <4>2, <4>3, <1>5 DEF DecWaiters, TypeOK
      <3>3. QED
        BY <3>1, <3>2
    <2>2. QED
      BY <2>1 DEF EntryUsed
  <1>10. QED
    BY <1>6, <1>7, <1>8, <1>9

\* Unlock drops the entry only when the count says that nobody else knows the
\* counter.
LEMMA UnlockNameStep ==
    ASSUME LockerInv, NEW t \in Threads, UnlockName(t)
    PROVE  LockerInv'
  <1> USE DEF LockerInv
  <1> DEFINE c == ref[t]
  <1>0. /\ pc[t] = "critical" /\ c \in Counters /\ name[t] \in Names
        /\ locks[name[t]] = c /\ c # None
    BY NoneAssumption DEF UnlockName, RefIsStored, Inside
  <1>1. /\ mu = None /\ mu' = t /\ ref' = ref /\ name' = name
        /\ pc' = [pc EXCEPT ![t] = "unlocking"]
        /\ waiters' = waiters /\ holder' = holder
        /\ locks' = IF waiters[c] = 0 THEN [locks EXCEPT ![name[t]] = None] ELSE locks
    BY Zenon, <1>0 DEF UnlockName, TypeOK
  <1>2. \A d \in Counters : Counted(d)' = Counted(d)
    BY <1>0, <1>1 DEF Counted, TypeOK
  <1>3. WaitersExact'
    BY <1>1, <1>2 DEF WaitersExact
  <1>4. waiters[c] = 0 => \A u \in Threads : ref[u] = c => u = t
    <2> SUFFICES ASSUME waiters[c] = 0, NEW u \in Threads, ref[u] = c PROVE u = t
      OBVIOUS
    <2>1. u \notin Counted(c)
      BY <1>0, CountedFinite DEF WaitersExact
    <2>2. pc[u] \in {"critical", "unlocking"}
      BY <2>1, <1>0 DEF Counted, RefIsStored, TypeOK, Sites
    <2>3. holder[c] = t /\ holder[c] = u
      BY <2>2, <1>0 DEF HolderExact
    <2>4. QED
      BY <2>3
  <1>5. TypeOK'
    BY <1>0, <1>1 DEF TypeOK, Sites
  <1>6. RefIsStored'
    <2>1. ASSUME NEW u \in Threads, pc'[u] \in Inside PROVE locks'[name'[u]] = ref'[u]
      <3>1. u # t /\ pc[u] \in Inside /\ locks[name[u]] = ref[u]
        BY <2>1, <1>0, <1>1 DEF RefIsStored, TypeOK, Inside
      <3>2. CASE waiters[c] = 0
        <4>1. ref[u] # c
          BY <3>1, <3>2, <1>4
        <4>2. QED
          BY <4>1, <3>1, <1>0, <1>1 DEF TypeOK
      <3>3. CASE waiters[c] # 0
        BY <3>1, <3>3, <1>1
      <3>4. QED
        BY <3>2, <3>3
    <2>2. QED
      BY <2>1, <1>0, <1>1 DEF RefIsStored, TypeOK
  <1>7. HolderExact'
    BY <1>0, <1>1 DEF HolderExact, TypeOK
  <1>8. MainMutex'
    BY <1>0, <1>1, NoneAssumption DEF MainMutex, TypeOK
  <1>9. StoredOnce'
    BY <1>0, <1>1 DEF StoredOnce, TypeOK
  <1>10. Releasing'
    <2>1. ASSUME NEW u \in Threads, pc'[u] = "unlocking" PROVE u = t
      BY <2>1, <1>1, NoneAssumption DEF MainMutex, TypeOK
    <2>2. CASE waiters[c] = 0
      BY <2>1, <2>2, <1>0, <1>1, <1>4 DEF Releasing, StoredOnce, TypeOK
    <2>3. CASE waiters[c] # 0
      BY <2>1, <2>3, <1>0, <1>1 DEF Releasing, TypeOK
    <2>4. QED
      BY <2>2, <2>3
  <1>11. EntryUsed'
    <2>1. ASSUME NEW m \in Names, locks'[m] # None
          PROVE  \E u \in Threads : name'[u] = m /\ ref'[u] = locks'[m]
                       /\ (pc'[u] = "unlocking" => waiters'[locks'[m]] # 0)
      <3>0. locks'[m] = locks[m]
        BY <2>1, <1>0, <1>1 DEF TypeOK
      <3>1. CASE m = name[t]
        BY <3>0, <3>1, <2>1, <1>0, <1>1 DEF TypeOK
      <3>2. CASE m # name[t]
        <4>1. PICK u \in Threads : name[u] = m /\ ref[u] = locks[m]
                  /\ (pc[u] = "unlocking" => waiters[locks[m]] # 0)
          BY <2>1, <3>0 DEF EntryUsed
        <4>2. QED
          BY <4>1, <3>0, <3>2, <1>1 DEF TypeOK
      <3>3. QED
        BY <3>1, <3>2
    <2>2. QED
      BY <2>1 DEF EntryUsed
  <1>12. QED
    BY <1>3, <1>5, <1>6, <1>7, <1>8, <1>9, <1>10, <1>11

\* The release: what it forgets is known to nobody, or is waited for.
LEMMA ReleaseNameStep ==
    ASSUME LockerInv, NEW t \in Threads, ReleaseName(t)
    PROVE  LockerInv'
  <1> USE DEF LockerInv
  <1> DEFINE c == ref[t]
  <1>0. pc[t] = "unlocking" /\ c \in Counters /\ name[t] \in Names /\ mu = t
    BY DEF ReleaseName, RefIsStored, MainMutex
  <1>1. \A d \in Counters : Counted(d)' = Counted(d)
    BY <1>0, NoneAssumption DEF Counted, ReleaseName, TypeOK
  <1>2. WaitersExact'
    BY <1>1 DEF WaitersExact, ReleaseName
  <1>3. TypeOK'
    BY <1>0 DEF TypeOK, ReleaseName, Sites
  <1>4. RefIsStored'
    BY <1>0 DEF RefIsStored, ReleaseName, TypeOK, Inside
  <1>5. HolderExact'
    BY <1>0, NoneAssumption DEF HolderExact, ReleaseName, TypeOK
  <1>6. MainMutex' /\ StoredOnce'
    BY <1>0, NoneAssumption DEF MainMutex, StoredOnce, ReleaseName, TypeOK
  <1>7. Releasing'
    BY <1>0 DEF Releasing, MainMutex, ReleaseName, TypeOK
  <1>8. EntryUsed'
    <2>1. ASSUME NEW m \in Names, locks'[m] # None
          PROVE  \E u \in Threads : name'[u] = m /\ ref'[u] = locks'[m]
                       /\ (pc'[u] = "unlocking" => waiters'[locks'[m]] # 0)
      <3>1. PICK u \in Threads : name[u] = m /\ ref[u] = locks[m]
                /\ (pc[u] = "unlocking" => waiters[locks[m]] # 0)
        BY <2>1 DEF EntryUsed, ReleaseName
      <3>2. CASE u # t
        BY <3>1, <3>2 DEF ReleaseName, TypeOK
      <3>3. CASE u = t
        <4>1. Counted(c) # {}
          BY <3>1, <3>3, <1>0, CountedFinite DEF WaitersExact
        <4>2. PICK v \in Threads : v \in Counted(c)
          BY <4>1 DEF Counted
        <4>3. v # t /\ pc[v] \in Inside /\ ref[v] = c /\ name[v] \in Names
          BY <4>2, <1>0 DEF Counted, Inside, RefIsStored
        <4>4. name[v] = m
          BY <4>3, <3>1, <3>3, <1>0, NoneAssumption DEF RefIsStored, StoredOnce
        <4>5. pc'[v] # "unlocking" /\ name'[v] = m /\ ref'[v] = locks'[m]
          BY <4>2, <4>3, <4>4, <3>1, <3>3 DEF ReleaseName, TypeOK, Inside
        <4>6. QED
          BY <4>5
      <3>4. QED
        BY <3>2, <3>3
    <2>2. QED
      BY <2>1 DEF EntryUsed
  <1>9. QED
    BY <1>2, <1>3, <1>4, <1>5, <1>6, <1>7, <1>8

\* The invariant holds in every reachable state of any Locker.
THEOREM LockerInvariant == Spec => []LockerInv
  <1>1. LockerInv /\ [Next]_vars => LockerInv'
    <2> SUFFICES ASSUME LockerInv, [Next]_vars PROVE LockerInv'
      OBVIOUS
    <2>1. CASE Next
      BY <2>1, LockNameStep, AcquireNameStep, DecWaitersStep, UnlockNameStep,
         ReleaseNameStep DEF Next
    <2>2. CASE UNCHANGED vars
      <3>1. \A c \in Counters : Counted(c)' = Counted(c)
        BY <2>2 DEF vars, Counted
      <3>2. QED
        BY <2>2, <3>1 DEF vars, LockerInv, TypeOK, WaitersExact, RefIsStored,
           HolderExact, MainMutex, StoredOnce, Releasing, EntryUsed
    <2>3. QED
      BY <2>1, <2>2
  <1>2. QED
    BY <1>1, LockerInit, PTL DEF Spec

\* Between Lock(n) and Unlock(n) there is one goroutine: what Incr, Decr,
\* GetPut, Unlock and Lease rely on.
THEOREM LockerMutualExclusion == Spec => []MutualExclusion
  <1>1. LockerInv => MutualExclusion
    <2> SUFFICES ASSUME LockerInv, NEW t \in Threads, NEW u \in Threads,
                        pc[t] \in {"acquired", "critical"},
                        pc[u] \in {"acquired", "critical"}, name[t] = name[u]
                 PROVE  t = u
      BY DEF MutualExclusion
    <2>1. ref[t] = ref[u] /\ ref[t] \in Counters
      BY DEF LockerInv, RefIsStored, Inside
    <2>2. QED
      BY <2>1 DEF LockerInv, HolderExact
  <1>2. QED
    BY <1>1, LockerInvariant, PTL

\* Unlock never returns ErrNoSuchLock to a goroutine that called Lock, and the
\* map keeps no entry that nobody uses.
THEOREM LockerEntries == Spec => [](UnlockFindsOwnLock /\ NoLeakedEntry)
  <1>1. LockerInv => UnlockFindsOwnLock /\ NoLeakedEntry
    BY DEF LockerInv, RefIsStored, EntryUsed, UnlockFindsOwnLock, NoLeakedEntry, Inside
  <1>2. QED
    BY <1>1, LockerInvariant, PTL

-----------------------------------------------------------------------------
(* The commands.                                                           *)

Entry == [val : Int \cup {None}, ttl : Nat]
Commands == {"none", "lock", "unlock", "lease", "incr", "float", "getput"}
Steps == {"read", "check", "act", "done"}
Calls == [do : Commands, key : Names \cup {None}, arg : Int, token : Nat,
          step : Steps, got : Entry \cup {None}]
Grants == [key : LockKeys, ttl : Nat, out : BOOLEAN]

OnLock(t) == call[t].do \in {"lock", "unlock", "lease"}
OnCounter(t) == call[t].do \in {"incr", "float", "getput"}

CallType ==
    /\ store \in [Names -> Entry \cup {None}]
    /\ now \in Nat
    /\ call \in [Threads -> Calls]
    /\ granted \in Seq(Grants)
    /\ \A t \in Threads : OnLock(t) => call[t].key \in LockKeys /\ call[t].arg \in Nat
    /\ \A t \in Threads : OnCounter(t) => call[t].key \in CounterKeys

\* A goroutine without a guarded command is outside the locker; one with such a
\* command locks the name of its key, and is inside from its read to its act.
Section ==
    \A t \in Threads :
        /\ ~Guarded(t) => pc[t] = "idle"
        /\ Guarded(t) /\ pc[t] # "idle" => name[t] = call[t].key
        /\ Guarded(t) /\ call[t].step \in {"check", "act"} =>
              pc[t] = "critical" /\ (OnLock(t) => call[t].got # None)

\* What a goroutine read is still so, or has lapsed, until it acts on it.
Between(t) == Guarded(t) /\ call[t].step \in {"check", "act"}
Still(t) == Live(call[t].key) = call[t].got \/ (call[t].got # None /\ Lapsed(call[t].got.ttl))
StillRead == \A t \in Threads : Between(t) => Still(t)

-----------------------------------------------------------------------------
\* Deadlines and updated entries have their types.
LEMMA DeadlineType == ASSUME CallType, NEW d \in Nat PROVE Deadline(d) \in Nat
  BY DEF Deadline, CallType

LEMMA UpdatedType ==
    ASSUME CallType, NEW t \in Threads, OnCounter(t)
    PROVE  Updated(t) \in Entry
<1>1. call[t] \in Calls
  BY DEF CallType
<1>2. loadCurrentAtomicInt(t).val \in Int /\ loadCurrentAtomicInt(t).ttl \in Nat
  BY <1>1 DEF loadCurrentAtomicInt, Calls, Entry
<1>3. QED
  BY <1>1, <1>2 DEF Updated, Calls, Entry

\* A command taken has its type.
LEMMA TakeType ==
    ASSUME CallType, NEW t \in Threads, NEW do \in Commands, NEW k \in Names, NEW arg \in Int,
           NEW token \in Nat, Take(t, do, k, arg, token),
           do \in {"lock", "unlock", "lease"} => k \in LockKeys /\ arg \in Nat,
           do \in {"incr", "float", "getput"} => k \in CounterKeys
    PROVE  CallType'
<1> DEFINE c == [do |-> do, key |-> k, arg |-> arg, token |-> token,
                 step |-> "read", got |-> None]
<1>1. c \in Calls
  BY DEF Calls, Steps
<1>2. call' = [call EXCEPT ![t] = c] /\ UNCHANGED <<store, now, granted>>
  BY DEF Take
<1>3. call' \in [Threads -> Calls]
  BY <1>1, <1>2 DEF CallType
<1>4. \A u \in Threads : call'[u] = IF u = t THEN c ELSE call[u]
  BY <1>2 DEF CallType
<1> HIDE DEF c
<1>5. c.do = do /\ c.key = k /\ c.arg = arg
  BY DEF c
<1>6. QED
  BY <1>2, <1>3, <1>4, <1>5 DEF CallType, OnLock, OnCounter

\* Handing out a token, and changing one that was handed out, keep the list.
LEMMA GrantType ==
    ASSUME CallType, NEW k \in LockKeys, NEW d \in Nat
    PROVE  Append(granted, [key |-> k, ttl |-> d, out |-> FALSE]) \in Seq(Grants)
<1>1. [key |-> k, ttl |-> d, out |-> FALSE] \in Grants
  BY DEF Grants
<1>2. granted \in Seq(Grants)
  BY DEF CallType
<1>3. QED
  BY <1>1, <1>2, AppendProperties

LEMMA GrantChanged ==
    ASSUME CallType, NEW i \in Nat, NEW d \in Nat
    PROVE  /\ [granted EXCEPT ![i].out = TRUE] \in Seq(Grants)
           /\ [granted EXCEPT ![i].ttl = d] \in Seq(Grants)
<1>1. PICK n \in Nat : granted \in [1 .. n -> Grants]
  BY SeqDef DEF CallType
<1>2. [granted EXCEPT ![i].out = TRUE] \in [1 .. n -> Grants]
  BY Zenon, <1>1 DEF Grants
<1>3. [granted EXCEPT ![i].ttl = d] \in [1 .. n -> Grants]
  BY Zenon, <1>1 DEF Grants
<1>4. QED
  BY Zenon, <1>2, <1>3, SeqDef

\* A command that goes on to another step keeps what it is about.
LEMMA StepType ==
    ASSUME CallType, NEW t \in Threads, NEW s \in Steps, NEW e \in Entry \cup {None}
    PROVE  /\ [call EXCEPT ![t].step = s] \in [Threads -> Calls]
           /\ [call EXCEPT ![t].step = s, ![t].got = e] \in [Threads -> Calls]
           /\ [call EXCEPT ![t] = NoCall] \in [Threads -> Calls]
<1>1. call \in [Threads -> Calls]
  BY DEF CallType
<1>2. [call[t] EXCEPT !.step = s] \in Calls
  BY <1>1 DEF Calls
<1>3. [[call[t] EXCEPT !.step = s] EXCEPT !.got = e] \in Calls
  BY Zenon, <1>1 DEF Calls
<1>4. NoCall \in Calls
  BY DEF NoCall, Calls, Commands, Steps
<1>5. QED
  BY <1>1, <1>2, <1>3, <1>4

LEMMA StepKeeps ==
    ASSUME CallType, NEW t \in Threads, NEW s, NEW e,
           call' = [call EXCEPT ![t].step = s] \/ call' = [call EXCEPT ![t].step = s, ![t].got = e]
    PROVE  \A u \in Threads :
              /\ call'[u].do = call[u].do /\ call'[u].key = call[u].key
              /\ call'[u].arg = call[u].arg /\ call'[u].token = call[u].token
              /\ u # t => call'[u] = call[u]
<1>1. call \in [Threads -> Calls]
  BY DEF CallType
<1>2. QED
  BY <1>1 DEF Calls

\* Every step keeps the types.
LEMMA CallTypeInit == DInit => CallType
<1> SUFFICES ASSUME DInit PROVE CallType
  OBVIOUS
<1>1. Counts \subseteq Entry
  BY DEF Counts, Entry
<1>2. NoCall \in Calls /\ NoCall.do = "none"
  BY DEF NoCall, Calls, Commands, Steps
<1>3. \A t \in Threads : call[t] = NoCall
  BY DEF DInit
<1>4. granted \in Seq(Grants)
  BY EmptySeq DEF DInit
<1>5. QED
  BY <1>1, <1>2, <1>3, <1>4 DEF DInit, CallType, OnLock, OnCounter

LEMMA ServeType == ASSUME CallType, NEW t \in Threads, Serve(t) PROVE CallType'
<1>0. call[t] \in Calls /\ (\A k \in Names : store[k] \in Entry \cup {None})
  BY DEF CallType
<1>1. CASE Acquire(t)
  BY <1>1 DEF Acquire, dvars, CallType, OnLock, OnCounter
<1>2. CASE Read(t)
  <2>1. PICK s \in Steps, e \in Entry \cup {None} :
            call' = [call EXCEPT ![t].step = s, ![t].got = e]
    <3>1. Live(call[t].key) \in Entry \cup {None}
      <4>1. call[t].key \in Names
        BY <1>0, <1>2, KeysAssumption DEF Read, Guarded, Calls, Commands, CallType, OnLock, OnCounter
      <4>2. QED
        BY <1>0, <4>1 DEF Live
    <3>2. QED
      BY Zenon, <1>2, <3>1 DEF Read, Then, Steps
  <2>2. call' \in [Threads -> Calls]
    BY Zenon, <2>1, StepType
  <2>3. UNCHANGED <<store, now, granted>>
    BY <1>2 DEF Read
  <2>4. QED
    BY Zenon, <2>1, <2>2, <2>3, StepKeeps DEF CallType, OnLock, OnCounter
<1>3. CASE atomicPut(t)
  <2>1. call' = [call EXCEPT ![t].step = "done"] /\ UNCHANGED <<now, granted>>
    BY <1>3 DEF atomicPut
  <2>2. call' \in [Threads -> Calls]
    BY Zenon, <2>1, StepType DEF Steps
  <2>3. store' \in [Names -> Entry \cup {None}]
    BY Zenon, <1>3, UpdatedType DEF atomicPut, CallType, OnCounter
  <2>4. QED
    BY Zenon, <2>1, <2>2, <2>3, StepKeeps DEF CallType, OnLock, OnCounter
<1>4. CASE unlockKey(t)
  <2>1. call' = [call EXCEPT ![t].step = "done"] /\ UNCHANGED now
    BY <1>4 DEF unlockKey
  <2>2. call' \in [Threads -> Calls]
    BY Zenon, <2>1, StepType DEF Steps
  <2>3. store' \in [Names -> Entry \cup {None}]
    BY Zenon, <1>4 DEF unlockKey, CallType
  <2>4. granted' \in Seq(Grants)
    BY Zenon, <1>0, <1>4, GrantChanged DEF unlockKey, Calls
  <2>5. QED
    BY Zenon, <2>1, <2>2, <2>3, <2>4, StepKeeps DEF CallType, OnLock, OnCounter
<1>5. CASE leaseKey(t)
  <2>1. PICK s \in Steps : call' = [call EXCEPT ![t].step = s]
    BY Zenon, <1>5 DEF leaseKey, Steps
  <2>2. call' \in [Threads -> Calls]
    BY Zenon, <2>1, StepType
  <2>3. UNCHANGED <<store, now, granted>>
    BY <1>5 DEF leaseKey
  <2>4. QED
    BY Zenon, <2>1, <2>2, <2>3, StepKeeps DEF CallType, OnLock, OnCounter
<1>6. CASE Expire(t)
  <2>1. call' = [call EXCEPT ![t].step = "done"] /\ UNCHANGED now
    BY <1>6 DEF Expire
  <2>2. call' \in [Threads -> Calls]
    BY Zenon, <2>1, StepType DEF Steps
  <2>3. call[t].key \in Names /\ Deadline(call[t].arg) \in Nat
    BY <1>6, KeysAssumption, DeadlineType DEF Expire, CallType, OnLock
  <2>4. CASE store[call[t].key] = None
    BY Zenon, <1>6, <2>1, <2>2, <2>4, StepKeeps DEF Expire, CallType, OnLock, OnCounter
  <2>5. CASE store[call[t].key] # None
    <3>1. [store[call[t].key] EXCEPT !.ttl = Deadline(call[t].arg)] \in Entry
      BY <1>0, <2>3, <2>5 DEF Entry
    <3>2. store' \in [Names -> Entry \cup {None}]
      BY <1>6, <2>3, <2>5, <3>1 DEF Expire, CallType
    <3>3. granted' \in Seq(Grants)
      <4>1. PICK d \in Nat : granted' = [granted EXCEPT ![call[t].token].ttl = d]
        BY <1>6, <2>3, <2>5 DEF Expire
      <4>2. call[t].token \in Nat
        BY <1>0 DEF Calls
      <4>3. QED
        BY Zenon, <4>1, <4>2, GrantChanged
    <3>4. QED
      BY Zenon, <2>1, <2>2, <3>2, <3>3, StepKeeps DEF CallType, OnLock, OnCounter
  <2>6. QED
    BY <2>4, <2>5
<1>7. CASE Finish(t)
  <2>1. call' = call \/ call' = [call EXCEPT ![t] = NoCall]
    BY <1>7 DEF Finish
  <2>2. call' \in [Threads -> Calls]
    BY Zenon, <2>1, StepType DEF CallType, Steps
  <2>3. \A u \in Threads : call'[u] = call[u] \/ call'[u].do = "none"
    BY <2>1 DEF CallType, NoCall
  <2>4. QED
    BY <1>7, <2>2, <2>3 DEF Finish, CallType, OnLock, OnCounter
<1>8. QED
  BY <1>1, <1>2, <1>3, <1>4, <1>5, <1>6, <1>7 DEF Serve

LEMMA CallTypeStep == CallType /\ [DNext]_allVars => CallType'
<1> SUFFICES ASSUME CallType, [DNext]_allVars PROVE CallType'
  OBVIOUS
<1>0. \A i \in DOMAIN granted : i \in Nat /\ granted[i].key \in LockKeys
  <2>1. granted \in Seq(Grants)
    BY DEF CallType
  <2>2. DOMAIN granted = 1 .. Len(granted) /\ Len(granted) \in Nat
    BY <2>1, LenProperties
  <2>3. \A i \in 1 .. Len(granted) : granted[i] \in Grants
    BY <2>1, ElementOfSeq
  <2>4. QED
    BY <2>2, <2>3 DEF Grants
<1>1. ASSUME NEW t \in Threads, NEW k \in LockKeys, NEW d \in Timeouts, lockCommandHandler(t, k, d)
      PROVE  CallType'
  BY <1>1, TakeType, KeysAssumption, ArgsAssumption DEF lockCommandHandler, Commands
<1>2. ASSUME NEW t \in Threads, NEW i \in DOMAIN granted, unlockCommandHandler(t, i)
      PROVE  CallType'
  BY <1>0, <1>2, TakeType, KeysAssumption DEF unlockCommandHandler, Commands
<1>3. ASSUME NEW t \in Threads, NEW i \in DOMAIN granted, NEW d \in Timeouts,
             lockLeaseCommandHandler(t, i, d)
      PROVE  CallType'
  BY <1>0, <1>3, TakeType, KeysAssumption, ArgsAssumption DEF lockLeaseCommandHandler, Commands
<1>4. ASSUME NEW t \in Threads, NEW k \in CounterKeys, NEW delta \in Deltas, incrDecrCommon(t, k, delta)
      PROVE  CallType'
  BY <1>4, TakeType, KeysAssumption, ArgsAssumption DEF incrDecrCommon, Commands
<1>5. ASSUME NEW t \in Threads, NEW k \in CounterKeys, incrByFloatCommandHandler(t, k, 1)
      PROVE  CallType'
  BY <1>5, TakeType, KeysAssumption DEF incrByFloatCommandHandler, Commands
<1>6. ASSUME NEW t \in Threads, NEW k \in CounterKeys, getPutCommandHandler(t, k, 5)
      PROVE  CallType'
  BY <1>6, TakeType, KeysAssumption DEF getPutCommandHandler, Commands
<1>7. ASSUME NEW t \in Threads, tryLock(t) PROVE CallType'
  <2>1. call[t].key \in LockKeys /\ call[t].key \in Names /\ Deadline(call[t].arg) \in Nat
    BY <1>7, DeadlineType, KeysAssumption DEF tryLock, CallType, OnLock
  <2>2. granted' \in Seq(Grants)
    <3>1. granted' = Append(granted, [key |-> call[t].key, ttl |-> Deadline(call[t].arg), out |-> FALSE])
      BY <1>7 DEF tryLock
    <3>2. QED
      BY <2>1, <3>1, GrantType
  <2>3. store' \in [Names -> Entry \cup {None}]
    <3>1. Len(granted) + 1 \in Int
      BY LenProperties DEF CallType
    <3>2. [val |-> Len(granted) + 1, ttl |-> Deadline(call[t].arg)] \in Entry
      BY <2>1, <3>1 DEF Entry
    <3>3. QED
      BY <1>7, <2>1, <3>2 DEF tryLock, CallType
  <2>4. call' = [call EXCEPT ![t] = NoCall] /\ UNCHANGED now
    BY <1>7 DEF tryLock
  <2>5. call' \in [Threads -> Calls]
    BY Zenon, <2>4, StepType DEF Steps
  <2>6. \A u \in Threads : call'[u] = call[u] \/ call'[u].do = "none"
    BY <2>4 DEF CallType, NoCall
  <2>7. QED
    BY <2>2, <2>3, <2>4, <2>5, <2>6 DEF CallType, OnLock, OnCounter
<1>8. ASSUME NEW t \in Threads, tryLockEnds(t) PROVE CallType'
  <2>1. call' = [call EXCEPT ![t] = NoCall] /\ UNCHANGED <<store, now, granted>>
    BY <1>8 DEF tryLockEnds
  <2>2. call' \in [Threads -> Calls]
    BY Zenon, <2>1, StepType DEF Steps
  <2>3. \A u \in Threads : call'[u] = call[u] \/ call'[u].do = "none"
    BY <2>1 DEF CallType, NoCall
  <2>4. QED
    BY <2>1, <2>2, <2>3 DEF CallType, OnLock, OnCounter
<1>9. CASE Tick
  BY <1>9 DEF Tick, CallType, OnLock, OnCounter
<1>10. ASSUME NEW k \in Names, EvictExpired(k) PROVE CallType'
  BY <1>10 DEF EvictExpired, CallType, OnLock, OnCounter
<1>11. CASE UNCHANGED allVars
  BY <1>11 DEF allVars, dvars, CallType, OnLock, OnCounter
<1>12. QED
  BY <1>1, <1>2, <1>3, <1>4, <1>5, <1>6, <1>7, <1>8, <1>9, <1>10, <1>11, ServeType DEF DNext

LEMMA CallsTyped == DSpec => []CallType
<1>1. QED
  BY CallTypeInit, CallTypeStep, PTL DEF DSpec

-----------------------------------------------------------------------------
\* A step of a command is a step of the locker, or leaves the locker alone.
LEMMA LockerStep == CallType /\ [DNext]_allVars => [Next]_vars
<1> SUFFICES ASSUME CallType, [DNext]_allVars PROVE [Next]_vars
  OBVIOUS
<1>1. ASSUME NEW t \in Threads, Acquire(t) PROVE [Next]_vars
  <2>1. call[t].key \in Names
    BY <1>1, KeysAssumption DEF Acquire, Guarded, Calls, Commands, CallType, OnLock, OnCounter
  <2>2. QED
    BY <1>1, <2>1 DEF Acquire, Next
<1>2. ASSUME NEW t \in Threads, Finish(t) PROVE [Next]_vars
  BY <1>2 DEF Finish, Next
<1>3. ASSUME NEW t \in Threads, Serve(t) PROVE [Next]_vars
  BY <1>1, <1>2, <1>3 DEF Serve, Read, atomicPut, unlockKey, leaseKey, Expire
<1>4. ASSUME NEW t \in Threads, NEW do, NEW k, NEW arg, NEW token, Take(t, do, k, arg, token)
      PROVE  UNCHANGED vars
  BY <1>4 DEF Take
<1>5. CASE UNCHANGED allVars
  BY <1>5 DEF allVars
<1>6. QED
  BY Zenon, <1>3, <1>4, <1>5 DEF DNext, lockCommandHandler, unlockCommandHandler, lockLeaseCommandHandler,
     incrDecrCommon, incrByFloatCommandHandler, getPutCommandHandler, tryLock, tryLockEnds, Tick,
     EvictExpired

\* The commands implement the locker: they call Lock and Unlock as it expects.
THEOREM CommandsUseLocker == DSpec => Spec
<1>1. DInit => Init
  BY DEF DInit
<1>2. QED
  BY <1>1, CallsTyped, LockerStep, PTL DEF DSpec, Spec

\* Two goroutines never serve guarded commands on one key at the same time.
THEOREM CommandsExclude == DSpec => []MutualExclusion
<1>1. QED
  BY CommandsUseLocker, LockerMutualExclusion, PTL

LEMMA CommandsLockerInv == DSpec => []LockerInv
<1>1. QED
  BY CommandsUseLocker, LockerInvariant, PTL

-----------------------------------------------------------------------------
\* A command that is taken, or done with, begins and ends outside the locker.
LEMMA SectionStep ==
    ASSUME CallType, CallType', TypeOK, Section, [DNext]_allVars
    PROVE  Section'
<1> USE DEF Guarded
<1>0. /\ pc \in [Threads -> Sites] /\ name \in [Threads -> Names \cup {None}]
      /\ call \in [Threads -> Calls]
  BY DEF TypeOK, CallType
<1>1. ASSUME NEW t \in Threads, NEW do, NEW k, NEW arg, NEW token, Take(t, do, k, arg, token)
      PROVE  Section'
  <2>1. UNCHANGED <<pc, name>> /\ pc[t] = "idle"
    BY <1>1 DEF Take, Idle, vars
  <2>2. \A u \in Threads : u # t => call'[u] = call[u]
    BY <1>0, <1>1 DEF Take
  <2>3. call'[t].step = "read"
    BY <1>0, <1>1 DEF Take
  <2>4. QED
    BY <2>1, <2>2, <2>3 DEF Section, OnLock
<1>2. ASSUME NEW t \in Threads, call' = [call EXCEPT ![t] = NoCall], UNCHANGED vars,
             pc[t] = "idle"
      PROVE  Section'
  BY <1>0, <1>2 DEF Section, OnLock, NoCall, vars
<1>3. ASSUME NEW t \in Threads, tryLock(t) \/ tryLockEnds(t) PROVE Section'
  <2>1. call' = [call EXCEPT ![t] = NoCall] /\ UNCHANGED vars /\ call[t].do = "lock"
    BY <1>3 DEF tryLock, tryLockEnds
  <2>2. pc[t] = "idle"
    BY <2>1 DEF Section
  <2>3. QED
    BY Zenon, <1>2, <2>1, <2>2
<1>4. ASSUME NEW t \in Threads, Acquire(t) PROVE Section'
  <2>1. UNCHANGED call /\ Guarded(t)
    BY <1>4 DEF Acquire, dvars
  <2>2. CASE call[t].step = "read" /\ \E c \in Counters : LockName(t, call[t].key, c)
    BY <1>0, <2>1, <2>2 DEF LockName, Section, OnLock
  <2>3. CASE AcquireName(t)
    BY <1>0, <2>1, <2>3 DEF AcquireName, Section, OnLock
  <2>4. CASE DecWaiters(t)
    BY <1>0, <2>1, <2>4 DEF DecWaiters, Section, OnLock
  <2>5. QED
    BY <1>4, <2>2, <2>3, <2>4 DEF Acquire
<1>5. ASSUME NEW t \in Threads, Read(t) PROVE Section'
  <2>1. UNCHANGED <<pc, name>> /\ Guarded(t) /\ pc[t] = "critical"
    BY <1>5 DEF Read, vars
  <2>2. PICK s, e : call' = [call EXCEPT ![t].step = s, ![t].got = e]
    BY Zenon, <1>5 DEF Read
  <2>3. \A u \in Threads : call'[u].do = call[u].do /\ call'[u].key = call[u].key
                            /\ (u # t => call'[u] = call[u])
    BY Zenon, <2>2, StepKeeps
  <2>4. call[t].do \in {"unlock", "lease"} /\ call'[t].step \in {"check", "act"}
            => call'[t].got # None
    BY <1>0, <1>5 DEF Read, TokenMatches, Calls, Then
  <2>5. QED
    BY <2>1, <2>3, <2>4 DEF Section, OnLock
<1>6. ASSUME NEW t \in Threads, atomicPut(t) \/ unlockKey(t) \/ Expire(t) PROVE Section'
  <2>1. UNCHANGED <<pc, name>> /\ call' = [call EXCEPT ![t].step = "done"]
    BY <1>6 DEF atomicPut, unlockKey, Expire, vars
  <2>2. call'[t].step = "done"
    BY <1>0, <2>1 DEF Calls
  <2>3. QED
    BY <2>1, <2>2, StepKeeps DEF Section, OnLock
<1>7. ASSUME NEW t \in Threads, leaseKey(t) PROVE Section'
  <2>1. UNCHANGED <<pc, name>> /\ call[t].step = "check" /\ Guarded(t)
    BY <1>7 DEF leaseKey, vars
  <2>2. PICK s : call' = [call EXCEPT ![t].step = s]
    BY Zenon, <1>7 DEF leaseKey
  <2>3. call'[t].got = call[t].got
    BY <1>0, <2>2 DEF Calls
  <2>4. QED
    BY <2>1, <2>2, <2>3, StepKeeps DEF Section, OnLock
<1>8. ASSUME NEW t \in Threads, Finish(t) PROVE Section'
  <2>1. Guarded(t) /\ call' = IF pc'[t] = "idle" THEN [call EXCEPT ![t] = NoCall] ELSE call
    BY <1>8 DEF Finish
  <2>2. CASE call[t].step = "done" /\ UnlockName(t)
    <3>1. \A u \in Threads : u # t => pc'[u] = pc[u] /\ name'[u] = name[u]
      BY <1>0, <2>2 DEF UnlockName
    <3>2. pc'[t] \in {"idle", "unlocking"} /\ (pc'[t] # "idle" => name'[t] = name[t])
      BY <1>0, <2>2 DEF UnlockName
    <3>3. pc[t] = "critical"
      BY <2>2 DEF UnlockName
    <3>4. QED
      BY <1>0, <2>1, <2>2, <3>1, <3>2, <3>3 DEF Section, OnLock, NoCall
  <2>3. CASE ReleaseName(t)
    BY <1>0, <2>1, <2>3 DEF ReleaseName, Section, OnLock, NoCall
  <2>4. QED
    BY <1>8, <2>2, <2>3 DEF Finish
<1>9. CASE Tick \/ (\E k \in Names : EvictExpired(k)) \/ UNCHANGED allVars
  BY <1>9 DEF Tick, EvictExpired, allVars, dvars, vars, Section, OnLock
<1>10. QED
  BY <1>1, <1>3, <1>4, <1>5, <1>6, <1>7, <1>8, <1>9 DEF DNext, Serve, lockCommandHandler,
     unlockCommandHandler, lockLeaseCommandHandler, incrDecrCommon, incrByFloatCommandHandler,
     getPutCommandHandler

\* A step that leaves the command, its key and the clock alone keeps what was read.
LEMMA Untouched ==
    ASSUME NEW u \in Threads, Still(u), call'[u] = call[u], now' = now,
           store'[call[u].key] = store[call[u].key]
    PROVE  Still(u)'
  BY DEF Still, Live, Lapsed

LEMMA KeyInNames == ASSUME CallType, NEW t \in Threads, Between(t) PROVE call[t].key \in Names
  BY KeysAssumption DEF Between, Guarded, Calls, Commands, CallType, OnLock, OnCounter

\* Two commands that are both past their read are on different keys.
LEMMA DifferentKeys ==
    ASSUME MutualExclusion, Section, NEW t \in Threads, NEW u \in Threads, t # u,
           Between(t), Between(u)
    PROVE  call[t].key # call[u].key
  BY DEF MutualExclusion, Section, Between

LEMMA StillReadStep ==
    ASSUME CallType, Section, MutualExclusion, StillRead, [DNext]_allVars
    PROVE  StillRead'
<1>0. /\ store \in [Names -> Entry \cup {None}] /\ now \in Nat
      /\ call \in [Threads -> Calls]
  BY DEF CallType
<1>1. ASSUME NEW t \in Threads, NEW do, NEW k, NEW arg, NEW token, Take(t, do, k, arg, token)
      PROVE  StillRead'
  <2>1. UNCHANGED <<store, now>> /\ call'[t].step = "read"
    BY <1>0, <1>1 DEF Take
  <2>2. \A u \in Threads : u # t => call'[u] = call[u]
    BY <1>0, <1>1 DEF Take
  <2>3. QED
    BY <2>1, <2>2, Untouched DEF StillRead, Between, Guarded
\* A lock is taken on a key that holds none: whoever read one has seen it lapse.
<1>2. ASSUME NEW t \in Threads, tryLock(t) PROVE StillRead'
  <2>1. call' = [call EXCEPT ![t] = NoCall] /\ now' = now /\ call[t].key \in LockKeys
    BY <1>2 DEF tryLock, CallType, OnLock
  <2>2. call'[t].do = "none" /\ (\A u \in Threads : u # t => call'[u] = call[u])
    BY <1>0, <2>1 DEF NoCall
  <2>3. \A k \in Names : k # call[t].key => store'[k] = store[k]
    BY <1>0, <1>2 DEF tryLock
  <2>4. SUFFICES ASSUME NEW u \in Threads, Between(u), u # t PROVE Still(u)'
    BY <2>2 DEF StillRead, Between, Guarded
  <2>5. CASE call[u].key # call[t].key
    BY <2>1, <2>2, <2>3, <2>4, <2>5, KeyInNames, Untouched DEF StillRead
  <2>6. CASE call[u].key = call[t].key
    <3>1. OnLock(u)
      BY <1>0, <2>1, <2>4, <2>6, KeysAssumption
         DEF CallType, OnCounter, OnLock, Between, Guarded, Calls, Commands
    <3>2. call[u].got # None /\ Lapsed(call[u].got.ttl)
      BY <1>2, <2>4, <2>6, <3>1 DEF Section, StillRead, Still, Between, tryLock
    <3>3. QED
      BY <2>1, <2>2, <2>4, <3>2 DEF Still, Lapsed
  <2>7. QED
    BY <2>5, <2>6
<1>3. ASSUME NEW t \in Threads, tryLockEnds(t) \/ Acquire(t) \/ Finish(t) PROVE StillRead'
  <2>1. UNCHANGED <<store, now>>
    BY <1>3 DEF tryLockEnds, Acquire, Finish, dvars
  <2>2. \A u \in Threads : call'[u] = call[u] \/ call'[u].do = "none"
    BY <1>0, <1>3 DEF tryLockEnds, Acquire, Finish, dvars, NoCall
  <2>3. QED
    BY <2>1, <2>2, Untouched DEF StillRead, Between, Guarded
<1>4. ASSUME NEW t \in Threads, Read(t) PROVE StillRead'
  <2>1. UNCHANGED <<store, now>>
    BY <1>4 DEF Read
  <2>2. call'[t].got = Live(call[t].key) /\ call'[t].key = call[t].key
    BY <1>0, <1>4 DEF Read, Calls
  <2>3. \A u \in Threads : u # t => call'[u] = call[u]
    BY <1>0, <1>4 DEF Read
  <2>4. Still(t)'
    BY <2>1, <2>2 DEF Still, Live, Lapsed
  <2>5. QED
    BY <2>1, <2>3, <2>4, Untouched DEF StillRead, Between, Guarded
\* An act changes the key of its own command alone.
<1>5. ASSUME NEW t \in Threads, atomicPut(t) \/ unlockKey(t) \/ Expire(t) PROVE StillRead'
  <2>1. call' = [call EXCEPT ![t].step = "done"] /\ now' = now /\ Between(t)
    BY <1>5 DEF atomicPut, unlockKey, Expire, Acting, Between
  <2>2. call'[t].step = "done" /\ (\A u \in Threads : u # t => call'[u] = call[u])
    BY <1>0, <2>1 DEF Calls
  <2>3. \A k \in Names : k # call[t].key => store'[k] = store[k]
    <3>1. store' = store \/ (\E v : store' = [store EXCEPT ![call[t].key] = v])
      <4>1. CASE atomicPut(t)
        BY Zenon, <4>1 DEF atomicPut
      <4>2. CASE unlockKey(t)
        BY Zenon, <4>2 DEF unlockKey
      <4>3. CASE Expire(t)
        BY <4>3 DEF Expire
      <4>4. QED
        BY <1>5, <4>1, <4>2, <4>3
    <3>2. CASE store' = store
      BY <3>2
    <3>3. ASSUME NEW v, store' = [store EXCEPT ![call[t].key] = v]
          PROVE  \A k \in Names : k # call[t].key => store'[k] = store[k]
      BY <1>0, <3>3
    <3>4. QED
      BY <3>1, <3>2, <3>3
  <2>4. SUFFICES ASSUME NEW u \in Threads, Between(u), u # t PROVE Still(u)'
    BY <2>2 DEF StillRead, Between, Guarded
  <2>5. call[u].key # call[t].key
    BY <2>1, <2>4, DifferentKeys
  <2>6. QED
    BY <2>1, <2>2, <2>3, <2>4, <2>5, KeyInNames, Untouched DEF StillRead
<1>6. ASSUME NEW t \in Threads, leaseKey(t) PROVE StillRead'
  <2>1. UNCHANGED <<store, now>> /\ Between(t)
    BY <1>6 DEF leaseKey, Between
  <2>2. call'[t].key = call[t].key /\ call'[t].got = call[t].got
    BY <1>0, <1>6 DEF leaseKey, Calls
  <2>3. \A u \in Threads : u # t => call'[u] = call[u]
    BY <1>0, <1>6 DEF leaseKey
  <2>4. Still(t)'
    BY <2>1, <2>2 DEF StillRead, Still, Live, Lapsed
  <2>5. QED
    BY <2>1, <2>3, <2>4, Untouched DEF StillRead, Between, Guarded
<1>7. CASE Tick
  <2>1. now' = now + 1 /\ UNCHANGED <<store, call>>
    BY <1>7 DEF Tick
  <2>2. SUFFICES ASSUME NEW u \in Threads, Between(u) PROVE Still(u)'
    BY <2>1 DEF StillRead, Between, Guarded
  <2>3. call[u].key \in Names /\ call[u].got \in Entry \cup {None}
    BY <1>0, <2>2, KeyInNames DEF Calls
  <2>4. \A ttl \in Nat : Lapsed(ttl) => Lapsed(ttl)'
    BY <1>0, <2>1 DEF Lapsed
  <2>5. \/ Live(call[u].key)' = Live(call[u].key)
        \/ /\ Live(call[u].key) # None
           /\ Live(call[u].key).ttl # 0 /\ now + 1 >= Live(call[u].key).ttl
    BY <1>0, <2>1, <2>3 DEF Live, Lapsed, Entry
  <2>6. CASE call[u].got # None /\ Lapsed(call[u].got.ttl)
    BY <2>1, <2>3, <2>4, <2>6 DEF Still, Entry
  <2>7. CASE Live(call[u].key) = call[u].got
    BY <2>1, <2>5, <2>7 DEF Still, Lapsed
  <2>8. QED
    BY <2>2, <2>6, <2>7 DEF StillRead, Still
<1>8. ASSUME NEW k \in Names, EvictExpired(k) PROVE StillRead'
  <2>1. UNCHANGED <<now, call>> /\ (\A j : Live(j)' = Live(j))
    BY <1>0, <1>8 DEF EvictExpired, Live, Lapsed
  <2>2. QED
    BY <2>1 DEF StillRead, Still, Between, Guarded, Lapsed
<1>9. CASE UNCHANGED allVars
  BY <1>9, Untouched DEF allVars, dvars, StillRead, Between, Guarded
<1>10. QED
  BY <1>1, <1>2, <1>3, <1>4, <1>5, <1>6, <1>7, <1>8, <1>9 DEF DNext, Serve, lockCommandHandler,
     unlockCommandHandler, lockLeaseCommandHandler, incrDecrCommon, incrByFloatCommandHandler,
     getPutCommandHandler

\* What the locker keeps, with what the commands keep of it.
CommandInv == CallType /\ LockerInv /\ Section /\ StillRead

LEMMA CommandsInvariant == DSpec => []CommandInv
<1>1. DInit => Section /\ StillRead
  BY DEF DInit, Init, Section, StillRead, Between, Guarded, NoCall
<1>2. CallType /\ CallType' /\ LockerInv /\ MutualExclusion /\ Section /\ StillRead /\ [DNext]_allVars
          => Section' /\ StillRead'
  BY SectionStep, StillReadStep DEF LockerInv
<1>3. QED
  BY <1>1, <1>2, CallsTyped, CommandsLockerInv, CommandsExclude, PTL DEF DSpec, CommandInv

(* Each atomic command, and each Unlock and Lease, acts on the entry it    *)
(* read, or on a key whose entry lapsed since: nobody else wrote the key   *)
(* between its Get and its put, delete or Expire, however many goroutines  *)
(* serve commands on it.                                                   *)
THEOREM ReadModifyWriteHolds == DSpec => ReadModifyWrite
<1>1. CommandInv => \A t \in Threads :
          Acting(t) => \/ Live(call[t].key) = call[t].got
                       \/ call[t].got # None /\ Lapsed(call[t].got.ttl)
  BY DEF CommandInv, StillRead, Still, Between, Acting
<1>2. CommandInv /\ [DNext]_allVars =>
          [\A t \in Threads :
              Acting(t) /\ call'[t].step = "done"
              => \/ Live(call[t].key) = call[t].got
                 \/ call[t].got # None /\ Lapsed(call[t].got.ttl)]_allVars
  BY <1>1
<1>3. QED
  BY <1>2, CommandsInvariant, PTL DEF DSpec, ReadModifyWrite

-----------------------------------------------------------------------------
\* An Unlock or Lease presents a token of its key, and goes on only when the
\* entry it read holds that token.
Presents(t) == call[t].do \in {"unlock", "lease"}
TokenInv ==
    \A t \in Threads : Presents(t) =>
        /\ call[t].token \in DOMAIN granted /\ granted[call[t].token].key = call[t].key
        /\ call[t].step \in {"check", "act"} => call[t].got # None /\ call[t].got.val = call[t].token

\* A token that is good is the one in force on its key, with its timeout.
HolderInv ==
    \A i \in DOMAIN granted :
        Good(i) /\ granted[i].key \notin raced =>
            /\ store[granted[i].key] # None
            /\ store[granted[i].key].val = i /\ store[granted[i].key].ttl = granted[i].ttl

LEMMA GrantedType ==
    ASSUME CallType
    PROVE  /\ Len(granted) \in Nat /\ DOMAIN granted = 1 .. Len(granted)
           /\ \A i \in DOMAIN granted : granted[i] \in Grants /\ granted[i].key \in Names
<1>1. granted \in Seq(Grants)
  BY DEF CallType
<1>2. DOMAIN granted = 1 .. Len(granted) /\ Len(granted) \in Nat
  BY <1>1, LenProperties
<1>3. \A i \in 1 .. Len(granted) : granted[i] \in Grants
  BY <1>1, ElementOfSeq
<1>4. QED
  BY <1>2, <1>3, KeysAssumption DEF Grants

\* Tokens are never taken back: each stays the token of its key.
TokensStay == \A i \in DOMAIN granted : i \in DOMAIN granted' /\ granted'[i].key = granted[i].key

LEMMA TokenAdded ==
    ASSUME CallType, NEW g, granted' = Append(granted, g)
    PROVE  /\ DOMAIN granted' = DOMAIN granted \cup {Len(granted) + 1}
           /\ granted'[Len(granted) + 1] = g
           /\ \A i \in DOMAIN granted : i # Len(granted) + 1 /\ granted'[i] = granted[i]
<1>1. granted \in Seq(Grants)
  BY DEF CallType
<1>2. QED
  BY <1>1, GrantedType

LEMMA TokenChanged ==
    ASSUME CallType, NEW j \in DOMAIN granted, NEW d,
           granted' = [granted EXCEPT ![j].out = d] \/ granted' = [granted EXCEPT ![j].ttl = d]
    PROVE  /\ DOMAIN granted' = DOMAIN granted
           /\ \A i \in DOMAIN granted : granted'[i].key = granted[i].key /\ (i # j => granted'[i] = granted[i])
           /\ granted' = [granted EXCEPT ![j].out = d] => granted'[j].out = d
           /\ granted' = [granted EXCEPT ![j].ttl = d] =>
                granted'[j].ttl = d /\ granted'[j].out = granted[j].out
<1>1. \A i \in DOMAIN granted : granted[i] \in Grants
  BY GrantedType
<1>2. QED
  BY <1>1 DEF Grants

-----------------------------------------------------------------------------
\* The commands keep to the tokens they present.
LEMMA TokenKeeps ==
    ASSUME TokenInv, TokensStay, NEW t,
           \A u \in Threads : u # t => call'[u] = call[u],
           t \in Threads => (Presents(t)' =>
              /\ call'[t].token \in DOMAIN granted' /\ granted'[call'[t].token].key = call'[t].key
              /\ call'[t].step \in {"check", "act"} =>
                    call'[t].got # None /\ call'[t].got.val = call'[t].token)
    PROVE  TokenInv'
  BY DEF TokenInv, TokensStay, Presents

LEMMA TokenTaken ==
    ASSUME CallType, TokenInv, NEW t \in Threads, NEW do, NEW k, NEW arg, NEW token,
           Take(t, do, k, arg, token),
           do \in {"unlock", "lease"} => token \in DOMAIN granted /\ k = granted[token].key
    PROVE  TokenInv'
<1> DEFINE c == [do |-> do, key |-> k, arg |-> arg, token |-> token,
                 step |-> "read", got |-> None]
<1>1. call' = [call EXCEPT ![t] = c] /\ granted' = granted
  BY DEF Take
<1>2. call \in [Threads -> Calls]
  BY DEF CallType
<1>3. c.do = do /\ c.key = k /\ c.token = token /\ c.step = "read"
  OBVIOUS
<1> HIDE DEF c
<1>4. call'[t] = c /\ \A u \in Threads : u # t => call'[u] = call[u]
  BY <1>1, <1>2
<1>5. TokensStay
  BY <1>1 DEF TokensStay
<1>6. QED
  BY <1>1, <1>3, <1>4, <1>5, TokenKeeps DEF Presents

LEMMA TokensStayServed ==
    ASSUME CallType, TokenInv, NEW t \in Threads, Serve(t)
    PROVE  TokensStay
<1>1. CASE unlockKey(t)
  <2>1. call[t].token \in DOMAIN granted
    BY <1>1 DEF unlockKey, TokenInv, Presents
  <2>2. QED
    BY <1>1, <2>1, TokenChanged DEF unlockKey, TokensStay
<1>2. CASE Expire(t)
  <2>1. call[t].token \in DOMAIN granted
    BY <1>2 DEF Expire, TokenInv, Presents
  <2> DEFINE ttl == Deadline(call[t].arg)
  <2>2. granted' = granted \/ granted' = [granted EXCEPT ![call[t].token].ttl = ttl]
    BY <1>2 DEF Expire
  <2> HIDE DEF ttl
  <2>3. QED
    BY <2>1, <2>2, TokenChanged DEF TokensStay
<1>3. CASE UNCHANGED granted
  BY <1>3 DEF TokensStay
<1>4. QED
  BY <1>1, <1>2, <1>3 DEF Serve, Acquire, dvars, Read, atomicPut, leaseKey, Finish

LEMMA TokenServed ==
    ASSUME CallType, Section, TokenInv, NEW t \in Threads, Serve(t)
    PROVE  TokenInv'
<1>0. call \in [Threads -> Calls] /\ TokensStay
  BY TokensStayServed DEF CallType
<1>1. CASE Acquire(t)
  BY <1>0, <1>1, TokenKeeps DEF Acquire, dvars, TokenInv, Presents
<1>2. CASE Read(t)
  <2> DEFINE e == Live(call[t].key)
             stop == \/ Presents(t) /\ ~TokenMatches(t, e)
                     \/ call[t].do = "float" /\ ParseFloatFails(e)
             s == IF stop THEN "done" ELSE Then(call[t].do)
  <2>1. call' = [call EXCEPT ![t].step = s, ![t].got = e] /\ granted' = granted
    BY <1>2 DEF Read, Presents
  <2>2. s \in {"check", "act"} /\ Presents(t) => e # None /\ e.val = call[t].token
    BY DEF Presents, TokenMatches
  <2> HIDE DEF s, e
  <2>3. /\ call'[t].step = s /\ call'[t].got = e
    BY <1>0, <2>1 DEF Calls
  <2>4. \A u \in Threads :
            /\ call'[u].do = call[u].do /\ call'[u].key = call[u].key
            /\ call'[u].token = call[u].token /\ (u # t => call'[u] = call[u])
    BY Zenon, <2>1, StepKeeps
  <2>5. QED
    BY <1>0, <2>1, <2>2, <2>3, <2>4 DEF TokenInv, Presents
<1>3. CASE atomicPut(t) \/ unlockKey(t) \/ Expire(t)
  <2>1. call' = [call EXCEPT ![t].step = "done"]
    BY <1>3 DEF atomicPut, unlockKey, Expire
  <2>2. call'[t].step = "done"
    BY <1>0, <2>1 DEF Calls
  <2>3. \A u \in Threads :
            /\ call'[u].do = call[u].do /\ call'[u].key = call[u].key
            /\ call'[u].token = call[u].token /\ (u # t => call'[u] = call[u])
    BY <2>1, StepKeeps
  <2>4. QED
    BY <1>0, <2>2, <2>3 DEF TokenInv, TokensStay, Presents
<1>4. CASE leaseKey(t)
  <2>1. PICK s : call' = [call EXCEPT ![t].step = s]
    BY Zenon, <1>4 DEF leaseKey
  <2>2. call'[t].got = call[t].got /\ call[t].step = "check" /\ granted' = granted
    BY <1>0, <1>4, <2>1 DEF leaseKey, Calls
  <2>3. \A u \in Threads :
            /\ call'[u].do = call[u].do /\ call'[u].key = call[u].key
            /\ call'[u].token = call[u].token /\ (u # t => call'[u] = call[u])
    BY <2>1, StepKeeps
  <2>4. QED
    BY <1>0, <2>2, <2>3 DEF TokenInv, Presents
<1>5. CASE Finish(t)
  <2>1. call' = call \/ call' = [call EXCEPT ![t] = NoCall]
    BY <1>5 DEF Finish
  <2>2. \A u \in Threads : call'[u] = call[u] \/ call'[u].do = "none"
    BY <1>0, <2>1 DEF NoCall
  <2>3. QED
    BY <1>0, <1>5, <2>2 DEF Finish, TokenInv, TokensStay, Presents
<1>6. QED
  BY <1>1, <1>2, <1>3, <1>4, <1>5 DEF Serve

LEMMA TokenStep == CallType /\ Section /\ TokenInv /\ [DNext]_allVars => TokenInv'
<1> SUFFICES ASSUME CallType, Section, TokenInv, [DNext]_allVars PROVE TokenInv'
  OBVIOUS
<1>0. call \in [Threads -> Calls]
  BY DEF CallType
<1>1. ASSUME NEW t \in Threads, NEW k \in LockKeys, NEW d \in Timeouts, lockCommandHandler(t, k, d)
      PROVE  TokenInv'
  BY <1>1, TokenTaken DEF lockCommandHandler
<1>2. ASSUME NEW t \in Threads, NEW i \in DOMAIN granted, unlockCommandHandler(t, i)
      PROVE  TokenInv'
  BY <1>2, TokenTaken DEF unlockCommandHandler
<1>3. ASSUME NEW t \in Threads, NEW i \in DOMAIN granted, NEW d \in Timeouts,
             lockLeaseCommandHandler(t, i, d)
      PROVE  TokenInv'
  BY <1>3, TokenTaken DEF lockLeaseCommandHandler
<1>4. ASSUME NEW t \in Threads, NEW k \in CounterKeys, NEW delta \in Deltas, incrDecrCommon(t, k, delta)
      PROVE  TokenInv'
  BY <1>4, TokenTaken DEF incrDecrCommon
<1>5. ASSUME NEW t \in Threads, NEW k \in CounterKeys, incrByFloatCommandHandler(t, k, 1)
      PROVE  TokenInv'
  BY <1>5, TokenTaken DEF incrByFloatCommandHandler
<1>6. ASSUME NEW t \in Threads, NEW k \in CounterKeys, getPutCommandHandler(t, k, 5)
      PROVE  TokenInv'
  BY <1>6, TokenTaken DEF getPutCommandHandler
<1>7. ASSUME NEW t \in Threads, tryLock(t) \/ tryLockEnds(t) PROVE TokenInv'
  <2>1. call' = [call EXCEPT ![t] = NoCall]
    BY <1>7 DEF tryLock, tryLockEnds
  <2>2. TokensStay
    BY <1>7, TokenAdded DEF tryLock, tryLockEnds, TokensStay
  <2>3. \A u \in Threads : call'[u] = call[u] \/ call'[u].do = "none"
    BY <1>0, <2>1 DEF NoCall
  <2>4. QED
    BY <2>2, <2>3 DEF TokenInv, TokensStay, Presents
<1>8. CASE Tick \/ (\E k \in Names : EvictExpired(k)) \/ UNCHANGED allVars
  BY <1>8 DEF Tick, EvictExpired, allVars, dvars, TokenInv, Presents
<1>9. QED
  BY <1>1, <1>2, <1>3, <1>4, <1>5, <1>6, <1>7, <1>8, TokenServed DEF DNext

-----------------------------------------------------------------------------
\* A step that changes one key at most keeps the tokens of the others.
LEMMA OtherKeys ==
    ASSUME CallType, HolderInv, NEW k \in Names, NEW i \in DOMAIN granted, granted[i].key # k,
           granted'[i] = granted[i], now' = now, raced \subseteq raced',
           \A j \in Names : j # k => store'[j] = store[j],
           Good(i)', granted'[i].key \notin raced'
    PROVE  /\ store'[granted'[i].key] # None
           /\ store'[granted'[i].key].val = i /\ store'[granted'[i].key].ttl = granted'[i].ttl
<1>1. granted[i].key \in Names
  BY GrantedType
<1>2. Good(i)
  BY DEF Good, Lapsed
<1>3. QED
  BY <1>1, <1>2 DEF HolderInv

LEMMA HolderKeeps ==
    ASSUME HolderInv, UNCHANGED <<store, granted, raced>>, now' = now
    PROVE  HolderInv'
  BY DEF HolderInv, Good, Lapsed

LEMMA HolderLocks ==
    ASSUME CallType, HolderInv, NEW t \in Threads, tryLock(t)
    PROVE  HolderInv'
<1> DEFINE k == call[t].key
           n == Len(granted) + 1
           e == [val |-> n, ttl |-> Deadline(call[t].arg)]
           g == [key |-> k, ttl |-> Deadline(call[t].arg), out |-> FALSE]
<1>1. /\ k \in Names /\ Live(k) = None /\ now' = now /\ raced' = raced
      /\ store' = [store EXCEPT ![k] = e] /\ granted' = Append(granted, g)
  BY KeysAssumption DEF tryLock, CallType, OnLock
<1>2. e.val = n /\ e.ttl = g.ttl /\ g.key = k /\ e # None
  <2>1. e \in [val : Int, ttl : Nat]
    <3>1. n \in Int
      BY GrantedType
    <3>2. call[t].arg \in Nat
      BY DEF tryLock, CallType, OnLock
    <3>3. Deadline(call[t].arg) \in Nat
      BY <3>2, DeadlineType
    <3>4. QED
      BY <3>1, <3>3
  <2>2. QED
    BY <2>1, EntryAssumption
<1> HIDE DEF e, g
<1>3. store'[k] = e /\ \A j \in Names : j # k => store'[j] = store[j]
  BY <1>1 DEF CallType
<1>4. /\ DOMAIN granted' = DOMAIN granted \cup {n} /\ granted'[n] = g
      /\ \A i \in DOMAIN granted : i # n /\ granted'[i] = granted[i]
  BY <1>1, TokenAdded
<1> HIDE DEF n
<1>5. SUFFICES ASSUME NEW i \in DOMAIN granted', Good(i)', granted'[i].key \notin raced'
               PROVE  /\ store'[granted'[i].key] # None
                      /\ store'[granted'[i].key].val = i
                      /\ store'[granted'[i].key].ttl = granted'[i].ttl
  BY DEF HolderInv
<1>6. CASE i = n
  BY <1>2, <1>3, <1>4, <1>6
<1>7. CASE i \in DOMAIN granted /\ granted[i].key = k
  <2>1. Good(i) /\ k \notin raced
    BY <1>1, <1>4, <1>5, <1>7 DEF Good, Lapsed
  <2>2. store[k] # None /\ store[k].ttl = granted[i].ttl
    BY <1>7, <2>1 DEF HolderInv
  <2>3. QED
    BY <1>1, <2>1, <2>2 DEF Live, Good
<1>8. CASE i \in DOMAIN granted /\ granted[i].key # k
  BY <1>1, <1>3, <1>4, <1>5, <1>8, OtherKeys
<1>9. QED
  BY <1>4, <1>6, <1>7, <1>8

\* What an Unlock or Lease acts on is the lock of the token it presents, unless
\* that has lapsed since its check.
LEMMA ActsOnToken ==
    ASSUME CallType, Section, StillRead, TokenInv, NEW t \in Threads, Acting(t), Presents(t), Race(t)
    PROVE  /\ call[t].key \in Names /\ call[t].token \in DOMAIN granted
           /\ granted[call[t].token].key = call[t].key
           /\ \/ call[t].key \in raced' /\ raced' = raced \cup {call[t].key}
              \/ raced' = raced /\ store[call[t].key] # None /\ store[call[t].key].val = call[t].token
<1>1. /\ call[t].token \in DOMAIN granted /\ granted[call[t].token].key = call[t].key
      /\ call[t].got # None /\ call[t].got.val = call[t].token
  BY DEF TokenInv, Acting
<1>2. call[t].key \in Names
  BY <1>1, GrantedType
<1>3. Still(t)
  BY DEF StillRead, Between, Acting
<1>4. QED
  BY <1>1, <1>2, <1>3 DEF Still, Race, Live

LEMMA HolderUnlocks ==
    ASSUME CallType, Section, StillRead, TokenInv, HolderInv, NEW t \in Threads, unlockKey(t)
    PROVE  HolderInv'
<1> DEFINE k == call[t].key
           n == call[t].token
<1>1. /\ Acting(t) /\ Presents(t) /\ Race(t) /\ now' = now
      /\ store' = [store EXCEPT ![k] = None] /\ granted' = [granted EXCEPT ![n].out = TRUE]
  BY DEF unlockKey, Presents
<1>2. /\ k \in Names /\ n \in DOMAIN granted /\ granted[n].key = k
      /\ \/ k \in raced' /\ raced' = raced \cup {k}
         \/ raced' = raced /\ store[k] # None /\ store[k].val = n
  BY <1>1, ActsOnToken
<1> HIDE DEF k, n
<1>3. \A j \in Names : j # k => store'[j] = store[j]
  BY <1>1 DEF CallType
<1>4. /\ DOMAIN granted' = DOMAIN granted /\ granted'[n].out
      /\ \A i \in DOMAIN granted : granted'[i].key = granted[i].key /\ (i # n => granted'[i] = granted[i])
  BY Zenon, <1>1, <1>2, TokenChanged
<1>5. SUFFICES ASSUME NEW i \in DOMAIN granted', Good(i)', granted'[i].key \notin raced'
               PROVE  /\ store'[granted'[i].key] # None
                      /\ store'[granted'[i].key].val = i
                      /\ store'[granted'[i].key].ttl = granted'[i].ttl
  BY DEF HolderInv
<1>6. i \in DOMAIN granted /\ i # n /\ granted'[i] = granted[i]
  BY <1>4, <1>5 DEF Good
<1>7. CASE granted[i].key = k
  <2>1. Good(i) /\ k \notin raced /\ store[k].val = n
    BY <1>1, <1>2, <1>5, <1>6, <1>7 DEF Good, Lapsed
  <2>2. QED
    BY <1>6, <1>7, <2>1 DEF HolderInv
<1>8. CASE granted[i].key # k
  BY <1>1, <1>2, <1>3, <1>5, <1>6, <1>8, OtherKeys
<1>9. QED
  BY <1>7, <1>8

LEMMA HolderLeases ==
    ASSUME CallType, Section, StillRead, TokenInv, HolderInv, NEW t \in Threads, Expire(t)
    PROVE  HolderInv'
<1> DEFINE k == call[t].key
           n == call[t].token
           d == Deadline(call[t].arg)
<1>1. /\ Acting(t) /\ Presents(t) /\ Race(t) /\ now' = now
      /\ \/ store[k] = None /\ UNCHANGED <<store, granted>>
         \/ /\ store[k] # None
            /\ store' = [store EXCEPT ![k].ttl = d] /\ granted' = [granted EXCEPT ![n].ttl = d]
  BY DEF Expire, Presents
<1>2. /\ k \in Names /\ n \in DOMAIN granted /\ granted[n].key = k
      /\ \/ k \in raced' /\ raced' = raced \cup {k}
         \/ raced' = raced /\ store[k] # None /\ store[k].val = n
  BY <1>1, ActsOnToken
<1>3. d \in Nat
  BY <1>1, DeadlineType DEF CallType, OnLock, Presents
<1> HIDE DEF k, n, d
<1>4. CASE store[k] = None
  BY <1>1, <1>2, <1>4 DEF HolderInv, Good, Lapsed
<1>5. CASE store[k] # None
  <2>1. store' = [store EXCEPT ![k].ttl = d] /\ granted' = [granted EXCEPT ![n].ttl = d]
    BY <1>1, <1>5
  <2>2. store[k] \in Entry /\ \A j \in Names : j # k => store'[j] = store[j]
    BY <1>2, <1>5, <2>1 DEF CallType
  <2>3. store'[k] \in Entry /\ store'[k].ttl = d /\ store'[k].val = store[k].val
    BY <1>2, <1>3, <2>1, <2>2 DEF CallType, Entry
  <2>4. /\ DOMAIN granted' = DOMAIN granted /\ granted'[n].ttl = d
        /\ \A i \in DOMAIN granted : granted'[i].key = granted[i].key /\ (i # n => granted'[i] = granted[i])
    BY Zenon, <1>2, <2>1, TokenChanged
  <2>5. SUFFICES ASSUME NEW i \in DOMAIN granted', Good(i)', granted'[i].key \notin raced'
                 PROVE  /\ store'[granted'[i].key] # None
                        /\ store'[granted'[i].key].val = i
                        /\ store'[granted'[i].key].ttl = granted'[i].ttl
    BY DEF HolderInv
  <2>6. CASE i = n
    <3>1. granted'[i].key = k /\ store[k].val = n /\ n \in Int
      BY <1>2, <2>4, <2>5, <2>6, GrantedType
    <3>2. store'[k] # None
      BY <2>3, <3>1, EntryAssumption DEF Entry
    <3>3. QED
      BY <2>3, <2>4, <2>6, <3>1, <3>2
  <2>7. CASE i # n /\ granted[i].key = k
    <3>1. Good(i) /\ k \notin raced /\ store[k].val = n
      BY <1>1, <1>2, <2>4, <2>5, <2>7 DEF Good, Lapsed
    <3>2. QED
      BY <2>4, <2>7, <3>1 DEF HolderInv
  <2>8. CASE i # n /\ granted[i].key # k
    BY <1>1, <1>2, <2>2, <2>4, <2>5, <2>8, OtherKeys
  <2>9. QED
    BY <2>6, <2>7, <2>8
<1>6. QED
  BY <1>4, <1>5

\* The atomic commands write counters, which are no locks.
LEMMA HolderCounts ==
    ASSUME CallType, HolderInv, NEW t \in Threads, atomicPut(t)
    PROVE  HolderInv'
<1> DEFINE k == call[t].key
           e == Updated(t)
<1>1. /\ k \in CounterKeys /\ store' = [store EXCEPT ![k] = e] /\ UNCHANGED <<granted, raced, now>>
  BY DEF atomicPut, CallType, OnCounter
<1> HIDE DEF k, e
<1>2. k \in Names /\ \A j \in Names : j # k => store'[j] = store[j]
  BY <1>1, KeysAssumption DEF CallType
<1>3. \A i \in DOMAIN granted : granted[i].key # k
  BY <1>1, GrantedType, KeysAssumption DEF Grants
<1>4. QED
  BY <1>1, <1>2, <1>3, OtherKeys DEF HolderInv

LEMMA HolderTimes == CallType /\ HolderInv /\ Tick => HolderInv'
<1> SUFFICES ASSUME CallType, HolderInv, Tick PROVE HolderInv'
  OBVIOUS
<1>1. now' = now + 1 /\ now \in Nat /\ UNCHANGED <<store, granted, raced>>
  BY DEF Tick, CallType
<1>2. \A i \in DOMAIN granted : granted[i].ttl \in Nat
  BY GrantedType DEF Grants
<1>3. \A i \in DOMAIN granted : Good(i)' => Good(i)
  BY <1>1, <1>2 DEF Good, Lapsed
<1>4. QED
  BY <1>1, <1>3 DEF HolderInv

LEMMA HolderEvicts == ASSUME CallType, HolderInv, NEW k \in Names, EvictExpired(k) PROVE HolderInv'
<1>1. /\ store[k] # None /\ Lapsed(store[k].ttl) /\ UNCHANGED <<granted, raced, now>>
      /\ \A j \in Names : j # k => store'[j] = store[j]
  BY DEF EvictExpired, CallType
<1>2. \A i \in DOMAIN granted : Good(i)' <=> Good(i)
  BY <1>1 DEF Good, Lapsed
<1>3. \A i \in DOMAIN granted : Good(i) /\ granted[i].key \notin raced => granted[i].key # k
  BY <1>1 DEF HolderInv, Good
<1>4. QED
  BY <1>1, <1>2, <1>3, OtherKeys DEF HolderInv

LEMMA HolderStep == CommandInv /\ TokenInv /\ HolderInv /\ [DNext]_allVars => HolderInv'
<1> SUFFICES ASSUME CommandInv, TokenInv, HolderInv, [DNext]_allVars PROVE HolderInv'
  OBVIOUS
<1>0. CallType /\ Section /\ StillRead
  BY DEF CommandInv
<1>1. ASSUME NEW t \in Threads, NEW do, NEW k, NEW arg, NEW token, Take(t, do, k, arg, token)
      PROVE  HolderInv'
  BY <1>1, HolderKeeps DEF Take
<1>2. ASSUME NEW t \in Threads, tryLockEnds(t) \/ Acquire(t) \/ Read(t) \/ leaseKey(t) \/ Finish(t)
      PROVE  HolderInv'
  BY <1>2, HolderKeeps DEF tryLockEnds, Acquire, dvars, Read, leaseKey, Finish
<1>3. ASSUME NEW t \in Threads, Serve(t) PROVE HolderInv'
  BY <1>0, <1>2, <1>3, HolderUnlocks, HolderLeases, HolderCounts DEF Serve
<1>4. CASE UNCHANGED allVars
  BY <1>4, HolderKeeps DEF allVars, dvars
<1>5. QED
  BY <1>0, <1>1, <1>2, <1>3, <1>4, HolderLocks, HolderTimes, HolderEvicts DEF DNext,
     lockCommandHandler, unlockCommandHandler, lockLeaseCommandHandler, incrDecrCommon,
     incrByFloatCommandHandler, getPutCommandHandler

\* Lock, Unlock and Lease of a DMap: however many goroutines serve them, of the
\* tokens handed out for a key at most one is good at any time, except on a key
\* whose lock lapsed between the check of its token and the delete or Expire.
THEOREM OneHolderHolds == DSpec => []OneHolder
<1>1. DInit => TokenInv /\ HolderInv
  BY DEF DInit, TokenInv, HolderInv, Presents, NoCall
<1>2. CommandInv /\ TokenInv /\ [DNext]_allVars => TokenInv'
  BY TokenStep DEF CommandInv
<1>3. HolderInv => OneHolder
  BY DEF HolderInv, OneHolder
<1>4. QED
  BY <1>1, <1>2, <1>3, HolderStep, CommandsInvariant, PTL DEF DSpec
=============================================================================
