------------------------------ MODULE DMapLock ------------------------------
(***************************************************************************)
(* The commands of a DMap that read a key and then act on what they read:  *)
(* Unlock and Lease of a lock, Incr, Decr, IncrByFloat and GetPut, together *)
(* with Lock, which is a put NX.  The first six run between Lock and       *)
(* Unlock of the member's named locker, under the name of the key: this    *)
(* module composes them with Locker, whose variables and actions it uses.  *)
(*                                                                         *)
(* The member is the owner of the keys.  Get, put and delete are one step  *)
(* each here (DMap opens them up).  Lock does not take the named lock.     *)
(***************************************************************************)
EXTENDS Locker, Sequences

CONSTANTS LockKeys,     \* the names used as locks
          CounterKeys,  \* the names used as counters
          Timeouts,     \* the timeouts of Lock and Lease; 0 is none
          Deltas,       \* what Incr adds; Decr adds its opposite
          MaxNow,       \* bound: the clock
          Budgets       \* bound: the commands served, on locks and on
                        \* counters, and the goroutines that serve them

(* A key is used as a lock or as a counter: Lock does not take the named   *)
(* lock, so that it would come between an Incr of its key and what it read. *)
ASSUME KeysAssumption ==
    LockKeys \cup CounterKeys \subseteq Names /\ LockKeys \cap CounterKeys = {}
ASSUME ArgsAssumption == Timeouts \subseteq Nat /\ Deltas \subseteq Int
ASSUME EntryAssumption == None \notin [val : Int, ttl : Nat]

VARIABLES
    store,    \* the entry of each key, expired or not: None or [val, ttl]
    now,      \* the clock
    call,     \* the command each goroutine serves
    granted,  \* the tokens handed out, in order: [key, ttl, out]
    raced,    \* locks that lapsed between the check of a token and the act
    left      \* commands still to come

dvars == <<store, now, call, granted, raced, left>>
allVars == <<vars, dvars>>

NoCall == [do |-> "none", key |-> None, arg |-> 0, token |-> 0, step |-> "read", got |-> None]

(* What a put may have left in a counter before: a number with a TTL, or a *)
(* value that is no number (None), with a TTL.                             *)
Counts == {[val |-> 1, ttl |-> 1], [val |-> None, ttl |-> 1]}

DInit ==
    /\ Init
    /\ store \in [Names -> {None} \cup Counts]
    /\ \A n \in Names \ CounterKeys : store[n] = None
    /\ now = 0
    /\ call = [t \in Threads |-> NoCall]
    /\ granted = <<>>
    /\ raced = {}
    /\ left \in Budgets

Lapsed(ttl) == ttl # 0 /\ now >= ttl
Deadline(timeout) == IF timeout = 0 THEN 0 ELSE now + timeout

(* What Get returns for the key: the entry if there is one in force.       *)
Live(k) == IF store[k] = None THEN None ELSE IF Lapsed(store[k].ttl) THEN None ELSE store[k]

Idle(t) == t \in left.by /\ pc[t] = "idle" /\ call[t].do = "none"

(* A command arrives: what it does to which key, its timeout, delta or     *)
(* value, and the token it presents.                                       *)
Take(t, do, k, arg, token) ==
    /\ Idle(t)
    /\ call' = [call EXCEPT ![t] = [do |-> do, key |-> k, arg |-> arg, token |-> token,
                                    step |-> "read", got |-> None]]
    /\ LET kind == IF k \in LockKeys THEN "locks" ELSE "counters"
       IN  left[kind] > 0 /\ left' = [left EXCEPT ![kind] = @ - 1]
    /\ UNCHANGED <<vars, store, now, granted, raced>>

lockCommandHandler(t, k, timeout) == Take(t, "lock", k, timeout, 0)

(* Unlock and Lease come with a token that somebody was given; whoever     *)
(* presents it counts as the holder.                                       *)
unlockCommandHandler(t, token) == Take(t, "unlock", granted[token].key, 0, token)

lockLeaseCommandHandler(t, token, timeout) == Take(t, "lease", granted[token].key, timeout, token)

incrDecrCommon(t, k, delta) == Take(t, "incr", k, delta, 0)

incrByFloatCommandHandler(t, k, delta) == Take(t, "float", k, delta, 0)

getPutCommandHandler(t, k, value) == Take(t, "getput", k, value, 0)

-----------------------------------------------------------------------------
(* An attempt of tryLock that succeeds, at once or after any number of     *)
(* attempts that found the key: a put NX of a token never used before.     *)
tryLock(t) ==
    /\ call[t].do = "lock"
    /\ Live(call[t].key) = None
    /\ store' = [store EXCEPT ![call[t].key] =
                    [val |-> Len(granted) + 1, ttl |-> Deadline(call[t].arg)]]
    /\ granted' = Append(granted, [key |-> call[t].key, ttl |-> Deadline(call[t].arg), out |-> FALSE])
    /\ call' = [call EXCEPT ![t] = NoCall]
    /\ UNCHANGED <<vars, now, raced, left>>

(* The deadline passes, or the server goes away, after an attempt that     *)
(* found the key.                                                          *)
tryLockEnds(t) ==
    /\ call[t].do = "lock"
    /\ Live(call[t].key) # None
    /\ call' = [call EXCEPT ![t] = NoCall]
    /\ UNCHANGED <<vars, store, now, granted, raced, left>>

-----------------------------------------------------------------------------
(* A command that runs between locker.Lock and locker.Unlock.              *)
Guarded(t) == call[t].do \notin {"none", "lock"}

(* A plausible slip: an early return forgets the named lock.               *)
FinishForgets(t) ==
    /\ Guarded(t)
    /\ \/ call[t].step = "done" /\ call[t].got # None /\ UnlockName(t)
       \/ ReleaseName(t)
    /\ call' = IF pc'[t] = "idle" THEN [call EXCEPT ![t] = NoCall] ELSE call
    /\ UNCHANGED <<store, now, granted, raced, left>>

(* locker.Lock and locker.Unlock around a command.  The goroutine is done  *)
(* with the command when Unlock has returned.                              *)
Acquire(t) ==
    /\ Guarded(t)
    /\ \/ call[t].step = "read" /\ \E c \in Counters : LockName(t, call[t].key, c)
       \/ AcquireName(t)
       \/ DecWaiters(t)
    /\ UNCHANGED dvars

Finish(t) ==
    /\ Guarded(t)
    /\ \/ call[t].step = "done" /\ UnlockName(t)
       \/ ReleaseName(t)
    /\ call' = IF pc'[t] = "idle" THEN [call EXCEPT ![t] = NoCall] ELSE call
    /\ UNCHANGED <<store, now, granted, raced, left>>

(* A plausible slip: the token is not compared.                            *)
AnyToken(t, entry) == entry # None

(* The check of unlockKey and leaseKey.                                    *)
TokenMatches(t, entry) == entry # None /\ entry.val = call[t].token

(* A value that is no number: IncrByFloat returns the error.               *)
ParseFloatFails(entry) == entry # None /\ entry.val = None

Then(do) == IF do = "lease" THEN "check" ELSE "act"

(* A plausible slip: the key is read while waiting for the named lock.     *)
ReadsEarly(t) ==
    /\ Guarded(t) /\ pc[t] \in {"waiting", "critical"} /\ call[t].step = "read"
    /\ LET entry == Live(call[t].key)
           stop == call[t].do \in {"unlock", "lease"} /\ ~TokenMatches(t, entry)
       IN  call' = [call EXCEPT ![t].step = IF stop THEN "done" ELSE Then(call[t].do), ![t].got = entry]
    /\ UNCHANGED <<vars, store, now, granted, raced, left>>

(* dm.Get inside the command, and the early returns on what it answers.    *)
Read(t) ==
    /\ Guarded(t) /\ pc[t] = "critical" /\ call[t].step = "read"
    /\ LET entry == Live(call[t].key)
           stop == \/ call[t].do \in {"unlock", "lease"} /\ ~TokenMatches(t, entry)
                   \/ call[t].do = "float" /\ ParseFloatFails(entry)
       IN  call' = [call EXCEPT ![t].step = IF stop THEN "done" ELSE Then(call[t].do), ![t].got = entry]
    /\ UNCHANGED <<vars, store, now, granted, raced, left>>

(* loadCurrentAtomicInt: the number read; 0 for no entry and for a value   *)
(* that is no number, whose TTL is dropped with it.                        *)
loadCurrentAtomicInt(t) ==
    IF call[t].got = None \/ call[t].got.val = None THEN [val |-> 0, ttl |-> 0] ELSE call[t].got

(* The entry an atomic command puts.  Incr and Decr carry the TTL over;    *)
(* IncrByFloat and GetPut do not.                                          *)
Updated(t) ==
    LET current == loadCurrentAtomicInt(t)
    IN  [val |-> IF call[t].do = "getput" THEN call[t].arg ELSE current.val + call[t].arg,
         ttl |-> IF call[t].do = "incr" THEN current.ttl ELSE 0]

Acting(t) == Guarded(t) /\ pc[t] = "critical" /\ call[t].step = "act"

(* atomicIncrDecr, atomicIncrByFloat and getPut: the put.                  *)
atomicPut(t) ==
    /\ Acting(t) /\ call[t].do \in {"incr", "float", "getput"}
    /\ store' = [store EXCEPT ![call[t].key] = Updated(t)]
    /\ call' = [call EXCEPT ![t].step = "done"]
    /\ UNCHANGED <<vars, now, granted, raced, left>>

(* The lock whose token was checked has lapsed since: what is acted on may *)
(* be the lock of somebody else.                                           *)
Race(t) ==
    raced' = IF Lapsed(call[t].got.ttl) THEN raced \cup {call[t].key} ELSE raced

(* unlockKey after the check: the delete, of whatever the key holds.       *)
unlockKey(t) ==
    /\ Acting(t) /\ call[t].do = "unlock"
    /\ store' = [store EXCEPT ![call[t].key] = None]
    /\ granted' = [granted EXCEPT ![call[t].token].out = TRUE]
    /\ call' = [call EXCEPT ![t].step = "done"]
    /\ Race(t)
    /\ UNCHANGED <<vars, now, left>>

(* leaseKey after the check of the token: the TTL of the entry that was    *)
(* read is looked at once more,                                            *)
leaseKey(t) ==
    /\ Guarded(t) /\ pc[t] = "critical" /\ call[t].step = "check"
    /\ call' = [call EXCEPT ![t].step = IF Lapsed(call[t].got.ttl) THEN "done" ELSE "act"]
    /\ UNCHANGED <<vars, store, now, granted, raced, left>>

(* then Expire sets the TTL of whatever the key holds, expired or not; it  *)
(* fails on a key that is gone.                                            *)
Expire(t) ==
    /\ Acting(t) /\ call[t].do = "lease"
    /\ LET k == call[t].key
           ttl == Deadline(call[t].arg)
       IN  IF store[k] = None
           THEN UNCHANGED <<store, granted>>
           ELSE /\ store' = [store EXCEPT ![k].ttl = ttl]
                /\ granted' = [granted EXCEPT ![call[t].token].ttl = ttl]
    /\ call' = [call EXCEPT ![t].step = "done"]
    /\ Race(t)
    /\ UNCHANGED <<vars, now, left>>

(* Time passes; the eviction worker deletes an expired key (DMap).         *)
Tick == now < MaxNow /\ now' = now + 1 /\ UNCHANGED <<vars, store, call, granted, raced, left>>

EvictExpired(k) ==
    /\ store[k] # None /\ Lapsed(store[k].ttl)
    /\ store' = [store EXCEPT ![k] = None]
    /\ UNCHANGED <<vars, now, call, granted, raced, left>>

(* The steps of a command between taking and releasing the named lock.     *)
Serve(t) ==
    \/ Acquire(t) \/ Read(t) \/ atomicPut(t) \/ unlockKey(t)
    \/ leaseKey(t) \/ Expire(t) \/ Finish(t)

DNext ==
    \/ \E t \in Threads :
        \/ \E k \in LockKeys, d \in Timeouts : lockCommandHandler(t, k, d)
        \/ \E i \in DOMAIN granted : unlockCommandHandler(t, i)
        \/ \E i \in DOMAIN granted, d \in Timeouts : lockLeaseCommandHandler(t, i, d)
        \/ \E k \in CounterKeys, delta \in Deltas : incrDecrCommon(t, k, delta)
        \/ \E k \in CounterKeys : incrByFloatCommandHandler(t, k, 1)
        \/ \E k \in CounterKeys : getPutCommandHandler(t, k, 5)
        \/ tryLock(t) \/ tryLockEnds(t)
        \/ Serve(t)
    \/ Tick
    \/ \E k \in Names : EvictExpired(k)

DSpec == DInit /\ [][DNext]_allVars
-----------------------------------------------------------------------------
(* A goroutine that serves a command goes on with it, and, as in Locker,   *)
(* gets a mutex that it could take again and again.                        *)
DFairSpec == DSpec /\ \A t \in Threads : SF_allVars(Serve(t))

(* An atomic command acts on the very entry it read: between its Get and   *)
(* its put, delete or Expire no other command of the member changed the    *)
(* key, unless the entry lapsed in between.                                *)
ReadModifyWrite ==
    [][\A t \in Threads :
          Acting(t) /\ call'[t].step = "done"
          => \/ Live(call[t].key) = call[t].got
             \/ call[t].got # None /\ Lapsed(call[t].got.ttl)]_allVars

(* Of the tokens Lock handed out for one key, at most one is good: not     *)
(* given back by Unlock and not past the timeout of its Lock or last       *)
(* Lease.  Excepted are keys whose lock lapsed between the check of the    *)
(* token and the delete or Expire it allowed.                              *)
Good(i) == ~granted[i].out /\ ~Lapsed(granted[i].ttl)

OneHolder ==
    \A i, j \in DOMAIN granted :
        granted[i].key = granted[j].key /\ Good(i) /\ Good(j) /\ i # j
        => granted[i].key \in raced

(* Every command that takes the named lock returns.                        *)
CommandsReturn == \A t \in Threads : Guarded(t) ~> ~Guarded(t)
=============================================================================
