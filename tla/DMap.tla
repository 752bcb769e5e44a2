-------------------------------- MODULE DMap --------------------------------
(***************************************************************************)
(* internal/dmap: the entries of one partition of one DMap, as its primary *)
(* owner serves them.                                                      *)
(*                                                                         *)
(* The owner keeps the entries in its primary fragment, replicates them to *)
(* the backup fragments of the backup owners and, while a previous owner   *)
(* still holds a fragment of its own, reads and deletes there too.  A      *)
(* fragment is created when it is first needed and wiped by the janitor    *)
(* when it is empty; whoever loaded it before keeps a pointer to it.       *)
(*                                                                         *)
(* Every critical section of a fragment lock is one step; the key lock, in *)
(* contrast, is held across the remote calls of a write or a delete, and a *)
(* caller may give up on a call that is still on its way.  The owners are  *)
(* those of one routing table: RoutingTable has the change of tables.      *)
(***************************************************************************)
EXTENDS Integers, FiniteSets, Sequences, Functions

CONSTANTS
    Key,          \* the keys of the partition
    Worker,       \* goroutines of the owner that serve requests or evict
    Owner,        \* the partition's primary owner
    None,
    Deployments,  \* the configurations and routing tables to start from
    MaxFragments, \* bound on the fragments ever created at one place
    MaxFaults     \* bound on remote calls that fail at a live member

(***************************************************************************)
(* A deployment: [backups, prevs : Seq(members), sync : BOOLEAN, wq, rq,   *)
(* limit : Nat, repair, ttl, evict, janitor, move, push, crash, redirect,  *)
(* scan : BOOLEAN, held : SUBSET places, keys : SUBSET Key, asks : SUBSET  *)
(* requests, ops : Nat].  prevs are the previous owners, oldest first; wq  *)
(* and rq are WriteQuorum and ReadQuorum; limit is MaxKeys over the owned  *)
(* partitions, 0 without LRU; ttl tells whether the DMap has a             *)
(* TTLDuration; evict, janitor, move, push, crash, redirect and scan tell  *)
(* what else falls into the modelled period; held are the places that hold *)
(* every key from an earlier time; asks and ops are the requests clients   *)
(* may make and how many.                                                  *)
(***************************************************************************)
VARIABLES
    conf,     \* the deployment
    member,   \* who memberlist lists
    up,       \* who answers
    part,     \* Partition.m: the fragment at each place, 0 for none
    made,     \* the fragments created at each place so far
    data,     \* fragment.storage, of detached fragments too
    inFlight, \* fragment.inFlight
    frozen,   \* fragments whose lock a move holds during its transfer
    keyLock,  \* Service.keys: who holds the lock of each key
    clock,    \* the last timestamp given out
    lapsed,   \* the timestamps of entries whose TTL is over
    proc,     \* what each worker is doing
    net,      \* requests on their way or being served
    left,     \* what is left of the bounds
    must,     \* history: the newest acknowledged write nobody deleted since
    stray,    \* history: timestamps stored into a detached fragment
    broken    \* history: keys whose write or delete failed half-way, or whose
              \* delete looked into a detached fragment

fragVars == <<part, made, data, inFlight, frozen>>
nodeVars == <<conf, member, up>>
timeVars == <<clock, lapsed>>
histVars == <<must, stray, broken>>
vars == <<nodeVars, fragVars, keyLock, timeVars, proc, net, left, histVars>>
-----------------------------------------------------------------------------
Kind == {"primary", "backup"}
Others == UNION {Range(d.backups) \cup Range(d.prevs) : d \in Deployments}

ASSUME WorkerAssumption == IsFiniteSet(Worker) /\ None \notin Worker
ASSUME KeyAssumption == IsFiniteSet(Key)
ASSUME FragmentsAssumption == MaxFragments \in Nat \ {0}
ASSUME OwnerAssumption == Owner \notin Others

Place == ({Owner} \cup Others) \X Kind
Fragment == Place \X (1 .. MaxFragments)
Primary == <<Owner, "primary">>

(* An entry carries the time of its write, the write its value came from   *)
(* (0 is the empty value) and whether it has a TTL.                        *)
Entry == [ts : Nat \ {0}, val : Nat, ttl : BOOLEAN]

ASSUME EntryAssumption == None \notin Entry

(* What is held from an earlier time is with the owner or a previous owner, *)
(* unless read repair is to bring it there.  The deletes on previous owners *)
(* that an LRU eviction makes under the fragment lock are not modelled.     *)
ASSUME DeploymentAssumption ==
    \A d \in Deployments :
        /\ d.backups \in Seq(Range(d.backups)) /\ d.prevs \in Seq(Range(d.prevs))
        /\ d.ttl \in BOOLEAN /\ d.limit \in Nat
        /\ d.held # {} /\ ~d.repair
               => \E m \in {Owner} \cup Range(d.prevs) : <<m, "primary">> \in d.held
        /\ d.backups = <<>> /\ d.limit > 0 => d.prevs = <<>>

(* A request of a client; asks of a deployment are such records.  PutConfig *)
(* has at most one of NX and XX in effect, and the handler builds the same. *)
Request == [do : {"put", "blank", "expire", "delete", "get"},
            cond : {"none", "nx", "xx"}, ttl : BOOLEAN]

isKeyExpired(e) == e.ttl /\ e.ts \in lapsed

Backups == Range(conf.backups)
Prevs == Range(conf.prevs)
Single == conf.backups = <<>>

isMember(m) == m \in member

(* A plausible slip: nobody waits for the lock of a key.                   *)
IgnoresLock(k) == TRUE

(* The lock of a key is free, taken for a whole operation, released.       *)
keyFree(k) == keyLock[k] = None
keyLocked(w, k) == keyLock' = [keyLock EXCEPT ![k] = w]
keyUnlocked(k) == keyLock' = [keyLock EXCEPT ![k] = None]

Has(f) == {k \in Key : data[f][k] # None}
At(p) == <<p, part[p]>>
Held(p, k) == IF part[p] = 0 THEN None ELSE data[At(p)][k]
Empty == [k \in Key |-> None]

Idle == [do |-> "idle", pc |-> "idle", key |-> None, cond |-> "none",
         ttl |-> FALSE, e |-> None, f |-> 0, n |-> 0, succ |-> 0,
         todo |-> {}, err |-> FALSE, hit |-> FALSE, vers |-> <<>>, dkey |-> None, df |-> 0,
         floor |-> 0]

Init ==
    /\ conf \in Deployments
    /\ member = {Owner} \cup Backups \cup Prevs /\ up = member
    /\ part = [p \in Place |-> IF p \in conf.held THEN 1 ELSE 0]
    /\ made = part
    /\ data = [f \in Fragment |->
                  [k \in Key |-> IF f[1] \in conf.held /\ f[2] = 1
                                 THEN [ts |-> 1, val |-> 1, ttl |-> FALSE]
                                 ELSE None]]
    /\ inFlight = [f \in Fragment |-> 0]
    /\ frozen = {}
    /\ keyLock = [k \in Key |-> None]
    /\ clock = 1 /\ lapsed = {}
    /\ proc = [w \in Worker |-> Idle]
    /\ net = {}
    /\ left = [ops |-> conf.ops, faults |-> MaxFaults]
    /\ must = [k \in Key |-> IF conf.held = {} THEN 0 ELSE 1]
    /\ stray = {} /\ broken = {}
-----------------------------------------------------------------------------
(* Fragments.                                                              *)

Loaded(p) == IF part[p] # 0 THEN part[p] ELSE made[p] + 1

loadOrCreateFragment(p) ==
    /\ part' = [part EXCEPT ![p] = Loaded(p)]
    /\ made' = [made EXCEPT ![p] = IF part[p] # 0 THEN @ ELSE @ + 1]
    /\ UNCHANGED <<data, inFlight, frozen>>

(* Storing e under k in fragment f.                                        *)
Stored(f, k, e) == [data EXCEPT ![f][k] = e]
Strayed(f, t) == IF part[f[1]] = f[2] THEN stray ELSE stray \cup {t}

(* The fragment leaves the partition; it stays usable for whoever holds it. *)
wipeOutFragment(p) ==
    /\ part' = [part EXCEPT ![p] = 0]
    /\ UNCHANGED <<made, data, inFlight, frozen>>

(* A plausible slip: the janitor looks at the entries and not at the       *)
(* writes in flight.                                                       *)
WipesUnderWrite(p) ==
    /\ conf.janitor /\ part[p] # 0 /\ made[p] < MaxFragments /\ At(p) \notin frozen
    /\ Has(At(p)) = {}
    /\ wipeOutFragment(p)
    /\ UNCHANGED <<nodeVars, keyLock, timeVars, proc, net, left, histVars>>

janitor(p) ==
    /\ conf.janitor /\ part[p] # 0 /\ made[p] < MaxFragments /\ At(p) \notin frozen
    /\ Has(At(p)) = {} /\ inFlight[At(p)] = 0
    /\ wipeOutFragment(p)
    /\ UNCHANGED <<nodeVars, keyLock, timeVars, proc, net, left, histVars>>
-----------------------------------------------------------------------------
(* Requests between members.                                               *)

(* Whoever waits for r is told whether it succeeded; the sender of a move  *)
(* drops its table when it did, and releases its lock in any case.         *)
Told(r, good) ==
    IF r.waits /\ r.by \in Worker
    THEN [proc EXCEPT ![r.by].todo = @ \ {r.to}, ![r.by].err = @ \/ ~good]
    ELSE proc
Thawed(r) == IF r.waits /\ r.op = "merge" THEN frozen \ {r.src} ELSE frozen
Dropped(r, d) == IF r.waits /\ r.op = "merge" THEN [d EXCEPT ![r.src] = Empty] ELSE d

Message(op, to, kind, key, e, by, waits) ==
    [op |-> op, to |-> to, kind |-> kind, key |-> key, e |-> e, by |-> by,
     waits |-> waits, table |-> None, src |-> None, f |-> 0]

To(r) == <<r.to, r.kind>>

(* A handler finds the fragment first; it takes the lock afterwards.       *)
ServeLoad(r, op) ==
    /\ r \in net /\ r.to \in up /\ r.op = op /\ r.f = 0
    /\ loadOrCreateFragment(To(r))
    /\ net' = (net \ {r}) \cup {[r EXCEPT !.f = Loaded(To(r))]}
    /\ UNCHANGED <<nodeVars, keyLock, timeVars, proc, left, histVars>>

putEntryCommandHandler(r) == ServeLoad(r, "put")
moveFragmentCommandHandler(r) == ServeLoad(r, "merge")

(* The rest of putOnReplicaFragment: the entry is stored as it came.       *)
putOnReplicaFragment(r) ==
    /\ r \in net /\ r.to \in up /\ r.op = "put" /\ r.f # 0
    /\ <<To(r), r.f>> \notin frozen
    /\ data' = Stored(<<To(r), r.f>>, r.key, r.e)
    /\ stray' = Strayed(<<To(r), r.f>>, r.e.ts)
    /\ net' = net \ {r} /\ proc' = Told(r, TRUE)
    /\ UNCHANGED <<nodeVars, part, made, inFlight, frozen, keyLock, timeVars, left, must, broken>>

(* A plausible slip: the incoming entry replaces the current one.          *)
TakesIncoming(current, e) == IF e = None THEN current ELSE e

(* The newer entry stays, the current one on a tie.                        *)
fragmentMergeFunction(current, e) ==
    IF e = None THEN current
    ELSE IF current = None \/ e.ts > current.ts THEN e
    ELSE current

(* The rest of mergeFragments, and what the sender does with the answer.   *)
mergeFragments(r) ==
    /\ r \in net /\ r.to \in up /\ r.op = "merge" /\ r.f # 0
    /\ <<To(r), r.f>> \notin frozen
    /\ data' = Dropped(r, [data EXCEPT ![<<To(r), r.f>>] =
                              [k \in Key |-> fragmentMergeFunction(@[k], r.table[k])]])
    /\ stray' = stray \cup UNION {Strayed(<<To(r), r.f>>, r.table[k].ts) :
                                      k \in {x \in Key : r.table[x] # None}}
    /\ frozen' = Thawed(r)
    /\ net' = net \ {r}
    /\ UNCHANGED <<nodeVars, part, made, inFlight, keyLock, timeVars, proc, left, must, broken>>

(* No fragment, nothing to delete.                                         *)
deleteFromFragment(p, k) ==
    /\ part[p] # 0 => At(p) \notin frozen
    /\ data' = IF part[p] = 0 THEN data ELSE Stored(At(p), k, None)

delEntryCommandHandler(r) ==
    /\ r \in net /\ r.to \in up /\ r.op = "del"
    /\ deleteFromFragment(To(r), r.key)
    /\ net' = net \ {r} /\ proc' = Told(r, TRUE)
    /\ UNCHANGED <<nodeVars, part, made, inFlight, frozen, keyLock, timeVars, left, histVars>>

(* A call fails: its deadline passes while the request is on its way or    *)
(* being served, and the request still arrives or is lost; or the member   *)
(* answers with an error or is down.                                       *)
Fail(r, arrives) ==
    /\ r \in net /\ r.waits
    /\ r.to \in up => left.faults > 0
    /\ r.to \notin up => ~arrives
    /\ left' = IF r.to \in up THEN [left EXCEPT !.faults = @ - 1] ELSE left
    /\ net' = (net \ {r}) \cup (IF arrives THEN {[r EXCEPT !.waits = FALSE]} ELSE {})
    /\ proc' = Told(r, FALSE) /\ frozen' = Thawed(r)
    /\ UNCHANGED <<nodeVars, part, made, data, inFlight, keyLock, timeVars, histVars>>

(* A backup or a previous owner dies; memberlist notices later.            *)
Crash(m) ==
    /\ conf.crash /\ m \in up \cap (Backups \cup Prevs)
    /\ up' = up \ {m}
    /\ part' = [p \in Place |-> IF p[1] = m THEN 0 ELSE part[p]]
    /\ net' = {[r EXCEPT !.waits = @ /\ r.by # m] :
                   r \in {x \in net : x.to # m \/ x.waits}}
    /\ UNCHANGED <<conf, member, made, data, inFlight, frozen, keyLock, timeVars, proc,
                   left, histVars>>

Notice(m) ==
    /\ m \in member \ up
    /\ member' = member \ {m}
    /\ UNCHANGED <<conf, up, fragVars, keyLock, timeVars, proc, net, left, histVars>>

(* moveTable on a previous owner: the table goes to the owner, under the   *)
(* lock of the fragment it leaves.                                         *)
moveTable(m) ==
    /\ conf.move /\ m \in Prevs \cap up
    /\ LET src == <<m, "primary">> IN
       /\ part[src] # 0 /\ At(src) \notin frozen /\ Has(At(src)) # {}
       /\ frozen' = frozen \cup {At(src)}
       /\ net' = net \cup {[Message("merge", Owner, "primary", None, None, m, TRUE)
                               EXCEPT !.table = data[At(src)], !.src = At(src)]}
    /\ UNCHANGED <<nodeVars, part, made, data, inFlight, keyLock, timeVars, proc, left, histVars>>

(* Replicate on the owner: the table is encoded under the fragment lock    *)
(* and sent to a backup owner with the lock released.                      *)
Replicate(m) ==
    /\ conf.push /\ m \in Backups \cap member
    /\ part[Primary] # 0 /\ Has(At(Primary)) # {}
    /\ ~ \E r \in net : r.op = "merge"
    /\ net' = net \cup {[Message("merge", m, "backup", None, None, Owner, FALSE)
                            EXCEPT !.table = data[At(Primary)]]}
    /\ UNCHANGED <<nodeVars, fragVars, keyLock, timeVars, proc, left, histVars>>

(* The TTL of an entry passes.                                             *)
Lapse(t) ==
    /\ t \notin lapsed
    /\ \E p \in Place, k \in Key : Held(p, k) # None /\ Held(p, k).ttl /\ Held(p, k).ts = t
    /\ lapsed' = lapsed \cup {t}
    /\ UNCHANGED <<nodeVars, fragVars, keyLock, clock, proc, net, left, histVars>>
-----------------------------------------------------------------------------
(* Writes.                                                                 *)

Become(w, rec) == proc' = [proc EXCEPT ![w] = rec]
Go(w, pc) == Become(w, [proc[w] EXCEPT !.pc = pc])
Busy(w, pc) == proc[w].pc = pc

(* What put of another member sends to the owner.  The command has no      *)
(* form for OnlyUpdateTTL and its timeout: what arrives is a plain write   *)
(* of the empty value.                                                     *)
writePutCommand(r) ==
    IF r.do = "expire" THEN [do |-> "blank", cond |-> "none", ttl |-> FALSE] ELSE r

Serves(w, pc, r, k) ==
    /\ Busy(w, "idle") /\ left.ops > 0 /\ k \in conf.keys
    /\ Become(w, [Idle EXCEPT !.do = r.do, !.pc = pc, !.key = k, !.cond = r.cond,
                              !.ttl = r.ttl, !.dkey = k, !.floor = must[k]])
    /\ left' = [left EXCEPT !.ops = @ - 1]
    /\ UNCHANGED <<nodeVars, fragVars, keyLock, timeVars, net, histVars>>

(* A request of a client reaches the owner.                                *)
putCommandHandler(w, r, k) == r \in conf.asks /\ r.do = "put" /\ Serves(w, "load", r, k)
expireCommandHandler(w, r, k) == r \in conf.asks /\ r.do = "expire" /\ Serves(w, "load", r, k)
delCommandHandler(w, r, k) == r \in conf.asks /\ r.do = "delete" /\ Serves(w, "dload", r, k)
getCommandHandler(w, r, k) == r \in conf.asks /\ r.do = "get" /\ Serves(w, "look", r, k)

(* put on another member: the owner gets what writePutCommand makes of it. *)
Redirect(w, r, k) ==
    /\ conf.redirect /\ r \in conf.asks /\ r.do \in {"put", "expire"}
    /\ Serves(w, "load", writePutCommand(r), k)

PutLoad(w) ==
    /\ Busy(w, "load")
    /\ loadOrCreateFragment(Primary)
    /\ Become(w, [proc[w] EXCEPT !.f = Loaded(Primary),
                                 !.pc = IF Single THEN "write" ELSE "room"])
    /\ UNCHANGED <<nodeVars, keyLock, timeVars, net, left, histVars>>

FragmentOf(w) == <<Primary, proc[w].f>>
Current(w) == data[FragmentOf(w)][proc[w].key]

(* NX wants no live entry, XX an entry, expired or not.                    *)
checkPutConditions(w) ==
    CASE proc[w].cond = "nx" -> Current(w) = None \/ isKeyExpired(Current(w))
      [] proc[w].cond = "xx" -> Current(w) # None
      [] OTHER -> TRUE

(* The TTL of the request, or else the TTLDuration of the DMap.            *)
prepareTTL(w) == proc[w].ttl \/ conf.ttl

(* The entry to store, stamped with the next timestamp; an update of the   *)
(* TTL carries the value of the current entry.                             *)
prepareEntry(w, current) ==
    [ts |-> clock + 1,
     val |-> CASE proc[w].do = "expire" -> current.val
               [] proc[w].do = "blank" -> 0
               [] OTHER -> clock + 1,
     ttl |-> prepareTTL(w)]

(* What takes the place of the current entry: an update of the TTL keeps   *)
(* the value that is there, and stores nothing where there is none.        *)
putEntryOnFragment(w, current, e) ==
    IF proc[w].do # "expire" THEN e
    ELSE IF current = None THEN None
    ELSE [e EXCEPT !.val = current.val]

(* An update of the TTL needs an entry to read.                            *)
Updatable(w, current) == proc[w].do = "expire" => current # None

(* A plausible slip: the fragment may reach one key more than its share.   *)
OverByOne(f) == conf.limit > 0 /\ Has(f) # {} /\ Cardinality(Has(f)) > conf.limit

lruOverLimit(f) == conf.limit > 0 /\ Has(f) # {} /\ Cardinality(Has(f)) >= conf.limit

(* The victim is the least recently used of a random sample: any key.      *)
lruVictim(f) == Has(f)

Acked(k, t) == must' = [must EXCEPT ![k] = t]

(* putOnCluster without replicas: one critical section of the fragment     *)
(* lock, eviction included.                                                *)
PutSingle(w) ==
    /\ Busy(w, "write")
    /\ LET f == FragmentOf(w)
           k == proc[w].key
       IN  IF ~checkPutConditions(w)
           THEN UNCHANGED <<data, clock, histVars>>
           ELSE \E victims \in IF lruOverLimit(f) THEN {{v} : v \in lruVictim(f)} ELSE {{}} :
                  LET kept == [x \in Key |-> IF x \in victims THEN None ELSE data[f][x]]
                      stores == Updatable(w, kept[k])
                      e == prepareEntry(w, kept[k])
                  IN  /\ data' = [data EXCEPT ![f] = IF stores THEN [kept EXCEPT ![k] = e]
                                                               ELSE kept]
                      /\ clock' = clock + 1
                      /\ must' = [x \in Key |-> IF x = k /\ stores THEN clock + 1
                                                ELSE IF x \in victims THEN 0 ELSE must[x]]
                      /\ stray' = IF stores THEN Strayed(f, clock + 1) ELSE stray
                      /\ UNCHANGED broken
    /\ Become(w, Idle)
    /\ UNCHANGED <<nodeVars, part, made, inFlight, frozen, keyLock, lapsed, net, left>>

(* A plausible slip: room is made under the lock of the key to write.      *)
EvictsUnderLock(w) ==
    /\ Busy(w, "room") /\ keyFree(proc[w].key)
    /\ LET f == FragmentOf(w) IN
       IF lruOverLimit(f)
       THEN /\ \E v \in lruVictim(f) : Become(w, [proc[w] EXCEPT !.dkey = v, !.pc = "dload"])
            /\ keyLocked(w, proc[w].key)
       ELSE Go(w, "lock") /\ UNCHANGED keyLock
    /\ UNCHANGED <<nodeVars, fragVars, timeVars, net, left, histVars>>

(* The victim is chosen under the fragment lock and deleted afterwards.    *)
evictForWrite(w) ==
    /\ Busy(w, "room")
    /\ LET f == FragmentOf(w) IN
       IF lruOverLimit(f)
       THEN \E v \in lruVictim(f) : Become(w, [proc[w] EXCEPT !.dkey = v, !.pc = "dload"])
       ELSE Go(w, "lock")
    /\ UNCHANGED <<nodeVars, fragVars, keyLock, timeVars, net, left, histVars>>

(* The key lock is taken, the write stamped, checked and counted.          *)
prepareWrite(w) ==
    /\ Busy(w, "lock") /\ keyFree(proc[w].key)
    /\ IF checkPutConditions(w) /\ Updatable(w, Current(w))
       THEN /\ clock' = clock + 1
            /\ inFlight' = [inFlight EXCEPT ![FragmentOf(w)] = @ + 1]
            /\ keyLocked(w, proc[w].key)
            /\ Become(w, [proc[w] EXCEPT !.e = prepareEntry(w, Current(w)), !.n = 1,
                                         !.pc = IF conf.sync THEN "send" ELSE "store"])
       ELSE Become(w, Idle) /\ UNCHANGED <<clock, inFlight, keyLock>>
    /\ UNCHANGED <<nodeVars, part, made, data, frozen, lapsed, net, left, histVars>>

(* syncPutOnCluster asks the backups one by one, past those that left.  A  *)
(* backup is counted when it is asked: an error ends the write.            *)
PutSend(w) ==
    /\ Busy(w, "send") /\ proc[w].todo = {} /\ ~proc[w].err
    /\ proc[w].n <= Len(conf.backups)
    /\ LET backup == conf.backups[proc[w].n] IN
       IF isMember(backup)
       THEN /\ net' = net \cup {Message("put", backup, "backup", proc[w].key, proc[w].e, w, TRUE)}
            /\ Become(w, [proc[w] EXCEPT !.n = @ + 1, !.todo = {backup}, !.succ = @ + 1])
       ELSE /\ Become(w, [proc[w] EXCEPT !.n = @ + 1])
            /\ UNCHANGED net
    /\ UNCHANGED <<nodeVars, fragVars, keyLock, timeVars, left, histVars>>

Release(w, k) ==
    /\ inFlight' = [inFlight EXCEPT ![FragmentOf(w)] = @ - 1]
    /\ keyUnlocked(k)

(* A backup that does not take the entry ends the write, before the local  *)
(* store.                                                                  *)
PutAbort(w) ==
    /\ Busy(w, "send") /\ proc[w].todo = {} /\ proc[w].err
    /\ Release(w, proc[w].key)
    /\ broken' = broken \cup {proc[w].key}
    /\ Become(w, Idle)
    /\ UNCHANGED <<nodeVars, part, made, data, frozen, timeVars, net, left, must, stray>>

(* A plausible slip: a replica that is not asked counts as one that        *)
(* answered.                                                               *)
CountsSkipped(w) == Len(conf.backups) + 1 >= conf.wq

QuorumReached(w) ==
    LET stored == putEntryOnFragment(w, Current(w), proc[w].e) # None
    IN  proc[w].succ + (IF stored THEN 1 ELSE 0) >= conf.wq

(* The local store of syncPutOnCluster and its verdict: without a quorum   *)
(* the caller gets an error, and the entry stays where it was stored.      *)
PutSync(w) ==
    /\ Busy(w, "send") /\ proc[w].todo = {} /\ ~proc[w].err
    /\ proc[w].n > Len(conf.backups)
    /\ LET k == proc[w].key
           e == putEntryOnFragment(w, Current(w), proc[w].e)
       IN  /\ data' = Stored(FragmentOf(w), k, e)
           /\ stray' = Strayed(FragmentOf(w), proc[w].e.ts)
           /\ must' = IF QuorumReached(w) THEN [must EXCEPT ![k] = proc[w].e.ts] ELSE must
           /\ broken' = IF QuorumReached(w) THEN broken ELSE broken \cup {k}
           /\ Release(w, k)
    /\ Become(w, Idle)
    /\ UNCHANGED <<nodeVars, part, made, frozen, timeVars, net, left>>

(* asyncPutOnCluster: the local store, then a request to every backup that *)
(* nobody waits for.                                                       *)
PutAsync(w) ==
    /\ Busy(w, "store")
    /\ LET k == proc[w].key
           e == putEntryOnFragment(w, Current(w), proc[w].e)
       IN  /\ data' = Stored(FragmentOf(w), k, e)
           /\ stray' = Strayed(FragmentOf(w), proc[w].e.ts)
           /\ IF e = None THEN UNCHANGED <<must, net>>
              ELSE /\ Acked(k, e.ts)
                   /\ net' = net \cup {Message("put", b, "backup", k, proc[w].e, w, FALSE) :
                                          b \in Backups \cap member}
           /\ Release(w, k)
    /\ Become(w, Idle)
    /\ UNCHANGED <<nodeVars, part, made, frozen, timeVars, left, broken>>

Put(w) ==
    \/ PutLoad(w) \/ PutSingle(w) \/ evictForWrite(w) \/ prepareWrite(w)
    \/ PutSend(w) \/ PutAbort(w) \/ PutSync(w) \/ PutAsync(w)
-----------------------------------------------------------------------------
(* Deletes, of a client, for a write that needs room, or of an entry that  *)
(* expired.                                                                *)

DelLoad(w) ==
    /\ Busy(w, "dload")
    /\ loadOrCreateFragment(Primary)
    /\ Become(w, [proc[w] EXCEPT !.df = Loaded(Primary), !.pc = "dlock"])
    /\ UNCHANGED <<nodeVars, keyLock, timeVars, net, left, histVars>>

Victim(w) == data[<<Primary, proc[w].df>>][proc[w].dkey]

(* From here on the delete of k, from fragment f, may take effect.         *)
Doomed(k, f) ==
    /\ must' = [must EXCEPT ![k] = 0]
    /\ broken' = IF part[Primary] = f THEN broken ELSE broken \cup {k}
    /\ UNCHANGED stray
Unfloored(w, k) ==
    [x \in Worker |-> IF x # w /\ proc[x].key = k THEN [proc[x] EXCEPT !.floor = 0] ELSE proc[x]]

(* A plausible slip: a key the owner does not hold is deleted already.     *)
StopsAtMiss(w) == IF Victim(w) # None THEN "dprev" ELSE "dwait"

(* Whether or not the owner holds the key, the other copies are deleted.   *)
AfterCheck(w) == "dprev"

(* deleteKey takes the key lock and looks whether the key is here.         *)
DelLock(w) ==
    /\ Busy(w, "dlock") /\ keyFree(proc[w].dkey)
    /\ keyLocked(w, proc[w].dkey)
    /\ proc' = [Unfloored(w, proc[w].dkey) EXCEPT
                   ![w].hit = Victim(w) # None, ![w].n = Len(conf.prevs), ![w].pc = AfterCheck(w)]
    /\ Doomed(proc[w].dkey, proc[w].df)
    /\ UNCHANGED <<nodeVars, fragVars, timeVars, net, left>>

(* scanFragmentForEviction samples the fragment for an expired entry.      *)
EvictSample(w, k) ==
    /\ Busy(w, "idle") /\ conf.evict /\ left.ops > 0
    /\ Held(Primary, k) # None /\ isKeyExpired(Held(Primary, k))
    /\ Become(w, [Idle EXCEPT !.do = "evict", !.dkey = k, !.df = part[Primary], !.pc = "elock"])
    /\ left' = [left EXCEPT !.ops = @ - 1]
    /\ UNCHANGED <<nodeVars, fragVars, keyLock, timeVars, net, histVars>>

(* deleteExpiredKey checks the expiry again under the key lock.            *)
EvictLock(w) ==
    /\ Busy(w, "elock") /\ keyFree(proc[w].dkey)
    /\ IF Victim(w) # None /\ isKeyExpired(Victim(w))
       THEN /\ keyLocked(w, proc[w].dkey)
            /\ proc' = [Unfloored(w, proc[w].dkey) EXCEPT
                           ![w].hit = TRUE, ![w].n = Len(conf.prevs), ![w].pc = "dprev"]
            /\ Doomed(proc[w].dkey, proc[w].df)
       ELSE Become(w, Idle) /\ UNCHANGED <<keyLock, histVars>>
    /\ UNCHANGED <<nodeVars, fragVars, timeVars, net, left>>

(* deleteFromPreviousOwners: the latest first, and one that left is an     *)
(* error, as its copy could come back.                                     *)
deleteFromPreviousOwners(w) ==
    /\ Busy(w, "dprev") /\ proc[w].todo = {} /\ ~proc[w].err
    /\ IF proc[w].n = 0
       THEN Go(w, "dback") /\ UNCHANGED net
       ELSE LET m == conf.prevs[proc[w].n] IN
            IF isMember(m)
            THEN /\ net' = net \cup {Message("del", m, "primary", proc[w].dkey, None, w, TRUE)}
                 /\ Become(w, [proc[w] EXCEPT !.n = @ - 1, !.todo = {m}])
            ELSE Become(w, [proc[w] EXCEPT !.err = TRUE]) /\ UNCHANGED net
    /\ UNCHANGED <<nodeVars, fragVars, keyLock, timeVars, left, histVars>>

(* deleteBackupOnCluster: all backups at once, or none when one has left.  *)
deleteBackupOnCluster(w) ==
    /\ Busy(w, "dback")
    /\ IF Backups \subseteq member
       THEN /\ net' = net \cup {Message("del", b, "backup", proc[w].dkey, None, w, TRUE) :
                                   b \in Backups}
            /\ Become(w, [proc[w] EXCEPT !.todo = Backups, !.pc = "dwait"])
       ELSE /\ Become(w, [proc[w] EXCEPT !.err = TRUE, !.pc = "dwait"])
            /\ UNCHANGED net
    /\ UNCHANGED <<nodeVars, fragVars, keyLock, timeVars, left, histVars>>

(* The remote copies are gone, or one of them could not be deleted: only   *)
(* in the first case the owner's copy goes too.  A write that needed room  *)
(* goes on.                                                                *)
DelFinish(w) ==
    /\ proc[w].todo = {} /\ (Busy(w, "dwait") \/ (Busy(w, "dprev") /\ proc[w].err))
    /\ LET k == proc[w].dkey
           done == ~proc[w].err /\ proc[w].hit
       IN  /\ data' = IF done THEN Stored(<<Primary, proc[w].df>>, k, None) ELSE data
           /\ keyUnlocked(k)
           /\ broken' = IF proc[w].err THEN broken \cup {k} ELSE broken
           /\ must' = IF proc[w].do = "evict" THEN must ELSE [must EXCEPT ![k] = 0]
    /\ IF proc[w].do \in {"put", "blank", "expire"} /\ ~proc[w].err
       THEN Go(w, "lock")
       ELSE Become(w, Idle)
    /\ UNCHANGED <<nodeVars, part, made, inFlight, frozen, timeVars, net, left, stray>>

Delete(w) ==
    \/ DelLoad(w) \/ DelLock(w) \/ EvictLock(w)
    \/ deleteFromPreviousOwners(w) \/ deleteBackupOnCluster(w) \/ DelFinish(w)
-----------------------------------------------------------------------------
(* Reads.                                                                  *)

Version(h, e) == [host |-> h, e |-> e]

(* A plausible slip: a read does not ask the previous owners.              *)
NoOwners == {}

LiveOwners == Prevs \cap member

(* lookupOnThisNode, expired or not; then the previous owners are asked.   *)
lookupOnThisNode(w) ==
    /\ Busy(w, "look")
    /\ Become(w, [proc[w] EXCEPT !.vers = <<Version(Owner, Held(Primary, proc[w].key))>>,
                                 !.todo = LiveOwners, !.pc = "owners"])
    /\ UNCHANGED <<nodeVars, fragVars, keyLock, timeVars, net, left, histVars>>

(* getEntryCommandHandler on a previous owner or a backup.  No entry, an   *)
(* expired one and a failed call all come back as an error, and count for  *)
(* nothing.                                                                *)
getOnFragment(w, h, fails) ==
    /\ proc[w].pc \in {"owners", "replicas"} /\ h \in proc[w].todo
    /\ fails => (h \notin up \/ left.faults > 0)
    /\ h \notin up => fails
    /\ LET at == <<h, IF Busy(w, "owners") THEN "primary" ELSE "backup">>
           e == Held(at, proc[w].key)
       IN  /\ part[at] # 0 => At(at) \notin frozen
           /\ Become(w, [proc[w] EXCEPT !.todo = @ \ {h}, !.err = @ \/ fails,
                                        !.vers = IF fails \/ e = None \/ (e # None /\ isKeyExpired(e))
                                                 THEN @ ELSE Append(@, Version(h, e))])
    /\ left' = IF fails /\ h \in up THEN [left EXCEPT !.faults = @ - 1] ELSE left
    /\ UNCHANGED <<nodeVars, fragVars, keyLock, timeVars, net, histVars>>

(* lookupOnReplicas, once every previous owner has answered.               *)
lookupOnReplicas(w) ==
    /\ Busy(w, "owners") /\ proc[w].todo = {}
    /\ Become(w, [proc[w] EXCEPT !.todo = Backups \cap member, !.pc = "replicas"])
    /\ UNCHANGED <<nodeVars, fragVars, keyLock, timeVars, net, left, histVars>>


(* sanitizeAndSortVersions: the newest entry, the first of several.        *)
Sane(vers) == {i \in DOMAIN vers : vers[i].e # None}
Found(vers) == Cardinality(Sane(vers))
sortVersions(vers) ==
    LET newest == {i \in Sane(vers) : \A j \in Sane(vers) : vers[j].e.ts <= vers[i].e.ts}
    IN  vers[CHOOSE i \in newest : \A j \in newest : i <= j]

Stale(vers, winner) ==
    {v.host : v \in {x \in Range(vers) : x.e = None \/ (x.e # None /\ x.e.ts # winner.e.ts)}}

Fails(w) == Len(proc[w].vers) < conf.rq \/ Found(proc[w].vers) \in 1 .. conf.rq - 1
Misses(w) ==
    /\ ~Fails(w)
    /\ Sane(proc[w].vers) = {} \/ isKeyExpired(sortVersions(proc[w].vers).e)

(* getOnCluster decides, and repairs the copies that differ: a PUTENTRY to *)
(* every other holder, a store of its own.                                 *)
getOnCluster(w) ==
    /\ Busy(w, "replicas") /\ proc[w].todo = {}
    /\ LET vers == proc[w].vers
           winner == sortVersions(vers)
           stale == Stale(vers, winner)
       IN  IF Fails(w) \/ Misses(w) \/ ~conf.repair
           THEN Become(w, Idle) /\ UNCHANGED net
           ELSE /\ net' = net \cup {Message("put", h, "backup", proc[w].key, winner.e, w, TRUE) :
                                       h \in stale \ {Owner}}
                /\ Become(w, [proc[w] EXCEPT !.e = winner.e, !.todo = stale, !.pc = "repair"])
    /\ UNCHANGED <<nodeVars, fragVars, keyLock, timeVars, left, histVars>>

RepairLoad(w) ==
    /\ Busy(w, "repair") /\ Owner \in proc[w].todo /\ proc[w].f = 0
    /\ loadOrCreateFragment(Primary)
    /\ Become(w, [proc[w] EXCEPT !.f = Loaded(Primary)])
    /\ UNCHANGED <<nodeVars, keyLock, timeVars, net, left, histVars>>

RepairStore(w) ==
    /\ Busy(w, "repair") /\ Owner \in proc[w].todo /\ proc[w].f # 0
    /\ data' = Stored(FragmentOf(w), proc[w].key, proc[w].e)
    /\ stray' = Strayed(FragmentOf(w), proc[w].e.ts)
    /\ Become(w, [proc[w] EXCEPT !.todo = @ \ {Owner}])
    /\ UNCHANGED <<nodeVars, part, made, inFlight, frozen, keyLock, timeVars, net, left,
                   must, broken>>

GetReturn(w) ==
    /\ Busy(w, "repair") /\ proc[w].todo = {}
    /\ Become(w, Idle)
    /\ UNCHANGED <<nodeVars, fragVars, keyLock, timeVars, net, left, histVars>>

Get(w) ==
    \/ lookupOnThisNode(w) \/ lookupOnReplicas(w) \/ getOnCluster(w)
    \/ RepairLoad(w) \/ RepairStore(w) \/ GetReturn(w)
    \/ \E h \in Others, fails \in BOOLEAN : getOnFragment(w, h, fails)
-----------------------------------------------------------------------------
Serve(r) ==
    \/ putEntryCommandHandler(r) \/ putOnReplicaFragment(r)
    \/ moveFragmentCommandHandler(r) \/ mergeFragments(r)
    \/ delEntryCommandHandler(r)

Next ==
    \/ \E w \in Worker :
          \/ Put(w) \/ Delete(w) \/ Get(w)
          \/ \E k \in Key : EvictSample(w, k)
          \/ \E r \in Request, k \in Key :
                \/ putCommandHandler(w, r, k) \/ expireCommandHandler(w, r, k)
                \/ delCommandHandler(w, r, k) \/ getCommandHandler(w, r, k)
                \/ Redirect(w, r, k)
    \/ \E r \in net : Serve(r) \/ \E arrives \in BOOLEAN : Fail(r, arrives)
    \/ \E m \in Others : Crash(m) \/ Notice(m) \/ moveTable(m) \/ Replicate(m)
    \/ \E p \in Place : janitor(p)
    \/ \E t \in 1 .. clock : Lapse(t)

Spec == Init /\ [][Next]_vars

(* A goroutine that can go on does, and a request somebody waits for is    *)
(* served or fails: every remote call runs under a deadline.               *)
Fairness ==
    /\ \A w \in Worker : WF_vars(Put(w) \/ Delete(w) \/ Get(w))
    /\ WF_vars(\E r \in net : r.waits /\ (Serve(r) \/ \E arrives \in BOOLEAN : Fail(r, arrives)))

FairSpec == Spec /\ Fairness
-----------------------------------------------------------------------------
(* The janitor never takes the fragment away from under a write that is    *)
(* between its preparation and its store, the empty fragment it is about   *)
(* to land in included: it counts the writes in flight.                    *)
InFlightKeepsFragment ==
    [][\A w \in Worker :
          proc[w].pc \in {"send", "store"} /\ part[Primary] = proc[w].f
              => part'[Primary] = proc[w].f]_vars

(* An acknowledged write, or a newer one, is with the owner or with the    *)
(* previous owner it has not been moved from, until a delete or an         *)
(* eviction of the key begins, whatever merges and late requests arrive;   *)
(* except one stored into a fragment the janitor had detached after it was *)
(* loaded, and while no previous owner has died with its copy.  Left out   *)
(* are read repair, which stores without comparing, and the eviction of    *)
(* expired entries without replicas: there a write takes no key lock, and  *)
(* can come between the check of the expiry and the delete.                *)
AckedKept ==
    \A k \in Key :
        (must[k] > 0 /\ must[k] \notin stray /\ Prevs \subseteq up
                /\ ~conf.repair /\ ~(Single /\ conf.evict))
            => \E m \in {Owner} \cup Prevs :
                  LET e == Held(<<m, "primary">>, k) IN e # None /\ e.ts >= must[k]

(* What a member holds, or held when it died.                              *)
Copy(p, k) == IF made[p] = 0 THEN None ELSE data[<<p, made[p]>>][k]
Copies == {Primary} \cup (Backups \X {"backup"})

(* The whole key is under control: no write or delete of it failed         *)
(* half-way, and nothing of it went into a detached fragment.              *)
Sound(k) == k \notin broken /\ stray = {}

(* A synchronous write that is acknowledged is on WriteQuorum members: a   *)
(* backup that was skipped because it left does not count.                 *)
QuorumHeld ==
    [][\A k \in Key :
          conf.sync /\ must'[k] > must[k] /\ Sound(k)'
              => Cardinality({p \in Copies : LET e == Copy(p, k)' IN
                                 e # None /\ e.ts >= must'[k]}) >= conf.wq]_vars

(* With synchronous replication every live backup holds what the owner     *)
(* holds whenever no operation of the key is under way: the key lock       *)
(* orders the writes, the deletes and the evictions of a key on all its    *)
(* copies.                                                                 *)
ReplicasFollow ==
    \A k \in Key :
        conf.sync /\ conf.prevs = <<>> /\ ~conf.repair /\ ~conf.push /\ Sound(k)
                /\ keyLock[k] = None
            => \A m \in Backups \cap up : Held(<<m, "backup">>, k) = Held(Primary, k)

(* A read whose calls all succeed returns no older entry than the newest   *)
(* write that was acknowledged before it, while the previous owner still   *)
(* holds it, while it is being moved and after, if no delete of the key    *)
(* began since.                                                            *)
ReadsAcked ==
    \A w \in Worker :
        Busy(w, "replicas") /\ proc[w].todo = {} /\ ~proc[w].err
                /\ proc[w].floor > 0 /\ proc[w].floor \notin stray /\ ~Fails(w)
            => /\ Sane(proc[w].vers) # {}
               /\ sortVersions(proc[w].vers).e.ts >= proc[w].floor

(* A delete that succeeds leaves no copy with the owner, a previous owner  *)
(* or a backup, also where the owner itself had none.                      *)
DeleteRemovesAll ==
    [][\A w \in Worker, k \in Key :
          proc[w].do = "delete" /\ proc[w].dkey = k
                  /\ Busy(w, "dwait") /\ ~proc[w].err /\ Busy(w, "idle")'
                  /\ conf.sync /\ ~Single /\ ~conf.move /\ ~conf.push /\ ~conf.repair /\ Sound(k)
              => \A p \in Place : Held(p, k)' = None]_vars

(* A conditional write does not replace a live entry: what it checked      *)
(* under the key lock is still so when it stores.                          *)
NXKeepsLive ==
    [][\A w \in Worker :
          proc[w].cond = "nx" /\ Busy(w, "send") /\ must' # must
                  /\ Busy(w, "idle")' /\ conf.prevs = <<>> /\ ~conf.repair
              => Current(w) = None \/ isKeyExpired(Current(w))]_vars

(* Without replicas a fragment that started within its share of MaxKeys    *)
(* never exceeds it: room is made under the lock of the write.             *)
LimitHeld ==
    Single /\ conf.limit > 0 /\ Primary \notin conf.held /\ part[Primary] # 0
        => Cardinality(Has(At(Primary))) <= conf.limit

(* Every operation ends: a write that evicts, a delete and an eviction     *)
(* never wait for a key lock that waits for them, and no call is waited    *)
(* for beyond its deadline.                                                *)
OperationsEnd == \A w \in Worker : ~Busy(w, "idle") ~> Busy(w, "idle")
-----------------------------------------------------------------------------
(* "Expire updates the expiry for the given key": it leaves the value.     *)
ExpireKeepsValue ==
    \A p \in Place, k \in Key : Held(p, k) # None => Held(p, k).val # 0
=============================================================================
