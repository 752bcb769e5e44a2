--------------------------- MODULE DMapKeyProofs ---------------------------
(***************************************************************************)
(* The lock of a key on the owner, for any number of workers, keys,        *)
(* deployments, fragments and faults: those that change an entry take      *)
(* turns, across all their remote calls.                                   *)
(***************************************************************************)
EXTENDS DMap, TLAPS

Fields == {"do", "pc", "key", "cond", "ttl", "e", "f", "n", "succ", "todo", "err", "hit",
           "vers", "dkey", "df", "floor"}
Storing == {"send", "store"}

\* Whoever is at one of these steps has loaded the fragment it writes to; so has
\* a write that deletes another key to make room.
Loads(r) ==
    \/ r.pc \in {"write", "room", "lock"} \cup Storing
    \/ r.do \in {"put", "blank", "expire"} /\ r.pc \in {"dload", "dlock", "elock", "dprev", "dback", "dwait"}
Rec(r) == DOMAIN r = Fields /\ (Loads(r) => r.f \in 1 .. MaxFragments)
ProcOK == DOMAIN proc = Worker /\ \A w \in Worker : Rec(proc[w])

\* The owner's fragments are numbered, and there is a number left for the next.
PartOK ==
    /\ DOMAIN part = Place /\ DOMAIN made = Place
    /\ part[Primary] \in 0 .. MaxFragments /\ made[Primary] \in 0 .. MaxFragments
    /\ part[Primary] = 0 => made[Primary] < MaxFragments

\* The writes of a fragment that are between their preparation and their store.
Counted(f) == {w \in Worker : proc[w].pc \in Storing /\ proc[w].f = f}
CountOK ==
    /\ DOMAIN inFlight = Fragment
    /\ \A f \in 1 .. MaxFragments : inFlight[<<Primary, f>>] = Cardinality(Counted(f))

WriteInv == ProcOK /\ PartOK /\ CountOK

-----------------------------------------------------------------------------
LEMMA PrimaryPlace == Primary \in Place /\ \A f \in 1 .. MaxFragments : <<Primary, f>> \in Fragment
  BY DEF Primary, Place, Kind, Fragment

LEMMA IdleRec == Rec(Idle) /\ Idle.pc \notin Storing
  BY DEF Rec, Idle, Fields, Loads, Storing

\* The fragment of the owner, once there, stays.
KeepsPart == part[Primary] # 0 => part'[Primary] = part[Primary]

\* The janitor detaches the fragment of the owner only when it is empty and no
\* write is counted.
Unguarded ==
    /\ Has(At(Primary)) = {}
    /\ \A w \in Worker : proc[w].pc \in Storing => proc[w].f # part[Primary]

Writing == {"put", "blank", "expire"}
Deleting == {"dprev", "dback", "dwait"}
Deletes == {"dload", "dlock", "elock"} \cup Deleting
Reading == {"owners", "replicas", "repair"}

\* A worker: what its place in the code says about its request.
Asks(r) ==
    /\ r.ttl \in BOOLEAN
    /\ r.do \in Writing \/ r.pc \in {"load", "write", "room", "lock", "look"} \cup Reading \cup Storing
           => r.key \in Key
    /\ r.pc \in Deletes => r.dkey \in Key
    /\ r.pc = "write" => Single
    /\ r.pc \in {"room", "lock"} \cup Storing \/ (r.do \in Writing /\ r.pc \in Deletes) => ~Single
    /\ r.do = "evict" => conf.evict
    /\ r.pc = "repair" => conf.repair
    /\ r.pc = "dprev" => r.n \in 0 .. Len(conf.prevs)
    /\ r.pc = "send" => r.n \in 1 .. Len(conf.backups) + 1

MsgFields == {"op", "to", "kind", "key", "e", "by", "waits", "table", "src", "f"}

\* A request: puts go to backups, tables to the owner or to backups.
Sent(r) ==
    /\ DOMAIN r = MsgFields
    /\ r.waits \in BOOLEAN
    /\ r.op = "put" => r.kind = "backup"
    /\ r.op = "del" => r.key \in Key /\ r.to \in Others
    /\ r.op = "merge" =>
          \/ r.kind = "backup" /\ ~r.waits
          \/ /\ r.kind = "primary" /\ r.to = Owner /\ r.by \in Prevs
             /\ r.src = <<<<r.by, "primary">>, 1>>

\* The timestamp of a write that is under way.
Stamped(e) == DOMAIN e = {"ts", "val", "ttl"} /\ e.ts \in Nat /\ 1 < e.ts /\ e.ts <= clock

BaseInv ==
    /\ WriteInv
    /\ conf \in Deployments
    /\ clock \in Nat \ {0}
    /\ must \in [Key -> Nat] /\ \A k \in Key : must[k] <= clock
    /\ \A w \in Worker : proc[w].pc \in Storing => Stamped(proc[w].e)
    /\ keyLock \in [Key -> Worker \cup {None}]
    /\ \A w \in Worker : Asks(proc[w])
    /\ \A r \in net : Sent(r)
    /\ \A m \in Others : part[<<m, "primary">>] \in {0, 1}

\* Whoever writes or deletes a key has its lock.
LockInv ==
    \A w \in Worker : /\ proc[w].pc \in Storing => keyLock[proc[w].key] = w
                      /\ proc[w].pc \in Deleting => keyLock[proc[w].dkey] = w

-----------------------------------------------------------------------------
(* Whose turn it is.                                                       *)

\* The record of a worker as others leave it.
Alike(r, s) ==
    /\ DOMAIN s = Fields /\ s.todo \subseteq r.todo
    /\ s.do = r.do /\ s.pc = r.pc /\ s.key = r.key /\ s.cond = r.cond /\ s.ttl = r.ttl
    /\ s.e = r.e /\ s.f = r.f /\ s.n = r.n /\ s.succ = r.succ /\ s.hit = r.hit
    /\ s.vers = r.vers /\ s.dkey = r.dkey /\ s.df = r.df

\* A worker gets into the section of a key lock or into a read, or goes on in it.
Entered(x) ==
    /\ proc'[x].pc \in Storing =>
          \/ prepareWrite(x)
          \/ /\ proc[x].pc \in Storing
             /\ proc'[x].do = proc[x].do /\ proc'[x].key = proc[x].key /\ proc'[x].e = proc[x].e
             /\ proc'[x].cond = proc[x].cond /\ proc'[x].f = proc[x].f
    /\ proc'[x].pc \in Deleting =>
          \/ DelLock(x) \/ EvictLock(x)
          \/ /\ proc[x].pc \in Deleting
             /\ proc'[x].do = proc[x].do /\ proc'[x].dkey = proc[x].dkey
             /\ proc'[x].df = proc[x].df /\ proc'[x].hit = proc[x].hit
    /\ proc'[x].pc \in Reading =>
          \/ Get(x)
          \/ /\ proc'[x].pc = proc[x].pc /\ proc'[x].vers = proc[x].vers
             /\ proc'[x].todo \subseteq proc[x].todo

Requested(w, r, k) ==
    \/ putCommandHandler(w, r, k) \/ expireCommandHandler(w, r, k)
    \/ delCommandHandler(w, r, k) \/ getCommandHandler(w, r, k)
    \/ Redirect(w, r, k)
Turn(w) ==
    \/ Put(w) \/ Delete(w) \/ Get(w)
    \/ \E k \in Key : EvictSample(w, k)
    \/ \E r \in Request, k \in Key : Requested(w, r, k)

LEMMA IdleAsks == Asks(Idle) /\ DOMAIN Idle = Fields /\ Idle.pc \notin Storing \cup Deleting \cup Reading
  BY DEF Asks, Idle, Fields, Writing, Storing, Deleting, Reading, Deletes

LEMMA AlikeAsks == ASSUME NEW r, NEW s, Alike(r, s), Asks(r) PROVE Asks(s)
  BY DEF Asks, Alike

LEMMA AlikeEntered == ASSUME NEW x, Alike(proc[x], proc'[x]) PROVE Entered(x)
  BY DEF Alike, Entered

\* What becomes of the worker that has its turn.
Fine(w) == Asks(proc'[w]) /\ Entered(w) /\ \A x \in Worker \ {w} : Alike(proc[x], proc'[x])

LEMMA SelfAlike == ASSUME NEW x, Rec(proc[x]) PROVE Alike(proc[x], proc[x])
  BY DEF Alike, Rec

LEMMA Becomes ==
    ASSUME ProcOK, NEW w \in Worker, NEW rec, Become(w, rec)
    PROVE  proc'[w] = rec /\ \A x \in Worker \ {w} : Alike(proc[x], proc'[x])
  BY SelfAlike DEF ProcOK, Become

\* The worker ends its request.
LEMMA Ends == ASSUME ProcOK, NEW w \in Worker, Become(w, Idle) PROVE Fine(w) /\ proc'[w] = Idle
<1>1. proc'[w] = Idle /\ \A x \in Worker \ {w} : Alike(proc[x], proc'[x])
  BY Becomes
<1>2. QED
  BY <1>1, IdleAsks DEF Fine, Entered

\* It goes on outside the two sections.
LEMMA Walks ==
    ASSUME ProcOK, NEW w \in Worker, NEW rec, Become(w, rec), Asks(rec),
           rec.pc \notin Storing \cup Deleting, rec.pc \in Reading => Get(w)
    PROVE  Fine(w) /\ proc'[w] = rec
<1>1. proc'[w] = rec /\ \A x \in Worker \ {w} : Alike(proc[x], proc'[x])
  BY Becomes
<1>2. QED
  BY <1>1 DEF Fine, Entered

LEMMA RequestFine ==
    ASSUME ProcOK, conf \in Deployments, NEW w \in Worker, NEW r \in Request, NEW k \in Key,
           Requested(w, r, k)
    PROVE  Fine(w)
<1>1. ASSUME NEW pc, NEW q \in Request, Serves(w, pc, q, k),
             pc \in {"load", "look", "dload"}, pc = "dload" => q.do = "delete"
      PROVE  Fine(w)
  <2> DEFINE rec == [Idle EXCEPT !.do = q.do, !.pc = pc, !.key = k, !.cond = q.cond,
                                !.ttl = q.ttl, !.dkey = k, !.floor = must[k]]
  <2>1. Asks(rec) /\ rec.pc \notin Storing \cup Deleting \cup Reading
    BY <1>1 DEF Asks, Idle, Storing, Deletes, Deleting, Reading, Writing, Request
  <2>2. Become(w, rec)
    BY <1>1 DEF Serves
  <2> HIDE DEF rec
  <2>3. QED
    BY <2>1, <2>2, Walks
<1>2. writePutCommand(r) \in Request
  BY DEF writePutCommand, Request
<1>3. QED
  BY <1>1, <1>2 DEF Requested, putCommandHandler, expireCommandHandler, delCommandHandler,
                    getCommandHandler, Redirect

LEMMA SampleFine ==
    ASSUME ProcOK, NEW w \in Worker, NEW k \in Key, EvictSample(w, k)
    PROVE  Fine(w)
<1> DEFINE rec == [Idle EXCEPT !.do = "evict", !.dkey = k, !.df = part[Primary], !.pc = "elock"]
<1>1. Asks(rec) /\ rec.pc \notin Storing \cup Deleting \cup Reading
  BY DEF EvictSample, Asks, Idle, Storing, Deletes, Deleting, Reading, Writing
<1>2. Become(w, rec)
  BY DEF EvictSample
<1> HIDE DEF rec
<1>3. QED
  BY <1>1, <1>2, Walks

\* It goes on within one of the sections.
LEMMA Stores ==
    ASSUME ProcOK, NEW w \in Worker, NEW rec, Become(w, rec), Asks(rec), rec.pc \in Storing,
           \/ prepareWrite(w)
           \/ /\ proc[w].pc \in Storing /\ rec.do = proc[w].do /\ rec.key = proc[w].key
              /\ rec.e = proc[w].e /\ rec.cond = proc[w].cond /\ rec.f = proc[w].f
    PROVE  Fine(w) /\ proc'[w] = rec
<1>1. proc'[w] = rec /\ \A x \in Worker \ {w} : Alike(proc[x], proc'[x])
  BY Becomes
<1>2. rec.pc \notin Deleting \cup Reading
  BY DEF Storing, Deleting, Reading
<1>3. QED
  BY <1>1, <1>2 DEF Fine, Entered

LEMMA Goes ==
    ASSUME ProcOK, NEW w \in Worker, NEW rec, Become(w, rec), Asks(rec), rec.pc \in Deleting,
           /\ proc[w].pc \in Deleting /\ rec.do = proc[w].do /\ rec.dkey = proc[w].dkey
           /\ rec.df = proc[w].df /\ rec.hit = proc[w].hit
    PROVE  Fine(w) /\ proc'[w] = rec
<1>1. proc'[w] = rec /\ \A x \in Worker \ {w} : Alike(proc[x], proc'[x])
  BY Becomes
<1>2. rec.pc \notin Storing \cup Reading
  BY DEF Storing, Deleting, Reading
<1>3. QED
  BY <1>1, <1>2 DEF Fine, Entered

LEMMA Sequences ==
    ASSUME conf \in Deployments
    PROVE  /\ Len(conf.backups) \in Nat /\ \A i \in 1 .. Len(conf.backups) : conf.backups[i] \in Backups
           /\ Len(conf.prevs) \in Nat /\ \A i \in 1 .. Len(conf.prevs) : conf.prevs[i] \in Prevs
           /\ Backups \subseteq Others /\ Prevs \subseteq Others
<1>1. conf.backups \in Seq(Backups) /\ conf.prevs \in Seq(Prevs)
  BY DeploymentAssumption DEF Backups, Prevs
<1>2. Backups \subseteq Others /\ Prevs \subseteq Others
  BY DEF Backups, Prevs, Others
<1>3. QED
  BY <1>1, <1>2

LEMMA PutFine ==
    ASSUME ProcOK, conf \in Deployments, NEW w \in Worker, Asks(proc[w]), Put(w)
    PROVE  Fine(w)
<1>0. Rec(proc[w])
  BY DEF ProcOK
<1>1. CASE PutLoad(w)
  <2> DEFINE rec == [proc[w] EXCEPT !.f = Loaded(Primary), !.pc = IF Single THEN "write" ELSE "room"]
  <2>1. Asks(rec) /\ rec.pc \notin Storing \cup Deleting \cup Reading
    BY <1>0, <1>1 DEF PutLoad, Busy, Rec, Fields, Asks, Storing, Deleting, Reading, Deletes, Writing
  <2>2. Become(w, rec)
    BY <1>1 DEF PutLoad
  <2> HIDE DEF rec
  <2>3. QED
    BY <2>1, <2>2, Walks
<1>2. CASE PutSingle(w)
  BY <1>2, Ends DEF PutSingle
<1>3. CASE evictForWrite(w)
  <2>1. ASSUME NEW rec, Become(w, rec),
               \/ rec = [proc[w] EXCEPT !.pc = "lock"]
               \/ \E v \in Key : rec = [proc[w] EXCEPT !.dkey = v, !.pc = "dload"]
        PROVE  Fine(w)
    <3>0. proc[w].pc = "room"
      BY Zenon, <1>3 DEF evictForWrite, Busy
    <3>1. CASE rec = [proc[w] EXCEPT !.pc = "lock"]
      <4>1. Asks(rec) /\ rec.pc \notin Storing \cup Deleting \cup Reading
        BY <1>0, <3>0, <3>1 DEF Rec, Fields, Asks, Storing, Deleting, Reading, Deletes, Writing
      <4>2. QED
        BY Zenon, <2>1, <4>1, Walks
    <3>2. ASSUME NEW v \in Key, rec = [proc[w] EXCEPT !.dkey = v, !.pc = "dload"] PROVE Fine(w)
      <4>1. Asks(rec) /\ rec.pc \notin Storing \cup Deleting \cup Reading
        BY <1>0, <3>0, <3>2 DEF Rec, Fields, Asks, Storing, Deleting, Reading, Deletes, Writing
      <4>2. QED
        BY Zenon, <2>1, <4>1, Walks
    <3>3. QED
      BY Zenon, <2>1, <3>1, <3>2
  <2>2. QED
    BY Zenon, <1>3, <2>1 DEF evictForWrite, Go, lruVictim, Has
<1>4. CASE prepareWrite(w)
  <2>1. CASE Become(w, Idle)
    BY <2>1, Ends
  <2>2. CASE checkPutConditions(w) /\ Updatable(w, Current(w))
    <3> DEFINE rec == [proc[w] EXCEPT !.e = prepareEntry(w, Current(w)), !.n = 1,
                                      !.pc = IF conf.sync THEN "send" ELSE "store"]
    <3>1. Asks(rec) /\ rec.pc \in Storing
      BY <1>0, <1>4, Sequences DEF prepareWrite, Busy, Rec, Fields, Asks, Storing, Deleting, Reading, Deletes, Writing
    <3>2. Become(w, rec)
      BY <1>4, <2>2 DEF prepareWrite
    <3> HIDE DEF rec
    <3>3. QED
      BY <1>4, <3>1, <3>2, Stores
  <2>3. QED
    BY <1>4, <2>1, <2>2 DEF prepareWrite
<1>5. CASE PutSend(w)
  <2>1. ASSUME NEW rec, Become(w, rec),
               \/ rec = [proc[w] EXCEPT !.n = @ + 1]
               \/ \E t : rec = [proc[w] EXCEPT !.n = @ + 1, !.todo = t, !.succ = @ + 1]
        PROVE  Fine(w)
    <3>1. /\ rec.pc = proc[w].pc /\ rec.do = proc[w].do /\ rec.key = proc[w].key
          /\ rec.e = proc[w].e /\ rec.cond = proc[w].cond /\ rec.f = proc[w].f
          /\ rec.ttl = proc[w].ttl /\ rec.dkey = proc[w].dkey /\ rec.n = proc[w].n + 1
      BY Zenon, <1>0, <2>1 DEF Rec, Fields
    <3>2. Asks(rec)
      <4>1. proc[w].n <= Len(conf.backups) /\ proc[w].pc = "send"
        BY <1>5 DEF PutSend, Busy
      <4>2. rec.n \in 1 .. Len(conf.backups) + 1
        BY <3>1, <4>1, Sequences DEF Asks
      <4>3. QED
        BY <3>1, <4>1, <4>2 DEF Asks
    <3>3. proc[w].pc \in Storing
      BY <1>5 DEF PutSend, Busy, Storing
    <3>4. QED
      BY Zenon, <2>1, <3>1, <3>2, <3>3, Stores
  <2>2. QED
    BY Zenon, <1>5, <2>1 DEF PutSend
<1>6. CASE PutAbort(w) \/ PutSync(w) \/ PutAsync(w)
  BY Zenon, <1>6, Ends DEF PutAbort, PutSync, PutAsync
<1>7. QED
  BY <1>1, <1>2, <1>3, <1>4, <1>5, <1>6 DEF Put

LEMMA DelLockFine ==
    ASSUME ProcOK, conf \in Deployments, NEW w \in Worker, Asks(proc[w]), DelLock(w) \/ EvictLock(w),
           proc[w].pc \in {"dlock", "elock"},
           NEW hit, proc' = [Unfloored(w, proc[w].dkey) EXCEPT
                                ![w].hit = hit, ![w].n = Len(conf.prevs), ![w].pc = "dprev"]
    PROVE  Fine(w) /\ proc'[w] = [proc[w] EXCEPT !.hit = hit, !.n = Len(conf.prevs), !.pc = "dprev"]
<1>0. Rec(proc[w])
  BY DEF ProcOK
<1> DEFINE rec == [proc[w] EXCEPT !.hit = hit, !.n = Len(conf.prevs), !.pc = "dprev"]
<1>1. proc'[w] = rec
  BY DEF Unfloored
<1>2. Asks(rec) /\ rec.pc = "dprev"
  BY <1>0, Sequences DEF Rec, Fields, Asks, Storing, Deleting, Reading, Deletes, Writing
<1>3. ASSUME NEW x \in Worker \ {w} PROVE Alike(proc[x], proc'[x])
  <2>1. Rec(proc[x])
    BY DEF ProcOK
  <2>2. proc'[x] = proc[x] \/ proc'[x] = [proc[x] EXCEPT !.floor = 0]
    BY Zenon DEF Unfloored
  <2>3. CASE proc'[x] = proc[x]
    BY <2>1, <2>3, SelfAlike
  <2>4. CASE proc'[x] = [proc[x] EXCEPT !.floor = 0]
    <3> DEFINE low == [proc[x] EXCEPT !.floor = 0]
    <3>1. Alike(proc[x], low)
      BY <2>1 DEF Alike, Rec, Fields
    <3>2. proc'[x] = low
      BY <2>4
    <3> HIDE DEF low
    <3>3. QED
      BY <3>1, <3>2
  <2>5. QED
    BY <2>2, <2>3, <2>4
<1> HIDE DEF rec
<1>4. Asks(proc'[w]) /\ Entered(w)
  BY <1>1, <1>2 DEF Entered, Storing, Reading
<1>5. Fine(w)
  BY <1>3, <1>4 DEF Fine
<1>6. QED
  BY <1>1, <1>5 DEF rec

LEMMA DeleteFine ==
    ASSUME ProcOK, conf \in Deployments, NEW w \in Worker, Asks(proc[w]), Delete(w)
    PROVE  Fine(w)
<1>0. Rec(proc[w])
  BY DEF ProcOK
<1>1. CASE DelLoad(w)
  <2> DEFINE rec == [proc[w] EXCEPT !.df = Loaded(Primary), !.pc = "dlock"]
  <2>1. Asks(rec) /\ rec.pc \notin Storing \cup Deleting \cup Reading
    BY <1>0, <1>1 DEF DelLoad, Busy, Rec, Fields, Asks, Storing, Deleting, Reading, Deletes, Writing
  <2>2. Become(w, rec)
    BY <1>1 DEF DelLoad
  <2> HIDE DEF rec
  <2>3. QED
    BY <2>1, <2>2, Walks
<1>2. CASE DelLock(w)
  BY Zenon, <1>2, DelLockFine DEF DelLock, AfterCheck, Busy
<1>3. CASE EvictLock(w)
  <2>1. CASE Become(w, Idle)
    BY <2>1, Ends
  <2>2. CASE Victim(w) # None /\ isKeyExpired(Victim(w))
    BY Zenon, <1>3, <2>2, DelLockFine DEF EvictLock, Busy
  <2>3. QED
    BY <1>3, <2>1, <2>2 DEF EvictLock
<1>4. CASE deleteFromPreviousOwners(w)
  <2>1. ASSUME NEW rec, Become(w, rec),
               \/ rec = [proc[w] EXCEPT !.pc = "dback"]
               \/ proc[w].n # 0 /\ \E m : rec = [proc[w] EXCEPT !.n = @ - 1, !.todo = {m}]
               \/ rec = [proc[w] EXCEPT !.err = TRUE]
        PROVE  Fine(w)
    <3>1. proc[w].pc = "dprev"
      BY <1>4 DEF deleteFromPreviousOwners, Busy
    <3>2. /\ rec.pc \in Deleting /\ rec.do = proc[w].do /\ rec.key = proc[w].key
          /\ rec.df = proc[w].df /\ rec.hit = proc[w].hit
          /\ rec.ttl = proc[w].ttl /\ rec.dkey = proc[w].dkey
          /\ rec.pc = "dprev" => rec.n = proc[w].n \/ (rec.n = proc[w].n - 1 /\ proc[w].n # 0)
      BY Zenon, <1>0, <2>1, <3>1 DEF Rec, Fields, Deleting, Reading
    <3>3. rec.pc = "dprev" => rec.n \in 0 .. Len(conf.prevs)
      BY <3>1, <3>2, Sequences DEF Asks
    <3>4. Asks(rec)
      BY <3>1, <3>2, <3>3 DEF Asks, Deletes, Deleting, Reading, Storing
    <3>5. QED
      BY Zenon, <2>1, <3>1, <3>2, <3>4, Goes DEF Deleting, Reading
  <2>2. QED
    BY Zenon, <1>4, <2>1 DEF deleteFromPreviousOwners, Go
<1>5. CASE deleteBackupOnCluster(w)
  <2>1. ASSUME NEW rec, Become(w, rec),
               \/ rec = [proc[w] EXCEPT !.todo = Backups, !.pc = "dwait"]
               \/ rec = [proc[w] EXCEPT !.err = TRUE, !.pc = "dwait"]
        PROVE  Fine(w)
    <3>1. proc[w].pc = "dback"
      BY <1>5 DEF deleteBackupOnCluster, Busy
    <3>2. /\ rec.pc = "dwait" /\ rec.do = proc[w].do /\ rec.key = proc[w].key
          /\ rec.df = proc[w].df /\ rec.hit = proc[w].hit
          /\ rec.ttl = proc[w].ttl /\ rec.dkey = proc[w].dkey
      BY Zenon, <1>0, <2>1, <3>1 DEF Rec, Fields, Deleting, Reading
    <3>3. Asks(rec)
      BY <3>1, <3>2 DEF Asks, Deletes, Deleting, Reading, Storing
    <3>4. QED
      BY <2>1, <3>1, <3>2, <3>3, Goes DEF Deleting, Reading
  <2>2. QED
    BY Zenon, <1>5, <2>1 DEF deleteBackupOnCluster
<1>6. CASE DelFinish(w)
  <2>1. CASE Become(w, Idle)
    BY <2>1, Ends
  <2>2. CASE proc[w].do \in Writing /\ Go(w, "lock")
    <3> DEFINE rec == [proc[w] EXCEPT !.pc = "lock"]
    <3>1. Asks(rec) /\ rec.pc \notin Storing \cup Deleting \cup Reading
      BY <1>0, <1>6, <2>2 DEF DelFinish, Busy, Rec, Fields, Asks, Storing, Deleting, Reading, Deletes, Writing
    <3>2. Become(w, rec)
      BY <2>2 DEF Go
    <3> HIDE DEF rec
    <3>3. QED
      BY <3>1, <3>2, Walks
  <2>3. QED
    BY <1>6, <2>1, <2>2 DEF DelFinish, Writing
<1>7. QED
  BY <1>1, <1>2, <1>3, <1>4, <1>5, <1>6 DEF Delete

LEMMA GetFine ==
    ASSUME ProcOK, NEW w \in Worker, Asks(proc[w]), Get(w)
    PROVE  Fine(w)
<1>0. Rec(proc[w])
  BY DEF ProcOK
\* A read keeps its request.
<1>1. ASSUME NEW rec, Become(w, rec),
             proc[w].pc \in {"look", "owners", "replicas", "repair"},
             rec.pc \in {"owners", "replicas", "repair"}, rec.pc = "repair" => conf.repair,
             rec.do = proc[w].do, rec.key = proc[w].key, rec.ttl = proc[w].ttl
      PROVE  Fine(w)
  <2>1. Asks(rec) /\ rec.pc \notin Storing \cup Deleting
    BY <1>1 DEF Asks, Storing, Deletes, Deleting, Reading
  <2>2. QED
    BY <1>1, <2>1, Walks
<1>2. CASE lookupOnThisNode(w)
  <2> DEFINE rec == [proc[w] EXCEPT !.vers = <<Version(Owner, Held(Primary, proc[w].key))>>,
                                    !.todo = LiveOwners, !.pc = "owners"]
  <2>1. rec.pc = "owners" /\ rec.do = proc[w].do /\ rec.key = proc[w].key /\ rec.ttl = proc[w].ttl
    BY <1>0 DEF Rec, Fields
  <2>2. Become(w, rec) /\ proc[w].pc = "look"
    BY <1>2 DEF lookupOnThisNode, Busy
  <2> HIDE DEF rec
  <2>3. QED
    BY <1>1, <2>1, <2>2
<1>3. CASE lookupOnReplicas(w)
  <2> DEFINE rec == [proc[w] EXCEPT !.todo = Backups \cap member, !.pc = "replicas"]
  <2>1. rec.pc = "replicas" /\ rec.do = proc[w].do /\ rec.key = proc[w].key /\ rec.ttl = proc[w].ttl
    BY <1>0 DEF Rec, Fields
  <2>2. Become(w, rec) /\ proc[w].pc = "owners"
    BY <1>3 DEF lookupOnReplicas, Busy
  <2> HIDE DEF rec
  <2>3. QED
    BY <1>1, <2>1, <2>2
<1>4. CASE getOnCluster(w)
  <2>1. CASE Become(w, Idle)
    BY <2>1, Ends
  <2>2. ASSUME NEW e, NEW t, Become(w, [proc[w] EXCEPT !.e = e, !.todo = t, !.pc = "repair"]),
               conf.repair
        PROVE  Fine(w)
    <3> DEFINE rec == [proc[w] EXCEPT !.e = e, !.todo = t, !.pc = "repair"]
    <3>1. rec.pc = "repair" /\ rec.do = proc[w].do /\ rec.key = proc[w].key /\ rec.ttl = proc[w].ttl
      BY <1>0 DEF Rec, Fields
    <3>2. Become(w, rec) /\ proc[w].pc = "replicas"
      BY <1>4, <2>2 DEF getOnCluster, Busy
    <3> HIDE DEF rec
    <3>3. QED
      BY <1>1, <2>2, <3>1, <3>2
  <2>3. QED
    BY Zenon, <1>4, <2>1, <2>2 DEF getOnCluster
<1>5. CASE RepairLoad(w) \/ RepairStore(w)
  <2>1. ASSUME NEW rec, Become(w, rec),
               rec = [proc[w] EXCEPT !.f = Loaded(Primary)] \/ rec = [proc[w] EXCEPT !.todo = @ \ {Owner}]
        PROVE  Fine(w)
    <3>1. rec.pc = proc[w].pc /\ rec.do = proc[w].do /\ rec.key = proc[w].key /\ rec.ttl = proc[w].ttl
      BY <1>0, <2>1 DEF Rec, Fields
    <3>2. proc[w].pc = "repair" /\ conf.repair
      BY <1>5 DEF RepairLoad, RepairStore, Busy, Asks
    <3>3. QED
      BY <1>1, <2>1, <3>1, <3>2
  <2>2. QED
    BY <1>5, <2>1 DEF RepairLoad, RepairStore
<1>6. CASE GetReturn(w)
  BY <1>6, Ends DEF GetReturn
<1>7. ASSUME NEW h \in Others, NEW fails \in BOOLEAN, getOnFragment(w, h, fails)
      PROVE  Fine(w)
  <2>1. PICK vers : Become(w, [proc[w] EXCEPT !.todo = @ \ {h}, !.err = @ \/ fails, !.vers = vers])
    BY Zenon, <1>0, <1>7 DEF getOnFragment, Rec, Fields
  <2> DEFINE rec == [proc[w] EXCEPT !.todo = @ \ {h}, !.err = @ \/ fails, !.vers = vers]
  <2>2. rec.pc = proc[w].pc /\ rec.do = proc[w].do /\ rec.key = proc[w].key /\ rec.ttl = proc[w].ttl
    BY <1>0 DEF Rec, Fields
  <2>3. Become(w, rec) /\ proc[w].pc \in {"owners", "replicas"}
    BY <1>7, <2>1 DEF getOnFragment
  <2> HIDE DEF rec
  <2>4. QED
    BY <1>1, <2>2, <2>3
<1>8. QED
  BY <1>2, <1>3, <1>4, <1>5, <1>6, <1>7 DEF Get

-----------------------------------------------------------------------------
(* The steps by what they change.                                          *)

Locks(w) == prepareWrite(w) \/ DelLock(w) \/ EvictLock(w)
Unlocks(w) == PutSync(w) \/ PutAsync(w) \/ PutAbort(w) \/ DelFinish(w)
Receives(r) == putOnReplicaFragment(r) \/ mergeFragments(r) \/ delEntryCommandHandler(r)
Still == UNCHANGED <<keyLock, must, clock, data>>

LEMMA StepCases ==
    ASSUME [Next]_vars
    PROVE  \/ Still
           \/ \E w \in Worker : Locks(w) \/ Unlocks(w) \/ PutSingle(w) \/ RepairStore(w)
           \/ \E r \in net : Receives(r)
<1>1. CASE UNCHANGED vars
  BY <1>1 DEF vars, fragVars, histVars, timeVars, Still
<1>2. ASSUME NEW w \in Worker, Put(w)
      PROVE  Still \/ Locks(w) \/ Unlocks(w) \/ PutSingle(w)
  BY Zenon, <1>2 DEF Put, PutLoad, evictForWrite, PutSend, loadOrCreateFragment, fragVars, histVars, timeVars,
              Still, Locks, Unlocks
<1>3. ASSUME NEW w \in Worker, Delete(w)
      PROVE  Still \/ Locks(w) \/ Unlocks(w)
  BY Zenon, <1>3 DEF Delete, DelLoad, deleteFromPreviousOwners, deleteBackupOnCluster, loadOrCreateFragment,
              fragVars, histVars, timeVars, Still, Locks, Unlocks
<1>4. ASSUME NEW w \in Worker, Get(w)
      PROVE  Still \/ RepairStore(w)
  BY Zenon, <1>4 DEF Get, lookupOnThisNode, lookupOnReplicas, getOnCluster, RepairLoad, GetReturn, getOnFragment,
              loadOrCreateFragment, fragVars, histVars, timeVars, Still
<1>5. ASSUME NEW w, NEW k, EvictSample(w, k) \/ \E r \in Request : Requested(w, r, k)
      PROVE  Still
  BY Zenon, <1>5 DEF EvictSample, Requested, putCommandHandler, expireCommandHandler, delCommandHandler,
              getCommandHandler, Redirect, Serves, fragVars, histVars, timeVars, Still
<1>6. ASSUME NEW r, Serve(r) PROVE Still \/ Receives(r)
  BY <1>6 DEF Serve, putEntryCommandHandler, moveFragmentCommandHandler, ServeLoad, loadOrCreateFragment,
              fragVars, histVars, timeVars, Still, Receives
<1>7. ASSUME NEW r, NEW arrives, Fail(r, arrives) PROVE Still
  BY <1>7 DEF Fail, histVars, timeVars, Still
<1>8. ASSUME NEW m, Crash(m) \/ Notice(m) \/ moveTable(m) \/ Replicate(m) PROVE Still
  BY Zenon, <1>8 DEF Crash, Notice, moveTable, Replicate, fragVars, histVars, timeVars, Still
<1>9. ASSUME NEW x, janitor(x) \/ Lapse(x) PROVE Still
  BY <1>9 DEF janitor, wipeOutFragment, Lapse, fragVars, histVars, timeVars, Still
<1> HIDE DEF Still, Locks, Unlocks, Receives, Requested
<1>10. QED
  BY <1>1, <1>2, <1>3, <1>4, <1>5, <1>6, <1>7, <1>8, <1>9, Zenon DEF Next, Requested

\* Nobody changes the deployment.
LEMMA SameConf == ASSUME [Next]_vars PROVE conf' = conf
<1>1. CASE UNCHANGED vars
  BY <1>1 DEF vars, nodeVars
<1>2. ASSUME NEW w \in Worker, Put(w) PROVE conf' = conf
  BY Zenon, <1>2 DEF Put, PutLoad, PutSingle, evictForWrite, prepareWrite, PutSend, PutAbort, PutSync, PutAsync,
              nodeVars
<1>3. ASSUME NEW w \in Worker, Delete(w) PROVE conf' = conf
  BY Zenon, <1>3 DEF Delete, DelLoad, DelLock, EvictLock, deleteFromPreviousOwners, deleteBackupOnCluster,
              DelFinish, nodeVars
<1>4. ASSUME NEW w \in Worker, Get(w) PROVE conf' = conf
  BY Zenon, <1>4 DEF Get, lookupOnThisNode, lookupOnReplicas, getOnCluster, RepairLoad, RepairStore, GetReturn,
              getOnFragment, nodeVars
<1>5. ASSUME NEW w, NEW k, EvictSample(w, k) \/ \E r \in Request : Requested(w, r, k)
      PROVE  conf' = conf
  BY Zenon, <1>5 DEF EvictSample, Requested, putCommandHandler, expireCommandHandler, delCommandHandler,
              getCommandHandler, Redirect, Serves, nodeVars
<1>6. ASSUME NEW r, Serve(r) PROVE conf' = conf
  BY Zenon, <1>6 DEF Serve, putEntryCommandHandler, moveFragmentCommandHandler, ServeLoad, putOnReplicaFragment,
              mergeFragments, delEntryCommandHandler, nodeVars
<1>7. ASSUME NEW r, NEW arrives, Fail(r, arrives) PROVE conf' = conf
  BY <1>7 DEF Fail, nodeVars
<1>8. ASSUME NEW m, Crash(m) \/ Notice(m) \/ moveTable(m) \/ Replicate(m) PROVE conf' = conf
  BY Zenon, <1>8 DEF Crash, Notice, moveTable, Replicate, nodeVars
<1>9. ASSUME NEW x, janitor(x) \/ Lapse(x) PROVE conf' = conf
  BY <1>9 DEF janitor, Lapse, nodeVars
<1> HIDE DEF Requested
<1>10. QED
  BY <1>1, <1>2, <1>3, <1>4, <1>5, <1>6, <1>7, <1>8, <1>9, Zenon DEF Next, Requested

LEMMA ToldAlike ==
    ASSUME ProcOK, NEW r, NEW good, proc' = Told(r, good)
    PROVE  \A x \in Worker : Alike(proc[x], proc'[x])
<1> SUFFICES ASSUME NEW x \in Worker PROVE Alike(proc[x], proc'[x])
  OBVIOUS
<1>0. Rec(proc[x])
  BY DEF ProcOK
<1>1. CASE proc'[x] = proc[x]
  BY <1>0, <1>1, SelfAlike
<1>2. CASE proc'[x] = [proc[x] EXCEPT !.todo = @ \ {r.to}, !.err = @ \/ ~good]
  <2> DEFINE rec == [proc[x] EXCEPT !.todo = @ \ {r.to}, !.err = @ \/ ~good]
  <2>1. Alike(proc[x], rec)
    BY <1>0 DEF Alike, Rec, Fields
  <2>2. proc'[x] = rec
    BY <1>2
  <2> HIDE DEF rec
  <2>3. QED
    BY <2>1, <2>2
<1>3. QED
  BY Zenon, <1>1, <1>2 DEF Told, ProcOK

\* One worker has its turn, or none.
LEMMA Turns ==
    ASSUME ProcOK, conf \in Deployments, \A w \in Worker : Asks(proc[w]), [Next]_vars
    PROVE  \/ \E w \in Worker : Turn(w) /\ Fine(w)
           \/ \A x \in Worker : Alike(proc[x], proc'[x])
<1>1. ASSUME NEW w \in Worker, Turn(w) PROVE Fine(w)
  BY <1>1, PutFine, DeleteFine, GetFine, SampleFine, RequestFine DEF Turn
<1>2. ASSUME proc' = proc PROVE \A x \in Worker : Alike(proc[x], proc'[x])
  BY <1>2, SelfAlike DEF ProcOK
<1>3. CASE UNCHANGED vars
  BY <1>2, <1>3 DEF vars
<1>4. ASSUME NEW r, Serve(r) \/ \E arrives \in BOOLEAN : Fail(r, arrives)
      PROVE  \A x \in Worker : Alike(proc[x], proc'[x])
  <2>1. proc' = proc \/ \E good : proc' = Told(r, good)
    BY Zenon, <1>4 DEF Serve, putEntryCommandHandler, moveFragmentCommandHandler, ServeLoad, putOnReplicaFragment,
                mergeFragments, delEntryCommandHandler, Fail
  <2>2. QED
    BY <1>2, <2>1, ToldAlike
<1>5. ASSUME NEW m, Crash(m) \/ Notice(m) \/ moveTable(m) \/ Replicate(m) \/ janitor(m) \/ Lapse(m)
      PROVE  \A x \in Worker : Alike(proc[x], proc'[x])
  BY Zenon, <1>2, <1>5 DEF Crash, Notice, moveTable, Replicate, janitor, Lapse
<1> HIDE DEF Turn, Requested
<1>6. QED
  BY <1>1, <1>3, <1>4, <1>5, Zenon DEF Next, Turn, Requested

LEMMA AllEntered ==
    ASSUME ProcOK, conf \in Deployments, \A w \in Worker : Asks(proc[w]), [Next]_vars
    PROVE  \A x \in Worker : Asks(proc'[x]) /\ Entered(x)
  BY Turns, AlikeAsks, AlikeEntered DEF Fine

-----------------------------------------------------------------------------
(* The locks.                                                              *)

\* A write that is prepared.
Prepared(w) ==
    /\ keyLock[proc[w].key] = None /\ keyLocked(w, proc[w].key)
    /\ checkPutConditions(w) /\ Updatable(w, Current(w))
    /\ proc[w].pc = "lock" /\ proc'[w].pc \in Storing
    /\ proc'[w].do = proc[w].do /\ proc'[w].key = proc[w].key /\ proc'[w].cond = proc[w].cond
    /\ proc'[w].f = proc[w].f /\ proc'[w].e = prepareEntry(w, Current(w))
    /\ clock' = clock + 1 /\ UNCHANGED <<conf, part, data, lapsed, net, must, stray>>

LEMMA PrepareEffect ==
    ASSUME ProcOK, NEW w \in Worker, prepareWrite(w)
    PROVE  Prepared(w) \/ (Still /\ proc'[w] = Idle)
<1>0. Rec(proc[w])
  BY DEF ProcOK
<1>1. CASE checkPutConditions(w) /\ Updatable(w, Current(w))
  <2> DEFINE rec == [proc[w] EXCEPT !.e = prepareEntry(w, Current(w)), !.n = 1,
                                    !.pc = IF conf.sync THEN "send" ELSE "store"]
  <2>1. Become(w, rec)
    BY <1>1 DEF prepareWrite
  <2>2. proc'[w] = rec
    BY <2>1, Becomes
  <2>3. /\ rec.pc \in Storing /\ rec.do = proc[w].do /\ rec.key = proc[w].key
        /\ rec.cond = proc[w].cond /\ rec.f = proc[w].f /\ rec.e = prepareEntry(w, Current(w))
    BY <1>0 DEF Rec, Fields, Storing
  <2> HIDE DEF rec
  <2>4. QED
    BY <1>1, <2>2, <2>3 DEF prepareWrite, Prepared, Busy, keyFree, nodeVars, histVars
<1>2. CASE ~(checkPutConditions(w) /\ Updatable(w, Current(w)))
  BY <1>2, Ends DEF prepareWrite, Still, histVars
<1>3. QED
  BY <1>1, <1>2

\* A delete that has its lock.
Condemned(w) ==
    /\ keyLock[proc[w].dkey] = None /\ keyLocked(w, proc[w].dkey)
    /\ proc[w].pc \in {"dlock", "elock"} /\ proc'[w].pc \in Deleting
    /\ proc'[w].do = proc[w].do /\ proc'[w].dkey = proc[w].dkey /\ proc'[w].df = proc[w].df
    /\ proc'[w].hit = (Victim(w) # None)
    /\ Doomed(proc[w].dkey, proc[w].df)
    /\ UNCHANGED <<conf, up, part, made, data, lapsed, net, clock, frozen>>

LEMMA CondemnEffect ==
    ASSUME ProcOK, conf \in Deployments, NEW w \in Worker, Asks(proc[w]), DelLock(w) \/ EvictLock(w)
    PROVE  Condemned(w) \/ (Still /\ proc'[w] = Idle)
<1>0. Rec(proc[w])
  BY DEF ProcOK
<1>1. ASSUME NEW hit, proc' = [Unfloored(w, proc[w].dkey) EXCEPT
                                  ![w].hit = hit, ![w].n = Len(conf.prevs), ![w].pc = "dprev"],
             proc[w].pc \in {"dlock", "elock"}
      PROVE  /\ proc'[w].pc \in Deleting /\ proc'[w].do = proc[w].do
             /\ proc'[w].dkey = proc[w].dkey /\ proc'[w].df = proc[w].df /\ proc'[w].hit = hit
  <2> DEFINE rec == [proc[w] EXCEPT !.hit = hit, !.n = Len(conf.prevs), !.pc = "dprev"]
  <2>1. proc'[w] = rec
    BY Zenon, <1>1, DelLockFine
  <2>2. /\ rec.pc \in Deleting /\ rec.do = proc[w].do
        /\ rec.dkey = proc[w].dkey /\ rec.df = proc[w].df /\ rec.hit = hit
    BY <1>0 DEF Rec, Fields, Deleting
  <2> HIDE DEF rec
  <2>3. QED
    BY <2>1, <2>2
<1>2. CASE DelLock(w)
  <2>1. /\ proc'[w].pc \in Deleting /\ proc'[w].do = proc[w].do
        /\ proc'[w].dkey = proc[w].dkey /\ proc'[w].df = proc[w].df
        /\ proc'[w].hit = (Victim(w) # None)
    BY Zenon, <1>1, <1>2 DEF DelLock, AfterCheck, Busy
  <2>2. QED
    BY <1>2, <2>1 DEF DelLock, Busy, keyFree, Condemned, nodeVars, fragVars, timeVars
<1>3. CASE EvictLock(w) /\ Victim(w) # None /\ isKeyExpired(Victim(w))
  <2>1. /\ proc'[w].pc \in Deleting /\ proc'[w].do = proc[w].do
        /\ proc'[w].dkey = proc[w].dkey /\ proc'[w].df = proc[w].df /\ proc'[w].hit = TRUE
    BY Zenon, <1>1, <1>3 DEF EvictLock, Busy
  <2>2. QED
    BY Zenon, <1>3, <2>1 DEF EvictLock, Busy, keyFree, Condemned, nodeVars, fragVars, timeVars
<1>4. CASE EvictLock(w) /\ ~(Victim(w) # None /\ isKeyExpired(Victim(w)))
  BY <1>4, Ends DEF EvictLock, Still, histVars, fragVars, timeVars
<1>5. QED
  BY <1>2, <1>3, <1>4

\* An operation that ends lets go of the key it holds.
Released(w, k) ==
    /\ keyUnlocked(k) /\ proc'[w].pc \notin Storing \cup Deleting
    /\ UNCHANGED <<conf, up, part, made, clock, lapsed, frozen>>

LEMMA UnlockEffect ==
    ASSUME ProcOK, NEW w \in Worker, Unlocks(w)
    PROVE  \/ proc[w].pc \in Storing /\ Released(w, proc[w].key)
           \/ proc[w].pc \in Deleting /\ Released(w, proc[w].dkey)
<1>0. Rec(proc[w])
  BY DEF ProcOK
<1>1. CASE PutSync(w) \/ PutAsync(w) \/ PutAbort(w)
  <2>1. proc'[w] = Idle
    BY Zenon, <1>1, Ends DEF PutSync, PutAsync, PutAbort
  <2>2. proc[w].pc \in Storing
    BY Zenon, <1>1 DEF PutSync, PutAsync, PutAbort, Busy, Storing
  <2>3. QED
    BY Zenon, <1>1, <2>1, <2>2, IdleAsks DEF PutSync, PutAsync, PutAbort, Release, Released, nodeVars, timeVars
<1>2. CASE DelFinish(w)
  <2>1. proc[w].pc \in Deleting
    BY <1>2 DEF DelFinish, Busy, Deleting
  <2>2. proc'[w].pc \notin Storing \cup Deleting
    <3>1. CASE Become(w, Idle)
      BY <3>1, Ends, IdleAsks
    <3>2. CASE Go(w, "lock")
      BY <1>0, <3>2 DEF Go, Become, ProcOK, Rec, Fields, Storing, Deleting
    <3>3. QED
      BY <1>2, <3>1, <3>2 DEF DelFinish
  <2>3. QED
    BY <1>2, <2>1, <2>2 DEF DelFinish, Released, nodeVars, timeVars
<1>3. QED
  BY <1>1, <1>2 DEF Unlocks

\* The lock of a key changes hands only through the worker that holds it.
LockChange(k) ==
    \/ keyLock'[k] = keyLock[k]
    \/ keyLock[k] = None /\ \E w \in Worker : keyLock'[k] = w
    \/ /\ keyLock'[k] = None
       /\ \E w \in Worker : keyLock[k] = w /\ proc'[w].pc \notin Storing \cup Deleting

LEMMA LockChanges ==
    ASSUME BaseInv, LockInv, [Next]_vars
    PROVE  keyLock' \in [Key -> Worker \cup {None}] /\ \A k \in Key : LockChange(k)
<1>0. ProcOK /\ conf \in Deployments /\ keyLock \in [Key -> Worker \cup {None}]
  BY DEF BaseInv, WriteInv
<1>1. CASE keyLock' = keyLock
  BY <1>0, <1>1 DEF LockChange
<1>2. ASSUME NEW w \in Worker, NEW k \in Key, keyLock[k] = None, keyLocked(w, k)
      PROVE  keyLock' \in [Key -> Worker \cup {None}] /\ \A j \in Key : LockChange(j)
  BY <1>0, <1>2 DEF LockChange, keyLocked
<1>3. ASSUME NEW w \in Worker, NEW k \in Key, keyLock[k] = w, Released(w, k)
      PROVE  keyLock' \in [Key -> Worker \cup {None}] /\ \A j \in Key : LockChange(j)
  BY <1>0, <1>3 DEF LockChange, keyUnlocked, Released
<1>4. CASE Still
  BY <1>1, <1>4 DEF Still
<1>5. ASSUME NEW w \in Worker, Locks(w)
      PROVE  keyLock' \in [Key -> Worker \cup {None}] /\ \A j \in Key : LockChange(j)
  <2>1. Asks(proc[w])
    BY DEF BaseInv
  <2>2. CASE Prepared(w)
    <3>1. proc[w].key \in Key
      BY <2>1, <2>2 DEF Prepared, Asks
    <3>2. QED
      BY <1>2, <2>2, <3>1 DEF Prepared
  <2>3. CASE Condemned(w)
    <3>1. proc[w].dkey \in Key
      BY <2>1, <2>3 DEF Condemned, Asks, Deletes
    <3>2. QED
      BY <1>2, <2>3, <3>1 DEF Condemned
  <2>4. QED
    BY <1>0, <1>4, <1>5, <2>1, <2>2, <2>3, PrepareEffect, CondemnEffect DEF Locks
<1>6. ASSUME NEW w \in Worker, Unlocks(w)
      PROVE  keyLock' \in [Key -> Worker \cup {None}] /\ \A j \in Key : LockChange(j)
  <2>1. Asks(proc[w])
    BY DEF BaseInv
  <2>2. CASE proc[w].pc \in Storing /\ Released(w, proc[w].key)
    BY <1>3, <2>1, <2>2 DEF Asks, LockInv
  <2>3. CASE proc[w].pc \in Deleting /\ Released(w, proc[w].dkey)
    BY <1>3, <2>1, <2>3 DEF Asks, LockInv, Deletes
  <2>4. QED
    BY <1>0, <1>6, <2>2, <2>3, UnlockEffect
<1>7. ASSUME NEW w, PutSingle(w) \/ RepairStore(w) PROVE keyLock' = keyLock
  BY <1>7 DEF PutSingle, RepairStore
<1>8. ASSUME NEW r, Receives(r) PROVE keyLock' = keyLock
  BY Zenon, <1>8 DEF Receives, putOnReplicaFragment, mergeFragments, delEntryCommandHandler
<1>9. QED
  BY <1>1, <1>4, <1>5, <1>6, <1>7, <1>8, StepCases

LEMMA LockStep == ASSUME BaseInv, LockInv, [Next]_vars PROVE LockInv'
<1>0. ProcOK /\ conf \in Deployments /\ \A w \in Worker : Asks(proc[w])
  BY DEF BaseInv, WriteInv
<1>1. \A x \in Worker : Asks(proc'[x]) /\ Entered(x)
  BY <1>0, AllEntered
<1>2. \A k \in Key : LockChange(k)
  BY LockChanges
<1> SUFFICES ASSUME NEW x \in Worker
             PROVE  /\ proc'[x].pc \in Storing => keyLock'[proc'[x].key] = x
                    /\ proc'[x].pc \in Deleting => keyLock'[proc'[x].dkey] = x
  BY DEF LockInv
<1>3. ASSUME NEW k \in Key, keyLock[k] = x, proc'[x].pc \in Storing \cup Deleting
      PROVE  keyLock'[k] = x
  BY <1>2, <1>3, WorkerAssumption DEF LockChange
<1>4. CASE proc'[x].pc \in Storing
  <2>1. CASE prepareWrite(x)
    <3>1. Prepared(x)
      BY <1>0, <1>4, <2>1, PrepareEffect, IdleAsks
    <3>2. proc[x].key \in Key /\ keyLock \in [Key -> Worker \cup {None}]
      BY <1>0, <3>1 DEF Prepared, Asks, BaseInv
    <3>3. QED
      BY <3>1, <3>2, <1>4 DEF Prepared, keyLocked, Storing, Deleting
  <2>2. CASE proc[x].pc \in Storing /\ proc'[x].key = proc[x].key
    BY <1>0, <1>3, <1>4, <2>2 DEF LockInv, Asks, Storing, Deleting
  <2>3. QED
    BY <1>1, <1>4, <2>1, <2>2 DEF Entered
<1>5. CASE proc'[x].pc \in Deleting
  <2>1. CASE DelLock(x) \/ EvictLock(x)
    <3>1. Condemned(x)
      BY <1>0, <1>5, <2>1, CondemnEffect, IdleAsks
    <3>2. proc[x].dkey \in Key /\ keyLock \in [Key -> Worker \cup {None}]
      BY <1>0, <3>1 DEF Condemned, Asks, BaseInv, Deletes
    <3>3. QED
      BY <3>1, <3>2, <1>5 DEF Condemned, keyLocked, Storing, Deleting
  <2>2. CASE proc[x].pc \in Deleting /\ proc'[x].dkey = proc[x].dkey
    BY <1>0, <1>3, <1>5, <2>2 DEF LockInv, Asks, Storing, Deleting, Deletes
  <2>3. QED
    BY <1>1, <1>5, <2>1, <2>2 DEF Entered
<1>6. QED
  BY <1>4, <1>5

-----------------------------------------------------------------------------
(* The requests on their way.                                              *)

\* A request that goes on, with its fragment found or nobody waiting any more.
Like(r, s) ==
    /\ DOMAIN s = MsgFields /\ s.waits \in BOOLEAN /\ (s.waits => r.waits)
    /\ s.op = r.op /\ s.to = r.to /\ s.kind = r.kind /\ s.key = r.key /\ s.e = r.e
    /\ s.by = r.by /\ s.table = r.table /\ s.src = r.src

FreshPut(w, s) ==
    /\ PutSend(w) \/ PutAsync(w)
    /\ s.op = "put" /\ s.kind = "backup" /\ s.key = proc[w].key /\ s.e = proc[w].e /\ s.by = w
FreshRepair(w, s) ==
    /\ getOnCluster(w) /\ proc'[w].pc = "repair" /\ s.to \in proc'[w].todo
    /\ s.op = "put" /\ s.kind = "backup"
FreshDel(w, s) ==
    /\ deleteFromPreviousOwners(w) \/ deleteBackupOnCluster(w)
    /\ s.op = "del" /\ s.key = proc[w].dkey /\ s.by = w /\ s.to \in Others
FreshMove(m, s) ==
    /\ moveTable(m)
    /\ s.op = "merge" /\ s.kind = "primary" /\ s.to = Owner /\ s.by = m /\ s.waits
    /\ s.src = At(<<m, "primary">>) /\ s.table = data[s.src]
FreshPush(m, s) ==
    /\ Replicate(m)
    /\ s.op = "merge" /\ s.kind = "backup" /\ ~s.waits /\ s.table = data[At(Primary)]

Fresh(s) ==
    /\ DOMAIN s = MsgFields /\ s.waits \in BOOLEAN
    /\ \/ \E w \in Worker : FreshPut(w, s) \/ FreshRepair(w, s) \/ FreshDel(w, s)
       \/ \E m \in Others : FreshMove(m, s) \/ FreshPush(m, s)

LEMMA SelfLike == ASSUME NEW r, Sent(r) PROVE Like(r, r)
  BY DEF Sent, Like

LEMMA WorkerNet ==
    ASSUME ProcOK, conf \in Deployments, NEW w \in Worker, Asks(proc[w]), Turn(w), NEW s \in net'
    PROVE  s \in net \/ Fresh(s)
<1>0. Rec(proc[w])
  BY DEF ProcOK
<1>1. CASE PutSend(w) /\ s \notin net
  <2>1. s = Message("put", conf.backups[proc[w].n], "backup", proc[w].key, proc[w].e, w, TRUE)
    BY Zenon, <1>1 DEF PutSend
  <2>2. DOMAIN s = MsgFields /\ s.op = "put" /\ s.kind = "backup" /\ s.key = proc[w].key /\ s.by = w
           /\ s.waits \in BOOLEAN /\ s.e = proc[w].e
    BY <2>1 DEF Message, MsgFields
  <2>3. QED
    BY <1>1, <2>2 DEF Fresh, FreshPut
<1>2. CASE PutAsync(w) /\ s \notin net
  <2>1. PICK b : s = Message("put", b, "backup", proc[w].key, proc[w].e, w, FALSE)
    BY Zenon, <1>2 DEF PutAsync
  <2>2. DOMAIN s = MsgFields /\ s.op = "put" /\ s.kind = "backup" /\ s.key = proc[w].key /\ s.by = w
           /\ s.waits \in BOOLEAN /\ s.e = proc[w].e
    BY <2>1 DEF Message, MsgFields
  <2>3. QED
    BY <1>2, <2>2 DEF Fresh, FreshPut
<1>3. CASE getOnCluster(w) /\ s \notin net
  <2> DEFINE winner == sortVersions(proc[w].vers)
             stale == Stale(proc[w].vers, winner)
             rec == [proc[w] EXCEPT !.e = winner.e, !.todo = stale, !.pc = "repair"]
  <2>1. PICK h \in stale \ {Owner} : s = Message("put", h, "backup", proc[w].key, winner.e, w, TRUE)
    BY Zenon, <1>3 DEF getOnCluster
  <2>2. Become(w, rec)
    BY Zenon, <1>3 DEF getOnCluster
  <2>3. rec.todo = stale /\ rec.pc = "repair"
    BY <1>0 DEF Rec, Fields
  <2> HIDE DEF winner, stale, rec
  <2>4. proc'[w] = rec
    BY <2>2, Becomes
  <2>5. DOMAIN s = MsgFields /\ s.op = "put" /\ s.kind = "backup" /\ s.to = h /\ s.waits = TRUE
    BY <2>1 DEF Message, MsgFields
  <2>6. QED
    BY Zenon, <1>3, <2>3, <2>4, <2>5 DEF Fresh, FreshRepair
<1>4. CASE deleteFromPreviousOwners(w) /\ s \notin net
  <2>1. /\ s = Message("del", conf.prevs[proc[w].n], "primary", proc[w].dkey, None, w, TRUE)
        /\ proc[w].n # 0 /\ proc[w].pc = "dprev"
    BY Zenon, <1>4 DEF deleteFromPreviousOwners, Busy
  <2>2. DOMAIN s = MsgFields /\ s.op = "del" /\ s.to = conf.prevs[proc[w].n] /\ s.key = proc[w].dkey
           /\ s.by = w /\ s.waits \in BOOLEAN
    BY <2>1 DEF Message, MsgFields
  <2>3. proc[w].n \in 1 .. Len(conf.prevs)
    BY <2>1, Sequences DEF Asks
  <2>4. s.to \in Others
    BY <2>2, <2>3, Sequences
  <2>5. QED
    BY <1>4, <2>2, <2>4 DEF Fresh, FreshDel
<1>5. CASE deleteBackupOnCluster(w) /\ s \notin net
  <2>1. PICK b \in Backups : s = Message("del", b, "backup", proc[w].dkey, None, w, TRUE)
    BY Zenon, <1>5 DEF deleteBackupOnCluster
  <2>2. DOMAIN s = MsgFields /\ s.op = "del" /\ s.to = b /\ s.key = proc[w].dkey /\ s.by = w
           /\ s.waits \in BOOLEAN
    BY <2>1 DEF Message, MsgFields
  <2>3. s.to \in Others
    BY <2>2, Sequences
  <2>4. QED
    BY <1>5, <2>2, <2>3 DEF Fresh, FreshDel
<1>6. ASSUME Put(w), ~PutSend(w), ~PutAsync(w) PROVE net' = net
  BY Zenon, <1>6 DEF Put, PutLoad, PutSingle, evictForWrite, prepareWrite, PutAbort, PutSync
<1>7. ASSUME Delete(w), ~deleteFromPreviousOwners(w), ~deleteBackupOnCluster(w) PROVE net' = net
  BY Zenon, <1>7 DEF Delete, DelLoad, DelLock, EvictLock, DelFinish
<1>8. ASSUME Get(w), ~getOnCluster(w) PROVE net' = net
  BY Zenon, <1>8 DEF Get, lookupOnThisNode, lookupOnReplicas, RepairLoad, RepairStore, GetReturn, getOnFragment
<1>9. ASSUME NEW k, EvictSample(w, k) \/ \E r \in Request : Requested(w, r, k) PROVE net' = net
  BY Zenon, <1>9 DEF EvictSample, Requested, putCommandHandler, expireCommandHandler, delCommandHandler,
              getCommandHandler, Redirect, Serves
<1> HIDE DEF Requested, Fresh
<1>10. QED
  BY <1>1, <1>2, <1>3, <1>4, <1>5, <1>6, <1>7, <1>8, <1>9, Zenon DEF Turn

LEMMA NetSteps ==
    ASSUME ProcOK, conf \in Deployments, \A w \in Worker : Asks(proc[w]), \A r \in net : Sent(r),
           [Next]_vars, NEW s \in net'
    PROVE  (\E r \in net : Like(r, s)) \/ Fresh(s)
<1>1. CASE s \in net
  BY <1>1, SelfLike
<1>2. ASSUME NEW r \in net, NEW op, ServeLoad(r, op), s \notin net PROVE Like(r, s)
  <2>1. s = [r EXCEPT !.f = Loaded(To(r))] /\ Sent(r)
    BY <1>2 DEF ServeLoad
  <2>2. QED
    BY <2>1 DEF Sent, MsgFields, Like
<1>3. ASSUME NEW r \in net, NEW arrives, Fail(r, arrives), s \notin net PROVE Like(r, s)
  <2>1. s = [r EXCEPT !.waits = FALSE] /\ Sent(r)
    BY <1>3 DEF Fail
  <2>2. QED
    BY <2>1 DEF Sent, MsgFields, Like
<1>4. ASSUME NEW r \in net, Receives(r), s \notin net PROVE FALSE
  BY Zenon, <1>4 DEF Receives, putOnReplicaFragment, mergeFragments, delEntryCommandHandler
<1>5. ASSUME NEW m \in Others, Crash(m) PROVE \E r \in net : Like(r, s)
  <2>1. PICK r \in net : s = [r EXCEPT !.waits = @ /\ r.by # m]
    BY <1>5 DEF Crash
  <2>2. Sent(r)
    OBVIOUS
  <2>3. QED
    BY <2>1, <2>2 DEF Sent, MsgFields, Like
<1>6. ASSUME NEW m \in Others, moveTable(m), s \notin net PROVE Fresh(s)
  <2> DEFINE msg == Message("merge", Owner, "primary", None, None, m, TRUE)
             src == At(<<m, "primary">>)
  <2>1. s = [msg EXCEPT !.table = data[src], !.src = src]
    BY <1>6 DEF moveTable
  <2>2. DOMAIN s = MsgFields /\ s.op = "merge" /\ s.to = Owner /\ s.kind = "primary" /\ s.by = m
           /\ s.waits = TRUE /\ s.src = src /\ s.table = data[src]
    BY <2>1 DEF Message, MsgFields
  <2>3. QED
    BY Zenon, <1>6, <2>2 DEF Fresh, FreshMove
<1>7. ASSUME NEW m \in Others, Replicate(m), s \notin net PROVE Fresh(s)
  <2> DEFINE msg == Message("merge", m, "backup", None, None, Owner, FALSE)
  <2>1. s = [msg EXCEPT !.table = data[At(Primary)]]
    BY Zenon, <1>7 DEF Replicate
  <2>2. DOMAIN s = MsgFields /\ s.op = "merge" /\ s.kind = "backup"
           /\ s.waits = FALSE /\ s.table = data[At(Primary)]
    BY <2>1 DEF Message, MsgFields
  <2>3. QED
    BY Zenon, <1>7, <2>2 DEF Fresh, FreshPush
<1>8. ASSUME NEW x, Notice(x) \/ janitor(x) \/ Lapse(x) PROVE net' = net
  BY <1>8 DEF Notice, janitor, Lapse
<1>9. CASE UNCHANGED vars
  BY <1>1, <1>9 DEF vars
<1>10. ASSUME NEW r \in net, Serve(r), s \notin net PROVE Like(r, s)
  BY <1>2, <1>4, <1>10 DEF Serve, putEntryCommandHandler, moveFragmentCommandHandler, Receives
<1>11. ASSUME NEW w \in Worker, Turn(w) PROVE s \in net \/ Fresh(s)
  BY <1>11, WorkerNet
<1> HIDE DEF Fresh, Like
<1>12. QED
  BY <1>1, <1>3, <1>5, <1>6, <1>7, <1>8, <1>9, <1>10, <1>11, Zenon DEF Next, Turn, Requested

-----------------------------------------------------------------------------
(* The shapes of the state.                                                *)

LEMMA SentStep == ASSUME BaseInv, [Next]_vars PROVE \A s \in net' : Sent(s)'
<1>0. /\ ProcOK /\ conf \in Deployments /\ conf' = conf
      /\ (\A r \in net : Sent(r)) /\ (\A w \in Worker : Asks(proc[w]))
  BY SameConf DEF BaseInv, WriteInv
<1> SUFFICES ASSUME NEW s \in net' PROVE Sent(s)'
  OBVIOUS
<1>1. ASSUME NEW r \in net, Like(r, s) PROVE Sent(s)'
  <2>1. Sent(r)
    BY <1>0
  <2>2. QED
    BY <1>0, <1>1, <2>1 DEF Sent, Like, Prevs
<1>2. CASE Fresh(s)
  <2>1. ASSUME NEW w \in Worker, FreshPut(w, s) \/ FreshRepair(w, s) PROVE Sent(s)'
    BY <1>2, <2>1 DEF Fresh, FreshPut, FreshRepair, Sent
  <2>2. ASSUME NEW w \in Worker, FreshDel(w, s) PROVE Sent(s)'
    <3>1. proc[w].dkey \in Key
      BY Zenon, <1>0, <2>2 DEF FreshDel, deleteFromPreviousOwners, deleteBackupOnCluster, Busy, Asks, Deletes,
                        Deleting
    <3>2. QED
      BY <1>2, <2>2, <3>1 DEF Fresh, FreshDel, Sent
  <2>3. ASSUME NEW m \in Others, FreshMove(m, s) PROVE Sent(s)'
    <3>1. m \in Prevs /\ part[<<m, "primary">>] # 0
      BY <2>3 DEF FreshMove, moveTable
    <3>2. s.src = <<<<m, "primary">>, 1>>
      BY <2>3, <3>1 DEF FreshMove, At, BaseInv
    <3>3. QED
      BY <1>0, <1>2, <2>3, <3>1, <3>2 DEF Fresh, FreshMove, Sent, Prevs
  <2>4. ASSUME NEW m \in Others, FreshPush(m, s) PROVE Sent(s)'
    BY <1>2, <2>4 DEF Fresh, FreshPush, Sent
  <2>5. QED
    BY <1>2, <2>1, <2>2, <2>3, <2>4 DEF Fresh
<1>3. QED
  BY <1>0, <1>1, <1>2, NetSteps

\* A previous owner that has no fragment any more does not get one again, and it
\* loses one by a crash or when it is empty.
Vacated(m) == part'[<<m, "primary">>] = 0 /\ (m \notin up' \/ Has(At(<<m, "primary">>)) = {})

LEMMA OldParts ==
    ASSUME BaseInv, [Next]_vars, NEW m \in Others
    PROVE  part'[<<m, "primary">>] = part[<<m, "primary">>] \/ Vacated(m)
<1> DEFINE p == <<m, "primary">>
<1>0. p # Primary /\ p \in Place /\ DOMAIN part = Place
  BY OwnerAssumption DEF Primary, Place, Kind, BaseInv, WriteInv, PartOK
<1>1. CASE part' = part
  BY <1>1
<1>2. ASSUME NEW q, q # p, loadOrCreateFragment(q) PROVE part'[p] = part[p]
  BY <1>0, <1>2 DEF loadOrCreateFragment
<1>3. CASE UNCHANGED vars
  BY <1>3 DEF vars, fragVars
<1>4. ASSUME NEW w \in Worker, Turn(w) PROVE part' = part \/ loadOrCreateFragment(Primary)
  <2>1. CASE Put(w)
    BY Zenon, <2>1 DEF Put, PutLoad, PutSingle, evictForWrite, prepareWrite, PutSend, PutAbort, PutSync, PutAsync,
                fragVars
  <2>2. CASE Delete(w)
    BY Zenon, <2>2 DEF Delete, DelLoad, DelLock, EvictLock, deleteFromPreviousOwners, deleteBackupOnCluster,
                DelFinish, fragVars
  <2>3. CASE Get(w)
    BY Zenon, <2>3 DEF Get, lookupOnThisNode, lookupOnReplicas, getOnCluster, RepairLoad, RepairStore, GetReturn,
                getOnFragment, fragVars
  <2>4. ASSUME NEW k, EvictSample(w, k) \/ \E r \in Request : Requested(w, r, k) PROVE part' = part
    BY Zenon, <2>4 DEF EvictSample, Requested, putCommandHandler, expireCommandHandler, delCommandHandler,
                getCommandHandler, Redirect, Serves, fragVars
  <2> HIDE DEF Requested
  <2>5. QED
    BY <1>4, <2>1, <2>2, <2>3, <2>4 DEF Turn
<1>5. ASSUME NEW r \in net, NEW op \in {"put", "merge"}, ServeLoad(r, op) PROVE part'[p] = part[p]
  <2>1. Sent(r) /\ r.op = op
    BY <1>5 DEF BaseInv, ServeLoad
  <2>2. To(r) # p
    BY <2>1, OwnerAssumption DEF Sent, To
  <2>3. QED
    BY <1>2, <1>5, <2>2 DEF ServeLoad
<1>6. ASSUME NEW r \in net, Serve(r) \/ \E arrives \in BOOLEAN : Fail(r, arrives)
      PROVE  part'[p] = part[p]
  <2>1. CASE Receives(r) \/ \E arrives \in BOOLEAN : Fail(r, arrives)
    BY Zenon, <2>1 DEF Receives, putOnReplicaFragment, mergeFragments, delEntryCommandHandler, Fail
  <2>2. QED
    BY <1>5, <1>6, <2>1 DEF Serve, putEntryCommandHandler, moveFragmentCommandHandler, Receives
<1>7. ASSUME NEW x \in Others, Crash(x) \/ Notice(x) \/ moveTable(x) \/ Replicate(x)
      PROVE  part'[p] = part[p] \/ Vacated(m)
  <2>1. CASE Crash(x)
    BY <1>0, <2>1 DEF Crash, Vacated
  <2>2. CASE Notice(x) \/ moveTable(x) \/ Replicate(x)
    BY Zenon, <2>2 DEF Notice, moveTable, Replicate, fragVars
  <2>3. QED
    BY <1>7, <2>1, <2>2
<1>8. ASSUME NEW x \in Place, janitor(x) PROVE part'[p] = part[p] \/ Vacated(m)
  BY <1>0, <1>8 DEF janitor, wipeOutFragment, Vacated
<1>9. ASSUME NEW t, Lapse(t) PROVE part' = part
  BY <1>9 DEF Lapse, fragVars
<1>10. ASSUME NEW w \in Worker, Turn(w) PROVE part'[p] = part[p]
  BY <1>0, <1>1, <1>2, <1>4, <1>10
<1>11. QED
  BY Zenon, <1>1, <1>3, <1>6, <1>7, <1>8, <1>9, <1>10 DEF Next, Turn, Requested

\* What is stored carries the timestamp of the write.
LEMMA StoredStamp ==
    ASSUME NEW w, NEW current, NEW e, Stamped(e), putEntryOnFragment(w, current, e) # None
    PROVE  putEntryOnFragment(w, current, e).ts = e.ts
  BY DEF Stamped, putEntryOnFragment

\* Time and the acknowledged writes.
Tally == clock \in Nat \ {0} /\ must \in [Key -> Nat] /\ \A k \in Key : must[k] <= clock

LEMMA TallyStep ==
    ASSUME BaseInv, [Next]_vars
    PROVE  Tally' /\ clock <= clock'
<1>0. Tally /\ ProcOK /\ conf \in Deployments /\ \A w \in Worker : Asks(proc[w])
  BY DEF BaseInv, WriteInv, Tally
<1>1. ASSUME clock' = clock, must' = must PROVE Tally' /\ clock <= clock'
  BY <1>0, <1>1 DEF Tally
<1>2. ASSUME NEW k \in Key, NEW t \in Nat, t <= clock, clock' = clock, must' = [must EXCEPT ![k] = t]
      PROVE  Tally' /\ clock <= clock'
  BY <1>0, <1>2 DEF Tally
<1>3. ASSUME NEW w \in Worker, Locks(w) PROVE Tally' /\ clock <= clock'
  <2>1. CASE Prepared(w)
    BY <1>0, <2>1 DEF Prepared, Tally
  <2>2. CASE Condemned(w)
    <3>1. proc[w].dkey \in Key
      BY <1>0, <2>2 DEF Condemned, Asks, Deletes
    <3>2. QED
      BY <1>0, <1>2, <2>2, <3>1 DEF Condemned, Doomed, Tally
  <2>3. QED
    BY <1>0, <1>1, <1>3, <2>1, <2>2, PrepareEffect, CondemnEffect DEF Locks, Still
<1>4. ASSUME NEW w \in Worker, PutSync(w) \/ PutAsync(w) \/ PutAbort(w) PROVE Tally' /\ clock <= clock'
  <2>1. proc[w].pc \in Storing /\ clock' = clock
    BY Zenon, <1>4 DEF PutSync, PutAsync, PutAbort, Busy, Storing, timeVars
  <2>2. Stamped(proc[w].e) /\ proc[w].key \in Key
    BY <1>0, <2>1 DEF BaseInv, Asks
  <2>3. must' = must \/ must' = [must EXCEPT ![proc[w].key] = proc[w].e.ts]
    <3>1. CASE PutSync(w) \/ PutAbort(w)
      BY <3>1 DEF PutSync, PutAbort
    <3>2. CASE PutAsync(w)
      <4> DEFINE e == putEntryOnFragment(w, Current(w), proc[w].e)
      <4>1. must' = must \/ (e # None /\ must' = [must EXCEPT ![proc[w].key] = e.ts])
        BY Zenon, <3>2 DEF PutAsync, Acked
      <4>2. e # None => e.ts = proc[w].e.ts
        BY <2>2, StoredStamp
      <4> HIDE DEF e
      <4>3. QED
        BY <4>1, <4>2
    <3>3. QED
      BY <1>4, <3>1, <3>2
  <2>4. QED
    BY <1>1, <1>2, <2>1, <2>2, <2>3 DEF Stamped
<1>5. ASSUME NEW w \in Worker, DelFinish(w) PROVE Tally' /\ clock <= clock'
  <2>1. proc[w].dkey \in Key
    BY <1>0, <1>5 DEF DelFinish, Busy, Asks, Deletes, Deleting
  <2>2. QED
    BY <1>0, <1>1, <1>2, <1>5, <2>1 DEF DelFinish, timeVars, Tally
<1>6. ASSUME NEW w \in Worker, PutSingle(w) PROVE Tally' /\ clock <= clock'
  <2>1. CASE ~checkPutConditions(w)
    BY <1>1, <1>6, <2>1 DEF PutSingle, histVars
  <2>2. CASE checkPutConditions(w)
    <3> DEFINE f == FragmentOf(w)
               k == proc[w].key
    <3>1. PICK victims :
             LET kept == [x \in Key |-> IF x \in victims THEN None ELSE data[f][x]]
                 stores == Updatable(w, kept[k])
             IN  /\ clock' = clock + 1
                 /\ must' = [x \in Key |-> IF x = k /\ stores THEN clock + 1
                                           ELSE IF x \in victims THEN 0 ELSE must[x]]
      BY <1>6, <2>2, Zenon DEF PutSingle
    <3>2. \A x \in Key : must'[x] \in {clock + 1, 0, must[x]}
      BY <3>1
    <3>3. clock' = clock + 1 /\ DOMAIN must' = Key
      BY <3>1
    <3>4. QED
      BY <1>0, <3>2, <3>3, <3>1 DEF Tally
  <2>3. QED
    BY <2>1, <2>2
<1>7. ASSUME NEW w \in Worker, RepairStore(w) PROVE Tally' /\ clock <= clock'
  BY <1>1, <1>7 DEF RepairStore, timeVars
<1>8. ASSUME NEW r, Receives(r) PROVE Tally' /\ clock <= clock'
  BY Zenon, <1>1, <1>8 DEF Receives, putOnReplicaFragment, mergeFragments, delEntryCommandHandler, timeVars, histVars
<1>9. QED
  BY <1>1, <1>3, <1>4, <1>5, <1>6, <1>7, <1>8, StepCases DEF Still, Unlocks

LEMMA BaseStep == ASSUME BaseInv, LockInv, [Next]_vars, WriteInv' PROVE BaseInv'
<1>0. /\ ProcOK /\ conf \in Deployments /\ (\A w \in Worker : Asks(proc[w]))
      /\ (\A w \in Worker : proc[w].pc \in Storing => Stamped(proc[w].e)) /\ Tally
  BY DEF BaseInv, WriteInv, Tally
<1>2. conf' = conf /\ Tally' /\ clock <= clock'
  BY SameConf, TallyStep
<1>3. \A x \in Worker : Asks(proc'[x]) /\ Entered(x)
  BY <1>0, AllEntered
<1>4. ASSUME NEW x \in Worker PROVE Asks(proc[x])'
  <2>1. Asks(proc'[x])
    BY <1>3
  <2>2. QED
    BY <1>2, <2>1 DEF Asks, Single
<1>5. ASSUME NEW x \in Worker, proc'[x].pc \in Storing PROVE Stamped(proc[x].e)'
  <2>1. CASE prepareWrite(x)
    <3>1. Prepared(x)
      BY <1>0, <1>5, <2>1, PrepareEffect, IdleAsks
    <3>2. QED
      BY <1>0, <3>1 DEF Prepared, prepareEntry, Stamped, Tally
  <2>2. CASE proc[x].pc \in Storing /\ proc'[x].e = proc[x].e
    <3>1. Stamped(proc[x].e)
      BY <1>0, <2>2
    <3>2. QED
      BY <1>0, <1>2, <2>2, <3>1 DEF Stamped, Tally
  <2>3. QED
    BY <1>3, <1>5, <2>1, <2>2 DEF Entered
<1>6. keyLock' \in [Key -> Worker \cup {None}]
  BY LockChanges
<1>7. \A s \in net' : Sent(s)'
  BY SentStep
<1>8. \A m \in Others : part'[<<m, "primary">>] \in {0, 1}
  BY Zenon, OldParts DEF BaseInv, Vacated
<1>9. QED
  BY <1>0, <1>2, <1>4, <1>5, <1>6, <1>7, <1>8 DEF BaseInv, Tally

LEMMA BaseInit == ASSUME Init, WriteInv PROVE BaseInv /\ LockInv
<1>1. \A w \in Worker : Asks(proc[w]) /\ proc[w].pc \notin Storing \cup Deleting
  BY IdleAsks DEF Init
<1>2. \A m \in Others : part[<<m, "primary">>] \in {0, 1}
  BY DEF Init, Place, Kind
<1>3. conf \in Deployments /\ Tally /\ keyLock \in [Key -> Worker \cup {None}] /\ net = {}
  BY DEF Init, Tally
<1>4. QED
  BY <1>1, <1>2, <1>3 DEF BaseInv, LockInv, Tally
=============================================================================
