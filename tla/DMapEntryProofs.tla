-------------------------- MODULE DMapEntryProofs --------------------------
(***************************************************************************)
(* The entries the members hold, for any number of workers, keys,          *)
(* deployments, fragments and faults: entries stay entries, a conditional  *)
(* write finds what it checked, and what a previous owner brought along    *)
(* moves at most once at a time, and as it was.                            *)
(***************************************************************************)
EXTENDS DMapKeyProofs

Slot == Entry \cup {None}

\* No read repairs the owner's copy: there is none, or there are no other copies.
Quiet == ~conf.repair \/ (Single /\ conf.prevs = <<>>)

Typed == data \in [Fragment -> [Key -> Slot]]
WriteTyped(w) ==
    proc[w].pc \in Storing => proc[w].e \in Entry /\ (proc[w].do = "expire" => Current(w) # None)
ReadTyped(r) ==
    /\ r.pc = "repair" => r.todo = {}
    /\ conf.repair /\ r.pc \in {"owners", "replicas"}
          => r.todo = {} /\ r.vers[1].e \in Slot /\ r.vers = <<Version(Owner, r.vers[1].e)>>
MessageTyped(r) ==
    (r.op = "put" => r.e \in Entry) /\ (r.op = "merge" => r.table \in [Key -> Slot])

DataInv ==
    Quiet => /\ Typed
             /\ \A w \in Worker : WriteTyped(w) /\ ReadTyped(proc[w])
             /\ \A r \in net : MessageTyped(r)

-----------------------------------------------------------------------------
(* What the steps do to the entries.                                       *)

\* A write without replicas, with the keys it evicts.
SingleWrite(w, victims) ==
    LET f == FragmentOf(w)
        k == proc[w].key
        kept == [x \in Key |-> IF x \in victims THEN None ELSE data[f][x]]
        stores == Updatable(w, kept[k])
        e == prepareEntry(w, kept[k])
    IN  /\ data' = [data EXCEPT ![f] = IF stores THEN [kept EXCEPT ![k] = e] ELSE kept]
        /\ clock' = clock + 1
        /\ must' = [x \in Key |-> IF x = k /\ stores THEN clock + 1
                                  ELSE IF x \in victims THEN 0 ELSE must[x]]
        /\ stray' = IF stores THEN Strayed(f, clock + 1) ELSE stray
Victims(w) ==
    IF lruOverLimit(FragmentOf(w)) THEN {{v} : v \in lruVictim(FragmentOf(w))} ELSE {{}}

LEMMA SingleEffect ==
    ASSUME NEW w, PutSingle(w)
    PROVE  \/ Still /\ stray' = stray
           \/ \E victims \in Victims(w) : SingleWrite(w, victims)
<1>1. CASE ~checkPutConditions(w)
  BY <1>1, Zenon DEF PutSingle, Still, histVars
<1>2. CASE checkPutConditions(w)
  BY <1>2, Zenon DEF PutSingle, SingleWrite, Victims
<1>3. QED
  BY <1>1, <1>2

LEMMA MergeEffect ==
    ASSUME BaseInv, DOMAIN data = Fragment, NEW r \in net, mergeFragments(r), NEW g \in Fragment
    PROVE  data'[g] = IF r.waits /\ g = r.src THEN Empty
                      ELSE IF g = <<To(r), r.f>>
                      THEN [k \in Key |-> fragmentMergeFunction(data[g][k], r.table[k])]
                      ELSE data[g]
<1>1. r.op = "merge"
  BY DEF mergeFragments
<1>2. QED
  BY <1>1 DEF mergeFragments, Dropped

LEMMA StoredEffect ==
    ASSUME DOMAIN data = Fragment, NEW f, NEW k, NEW e, data' = Stored(f, k, e),
           NEW g \in Fragment, NEW j \in DOMAIN data[g]
    PROVE  data'[g][j] = IF g = f /\ j = k THEN e ELSE data[g][j]
  BY DEF Stored

LEMMA StoredTyped ==
    ASSUME Typed, NEW f, NEW k, NEW e \in Slot, data' = Stored(f, k, e)
    PROVE  Typed'
<1>1. CASE f \in Fragment
  <2>1. [data[f] EXCEPT ![k] = e] \in [Key -> Slot]
    BY Zenon, <1>1 DEF Typed
  <2>2. QED
    BY <1>1, <2>1 DEF Typed, Stored
<1>2. CASE f \notin Fragment
  BY Zenon, <1>2 DEF Typed, Stored
<1>3. QED
  BY <1>1, <1>2

LEMMA Places ==
    /\ Primary \in Place
    /\ \A m \in Others : <<m, "primary">> \in Place /\ <<m, "primary">> # Primary /\ m # Owner
    /\ \A p \in Place, i \in 1 .. MaxFragments : <<p, i>> \in Fragment
    /\ 1 \in 1 .. MaxFragments
  BY OwnerAssumption, FragmentsAssumption DEF Primary, Place, Kind, Fragment

\* What happens to one entry of the owner.
Cell(i, j) ==
    \/ data'[<<Primary, i>>][j] = data[<<Primary, i>>][j]
    \/ \E w \in Worker : PutSingle(w) \/ RepairStore(w)
    \/ \E w \in Worker : (PutSync(w) \/ PutAsync(w)) /\ proc[w].key = j /\ proc[w].f = i
    \/ \E w \in Worker : DelFinish(w) /\ proc[w].dkey = j /\ data'[<<Primary, i>>][j] = None
    \/ \E r \in net : /\ mergeFragments(r) /\ To(r) = Primary /\ r.f = i
                       /\ data'[<<Primary, i>>][j]
                              = fragmentMergeFunction(data[<<Primary, i>>][j], r.table[j])

LEMMA Cells ==
    ASSUME BaseInv, Typed, [Next]_vars, NEW i \in 1 .. MaxFragments, NEW j \in Key
    PROVE  Cell(i, j)
<1> DEFINE g == <<Primary, i>>
<1>0. g \in Fragment /\ DOMAIN data = Fragment /\ DOMAIN data[g] = Key
  BY Places DEF Typed
<1>1. CASE data' = data
  BY <1>1 DEF Cell
<1>2. ASSUME NEW w \in Worker, PutSync(w) \/ PutAsync(w) PROVE Cell(i, j)
  <2>1. PICK e : data' = Stored(<<Primary, proc[w].f>>, proc[w].key, e)
    BY Zenon, <1>2 DEF PutSync, PutAsync, FragmentOf
  <2>2. data'[g][j] = IF g = <<Primary, proc[w].f>> /\ j = proc[w].key THEN e ELSE data[g][j]
    BY <1>0, <2>1, StoredEffect
  <2>3. QED
    BY <1>2, <2>2 DEF Cell
<1>3. ASSUME NEW w \in Worker, DelFinish(w), data' # data PROVE Cell(i, j)
  <2>1. data' = Stored(<<Primary, proc[w].df>>, proc[w].dkey, None)
    BY <1>3 DEF DelFinish
  <2>2. data'[g][j] = IF g = <<Primary, proc[w].df>> /\ j = proc[w].dkey THEN None ELSE data[g][j]
    BY <1>0, <2>1, StoredEffect
  <2>3. QED
    BY <1>3, <2>2 DEF Cell
<1>4. ASSUME NEW r \in net, putOnReplicaFragment(r) \/ delEntryCommandHandler(r) PROVE Cell(i, j)
  <2>1. Sent(r) /\ r.op \in {"put", "del"}
    BY Zenon, <1>4 DEF BaseInv, putOnReplicaFragment, delEntryCommandHandler
  <2>2. To(r) # Primary
    BY <2>1, Places DEF Sent, To, Primary
  <2>3. data' = data \/ \E n, k, e : data' = Stored(<<To(r), n>>, k, e)
    BY Zenon, <1>4 DEF putOnReplicaFragment, delEntryCommandHandler, deleteFromFragment, At
  <2>4. ASSUME NEW n, NEW k, NEW e, data' = Stored(<<To(r), n>>, k, e) PROVE Cell(i, j)
    <3>1. data'[g][j] = IF g = <<To(r), n>> /\ j = k THEN e ELSE data[g][j]
      BY <1>0, <2>4, StoredEffect
    <3>2. QED
      BY <2>2, <3>1 DEF Cell
  <2>5. QED
    BY Zenon, <1>1, <2>3, <2>4
<1>5. ASSUME NEW r \in net, mergeFragments(r) PROVE Cell(i, j)
  <2>1. Sent(r) /\ r.op = "merge" /\ conf \in Deployments
    BY Zenon, <1>5 DEF BaseInv, mergeFragments
  <2>2. ~(r.waits /\ g = r.src)
    BY <2>1, Places, Sequences DEF Sent
  <2>3. CASE g = <<To(r), r.f>>
    <3>1. data'[g] = [k \in Key |-> fragmentMergeFunction(data[g][k], r.table[k])]
      BY <1>0, <1>5, <2>2, <2>3, MergeEffect
    <3>2. data'[g][j] = fragmentMergeFunction(data[g][j], r.table[j]) /\ To(r) = Primary /\ r.f = i
      BY <2>3, <3>1
    <3>3. QED
      BY <1>5, <3>2 DEF Cell
  <2>4. CASE g # <<To(r), r.f>>
    <3>1. data'[g] = data[g]
      BY Zenon, <1>0, <1>5, <2>2, <2>4, MergeEffect
    <3>2. QED
      BY <3>1 DEF Cell
  <2>5. QED
    BY <2>3, <2>4
<1>6. ASSUME NEW w, Locks(w) \/ PutAbort(w) PROVE data' = data
  BY <1>6, Zenon DEF Locks, prepareWrite, DelLock, EvictLock, PutAbort, fragVars
<1>7. ASSUME NEW w \in Worker, PutSingle(w) \/ RepairStore(w) PROVE Cell(i, j)
  BY <1>7 DEF Cell
<1>8. QED
  BY <1>1, <1>2, <1>3, <1>4, <1>5, <1>6, <1>7, StepCases DEF Still, Unlocks, Receives

-----------------------------------------------------------------------------
(* Entries are entries.                                                    *)

LEMMA PreparedEntry ==
    ASSUME BaseInv, NEW w \in Worker, NEW current \in Slot, proc[w].do = "expire" => current # None
    PROVE  prepareEntry(w, current) \in Entry
<1>1. clock + 1 \in Nat \ {0} /\ prepareTTL(w) \in BOOLEAN
  BY DeploymentAssumption DEF BaseInv, Asks, prepareTTL
<1>2. proc[w].do = "expire" => current.val \in Nat
  BY DEF Slot, Entry
<1>3. QED
  BY <1>1, <1>2 DEF prepareEntry, Entry

LEMMA PutEntry ==
    ASSUME NEW w, NEW current \in Slot, NEW e \in Entry, proc[w].do = "expire" => current # None
    PROVE  /\ putEntryOnFragment(w, current, e) \in Entry
           /\ putEntryOnFragment(w, current, e).ts = e.ts
           /\ putEntryOnFragment(w, current, e) # None
  BY EntryAssumption DEF putEntryOnFragment, Slot, Entry

LEMMA OwnCell ==
    ASSUME BaseInv, Typed, NEW w \in Worker, Loads(proc[w])
    PROVE  /\ FragmentOf(w) \in Fragment /\ data[FragmentOf(w)] \in [Key -> Slot]
           /\ proc[w].key \in Key => Current(w) \in Slot
<1>1. proc[w].f \in 1 .. MaxFragments
  BY DEF BaseInv, WriteInv, ProcOK, Rec
<1>2. QED
  BY <1>1, Places DEF FragmentOf, Current, Typed

LEMMA TypedStep ==
    ASSUME BaseInv, DataInv, Quiet, [Next]_vars
    PROVE  Typed'
<1>0. /\ Typed /\ (\A w \in Worker : WriteTyped(w) /\ ReadTyped(proc[w]))
      /\ (\A r \in net : MessageTyped(r)) /\ (\A w \in Worker : Asks(proc[w]))
  BY DEF DataInv, BaseInv
<1>1. CASE data' = data
  BY <1>0, <1>1 DEF Typed
<1>2. ASSUME NEW w \in Worker, PutSync(w) \/ PutAsync(w) PROVE Typed'
  <2>1. proc[w].pc \in Storing
    BY <1>2, Zenon DEF PutSync, PutAsync, Busy, Storing
  <2>2. Current(w) \in Slot /\ proc[w].e \in Entry /\ (proc[w].do = "expire" => Current(w) # None)
    BY <1>0, <2>1, OwnCell DEF WriteTyped, Asks, Loads
  <2>3. putEntryOnFragment(w, Current(w), proc[w].e) \in Slot
    BY Zenon, <2>2, PutEntry DEF Slot
  <2>4. QED
    BY Zenon, <1>0, <1>2, <2>3, StoredTyped DEF PutSync, PutAsync
<1>3. ASSUME NEW w, DelFinish(w) PROVE Typed'
  <2>1. data' = data \/ data' = Stored(<<Primary, proc[w].df>>, proc[w].dkey, None)
    BY <1>3 DEF DelFinish
  <2>2. QED
    BY <1>0, <1>1, <2>1, StoredTyped DEF Slot
<1>4. ASSUME NEW r \in net, putOnReplicaFragment(r) PROVE Typed'
  <2>1. r.e \in Slot
    BY <1>0, <1>4 DEF putOnReplicaFragment, MessageTyped, Slot
  <2>2. QED
    BY <1>0, <1>4, <2>1, StoredTyped DEF putOnReplicaFragment
<1>5. ASSUME NEW r \in net, delEntryCommandHandler(r) PROVE Typed'
  <2>1. data' = data \/ data' = Stored(At(To(r)), r.key, None)
    BY <1>5 DEF delEntryCommandHandler, deleteFromFragment
  <2>2. QED
    BY <1>0, <1>1, <2>1, StoredTyped DEF Slot
<1>6. ASSUME NEW r \in net, mergeFragments(r) PROVE Typed'
  <2>1. r.table \in [Key -> Slot] /\ DOMAIN data = Fragment
    BY <1>0, <1>6 DEF mergeFragments, MessageTyped, Typed
  <2>2. ASSUME NEW g \in Fragment PROVE data'[g] \in [Key -> Slot]
    <3>1. Empty \in [Key -> Slot] /\ data[g] \in [Key -> Slot]
      BY <1>0 DEF Empty, Slot, Typed
    <3>2. [k \in Key |-> fragmentMergeFunction(data[g][k], r.table[k])] \in [Key -> Slot]
      BY <2>1, <3>1 DEF fragmentMergeFunction
    <3>3. QED
      BY Zenon, <1>6, <2>1, <3>1, <3>2, MergeEffect
  <2>3. DOMAIN data' = Fragment /\ data' = [g \in Fragment |-> data'[g]]
    BY Zenon, <1>6, <2>1 DEF mergeFragments, Dropped
  <2>4. QED
    BY <2>2, <2>3 DEF Typed
<1>7. ASSUME NEW w \in Worker, PutSingle(w) PROVE Typed'
  <2>1. proc[w].pc = "write"
    BY Zenon, <1>7 DEF PutSingle, Busy
  <2>2. FragmentOf(w) \in Fragment /\ data[FragmentOf(w)] \in [Key -> Slot] /\ proc[w].key \in Key
    BY Zenon, <1>0, <2>1, OwnCell DEF Asks, Loads
  <2>3. ASSUME NEW victims, SingleWrite(w, victims) PROVE Typed'
    <3> DEFINE f == FragmentOf(w)
               k == proc[w].key
               kept == [x \in Key |-> IF x \in victims THEN None ELSE data[f][x]]
               new == IF Updatable(w, kept[k]) THEN [kept EXCEPT ![k] = prepareEntry(w, kept[k])] ELSE kept
    <3>1. kept \in [Key -> Slot]
      BY <2>2 DEF Slot
    <3>2. data' = [data EXCEPT ![f] = new]
      BY <2>3 DEF SingleWrite
    <3> HIDE DEF kept
    <3>3. new \in [Key -> Slot]
      <4>1. Updatable(w, kept[k]) => prepareEntry(w, kept[k]) \in Slot
        BY <2>2, <3>1, PreparedEntry DEF Updatable, Slot
      <4>2. QED
        BY Zenon, <3>1, <4>1
    <3> HIDE DEF new
    <3>4. QED
      BY Zenon, <1>0, <3>2, <3>3 DEF Typed
  <2>4. QED
    BY <1>1, <1>7, <2>3, SingleEffect DEF Still
<1>8. ASSUME NEW w \in Worker, RepairStore(w) PROVE FALSE
  BY <1>0, <1>8 DEF RepairStore, Busy, ReadTyped
<1>9. ASSUME NEW w, Locks(w) \/ PutAbort(w) PROVE data' = data
  BY <1>9, Zenon DEF Locks, prepareWrite, DelLock, EvictLock, PutAbort, fragVars
<1>10. QED
  BY <1>1, <1>2, <1>3, <1>4, <1>5, <1>6, <1>7, <1>8, <1>9, StepCases DEF Still, Unlocks, Receives

\* While a write holds its key lock, only a table that is merged changes the entry.
Undisturbed(x) ==
    \/ Current(x)' = Current(x)
    \/ \E r \in net : /\ mergeFragments(r) /\ To(r) = Primary
                      /\ Current(x)' = fragmentMergeFunction(Current(x), r.table[proc[x].key])

LEMMA UndisturbedWrite ==
    ASSUME BaseInv, LockInv, DataInv, Quiet, [Next]_vars, NEW x \in Worker,
           proc[x].pc \in Storing, proc'[x].pc \in Storing
    PROVE  /\ proc'[x].do = proc[x].do /\ proc'[x].key = proc[x].key /\ proc'[x].e = proc[x].e
           /\ proc'[x].cond = proc[x].cond /\ proc'[x].f = proc[x].f
           /\ Undisturbed(x)
<1>0. /\ ProcOK /\ conf \in Deployments /\ Typed
      /\ (\A w \in Worker : Asks(proc[w])) /\ (\A w \in Worker : ReadTyped(proc[w]))
  BY DEF BaseInv, WriteInv, DataInv
<1>1. ~prepareWrite(x)
  BY DEF prepareWrite, Busy, Storing
<1>2. /\ proc'[x].do = proc[x].do /\ proc'[x].key = proc[x].key /\ proc'[x].e = proc[x].e
      /\ proc'[x].cond = proc[x].cond /\ proc'[x].f = proc[x].f
  BY <1>0, <1>1, AllEntered DEF Entered
<1> DEFINE i == proc[x].f
           j == proc[x].key
<1>3. i \in 1 .. MaxFragments /\ j \in Key /\ ~Single /\ keyLock[j] = x
  BY <1>0 DEF BaseInv, WriteInv, ProcOK, Rec, Loads, Asks, LockInv
<1>4. Current(x) = data[<<Primary, i>>][j] /\ Current(x)' = data'[<<Primary, i>>][j]
  BY <1>2 DEF Current, FragmentOf
<1> HIDE DEF i, j
<1>5. ASSUME NEW w \in Worker, PutSingle(w) \/ RepairStore(w) PROVE FALSE
  <2>1. CASE PutSingle(w)
    BY Zenon, <1>0, <1>3, <2>1 DEF PutSingle, Busy, Asks
  <2>2. CASE RepairStore(w)
    BY <1>0, <2>2 DEF RepairStore, Busy, ReadTyped
  <2>3. QED
    BY <1>5, <2>1, <2>2
<1>6. ASSUME NEW w \in Worker, PutSync(w) \/ PutAsync(w), proc[w].key = j PROVE FALSE
  <2>1. proc[w].pc \in Storing
    BY <1>6, Zenon DEF PutSync, PutAsync, Busy, Storing
  <2>2. w = x
    BY <1>3, <1>6, <2>1 DEF LockInv
  <2>3. proc'[x] = Idle
    BY Zenon, <1>0, <1>6, <2>2, Ends DEF PutSync, PutAsync
  <2>4. QED
    BY <2>3, IdleAsks
<1>7. ASSUME NEW w \in Worker, DelFinish(w), proc[w].dkey = j PROVE FALSE
  <2>1. proc[w].pc \in Deleting
    BY <1>7 DEF DelFinish, Busy, Deleting
  <2>2. w = x
    BY <1>3, <1>7, <2>1 DEF LockInv
  <2>3. QED
    BY <2>1, <2>2 DEF Storing, Deleting
<1>8. Cell(i, j)
  BY <1>0, <1>3, Cells
<1>9. Undisturbed(x)
  BY Zenon, <1>4, <1>5, <1>6, <1>7, <1>8 DEF Cell, Undisturbed, j
<1>10. QED
  BY <1>2, <1>9

LEMMA WriteTypedStep ==
    ASSUME BaseInv, LockInv, DataInv, Quiet, [Next]_vars, NEW x \in Worker
    PROVE  WriteTyped(x)'
<1>0. ProcOK /\ conf \in Deployments /\ Typed /\ (\A w \in Worker : Asks(proc[w])) /\ WriteTyped(x)
  BY Zenon DEF BaseInv, WriteInv, DataInv
<1> SUFFICES ASSUME proc'[x].pc \in Storing
             PROVE  proc'[x].e \in Entry /\ (proc'[x].do = "expire" => Current(x)' # None)
  BY DEF WriteTyped
<1>1. CASE prepareWrite(x)
  <2>1. Prepared(x)
    BY <1>0, <1>1, PrepareEffect, IdleAsks
  <2>2. Current(x)' = Current(x)
    BY <2>1 DEF Prepared, Current, FragmentOf
  <2>3. Current(x) \in Slot /\ (proc[x].do = "expire" => Current(x) # None)
    BY Zenon, <1>0, <2>1, OwnCell DEF Prepared, Asks, Loads, Updatable
  <2>4. QED
    BY <2>1, <2>2, <2>3, PreparedEntry DEF Prepared
<1>2. CASE proc[x].pc \in Storing
  <2>1. proc'[x].do = proc[x].do /\ proc'[x].e = proc[x].e /\ Undisturbed(x)
    BY <1>2, UndisturbedWrite
  <2>2. Current(x) # None => Current(x)' # None
    BY <2>1 DEF Undisturbed, fragmentMergeFunction
  <2>3. QED
    BY <1>0, <1>2, <2>1, <2>2 DEF WriteTyped
<1>3. QED
  BY Zenon, <1>0, <1>1, <1>2, AllEntered DEF Entered

\* A read that found only the owner's version has nothing to repair.
LEMMA LoneVersion ==
    ASSUME NEW e \in Slot, NEW vers, vers = <<Version(Owner, e)>>, Sane(vers) # {}
    PROVE  Stale(vers, sortVersions(vers)) = {}
<1>1. DOMAIN vers = {1} /\ vers[1].e = e
  BY DEF Version
<1>2. e # None
  BY <1>1 DEF Sane
<1>3. Sane(vers) = {1} /\ e.ts \in Nat
  BY <1>1, <1>2 DEF Sane, Slot, Entry
<1>4. {i \in Sane(vers) : \A j \in Sane(vers) : vers[j].e.ts <= vers[i].e.ts} = {1}
  BY <1>1, <1>3
<1>5. sortVersions(vers) = vers[1]
  BY <1>4 DEF sortVersions
<1>6. Range(vers) = {vers[1]}
  BY <1>1 DEF Range
<1>7. QED
  BY <1>1, <1>2, <1>5, <1>6 DEF Stale

LEMMA ReadTypedStep ==
    ASSUME BaseInv, DataInv, Quiet, [Next]_vars, NEW x \in Worker
    PROVE  ReadTyped(proc[x])'
<1>0. /\ ProcOK /\ conf \in Deployments /\ Typed /\ conf' = conf
      /\ (\A w \in Worker : Asks(proc[w])) /\ ReadTyped(proc[x]) /\ Rec(proc[x])
  BY Zenon, SameConf DEF BaseInv, WriteInv, DataInv, ProcOK
<1>1. ASSUME proc'[x].pc \in Reading => ReadTyped(proc'[x]) PROVE ReadTyped(proc[x])'
  BY <1>0, <1>1 DEF ReadTyped, Reading
<1>2. CASE proc'[x].pc \notin Reading
  BY <1>1, <1>2
<1>3. CASE /\ proc'[x].pc = proc[x].pc /\ proc'[x].vers = proc[x].vers
           /\ proc'[x].todo \subseteq proc[x].todo
  <2>1. ReadTyped(proc'[x])
    BY <1>0, <1>3 DEF ReadTyped
  <2>2. QED
    BY <1>1, <2>1
<1>4. ASSUME NEW rec, Become(x, rec), ReadTyped(rec) PROVE ReadTyped(proc[x])'
  BY <1>0, <1>1, <1>4, Becomes
<1>5. ASSUME conf.repair PROVE Backups = {} /\ Prevs = {}
  BY <1>5 DEF Quiet, Single, Backups, Prevs, Range
<1>6. CASE lookupOnThisNode(x)
  <2> DEFINE e == Held(Primary, proc[x].key)
             rec == [proc[x] EXCEPT !.vers = <<Version(Owner, e)>>, !.todo = LiveOwners, !.pc = "owners"]
  <2>1. e \in Slot
    <3>1. proc[x].key \in Key
      BY <1>0, <1>6 DEF lookupOnThisNode, Busy, Asks
    <3>2. part[Primary] # 0 => At(Primary) \in Fragment
      BY Places DEF At, BaseInv, WriteInv, PartOK
    <3>3. QED
      BY <1>0, <3>1, <3>2 DEF Held, Typed, Slot
  <2>2. Become(x, rec)
    BY <1>6 DEF lookupOnThisNode
  <2> HIDE DEF e
  <2>3. rec.pc = "owners" /\ rec.todo = LiveOwners /\ rec.vers = <<Version(Owner, e)>>
    BY <1>0 DEF Rec, Fields
  <2>4. rec.vers[1].e = e
    BY <2>3 DEF Version
  <2>5. conf.repair => LiveOwners = {}
    BY <1>5 DEF LiveOwners
  <2> HIDE DEF rec
  <2>6. ReadTyped(rec)
    BY <2>1, <2>3, <2>4, <2>5 DEF ReadTyped
  <2>7. QED
    BY <1>4, <2>2, <2>6
<1>7. CASE lookupOnReplicas(x)
  <2> DEFINE rec == [proc[x] EXCEPT !.todo = Backups \cap member, !.pc = "replicas"]
  <2>1. Become(x, rec) /\ proc[x].pc = "owners"
    BY <1>7 DEF lookupOnReplicas, Busy
  <2>2. rec.pc = "replicas" /\ rec.todo = Backups \cap member /\ rec.vers = proc[x].vers
    BY <1>0 DEF Rec, Fields
  <2> HIDE DEF rec
  <2>3. ReadTyped(rec)
    BY <1>0, <1>5, <2>1, <2>2 DEF ReadTyped
  <2>4. QED
    BY <1>4, <2>1, <2>3
<1>8. CASE getOnCluster(x)
  <2> DEFINE vers == proc[x].vers
             winner == sortVersions(vers)
             rec == [proc[x] EXCEPT !.e = winner.e, !.todo = Stale(vers, winner), !.pc = "repair"]
  <2>1. CASE Become(x, Idle)
    BY <1>0, <1>2, <2>1, Ends, IdleAsks
  <2>2. CASE ~Fails(x) /\ ~Misses(x) /\ conf.repair
    <3>1. proc[x].pc = "replicas" /\ Become(x, rec)
      BY Zenon, <1>8, <2>2 DEF getOnCluster, Busy
    <3>2. rec.todo = Stale(vers, winner) /\ rec.pc = "repair"
      BY <1>0 DEF Rec, Fields
    <3>3. vers[1].e \in Slot /\ vers = <<Version(Owner, vers[1].e)>>
      BY <1>0, <2>2, <3>1 DEF ReadTyped
    <3>4. Sane(vers) # {}
      BY <2>2 DEF Misses
    <3> HIDE DEF vers, rec
    <3>5. Stale(vers, winner) = {}
      BY <3>3, <3>4, LoneVersion
    <3>6. ReadTyped(rec)
      BY <3>2, <3>5 DEF ReadTyped
    <3>7. QED
      BY <1>4, <3>1, <3>6
  <2>3. QED
    BY Zenon, <1>8, <2>1, <2>2 DEF getOnCluster
<1>9. CASE RepairLoad(x) \/ RepairStore(x)
  BY <1>0, <1>9 DEF RepairLoad, RepairStore, Busy, ReadTyped
<1>10. CASE GetReturn(x)
  BY <1>0, <1>2, <1>10, Ends, IdleAsks DEF GetReturn
<1>11. ASSUME NEW h, NEW fails, getOnFragment(x, h, fails) PROVE ReadTyped(proc[x])'
  <2>1. PICK vers, err : Become(x, [proc[x] EXCEPT !.todo = @ \ {h}, !.err = err, !.vers = vers])
    BY Zenon, <1>0, <1>11 DEF getOnFragment, Rec, Fields
  <2> DEFINE rec == [proc[x] EXCEPT !.todo = @ \ {h}, !.err = err, !.vers = vers]
  <2>2. rec.pc = proc[x].pc
    BY <1>0 DEF Rec, Fields
  <2>3. proc[x].pc \in {"owners", "replicas"} /\ h \in proc[x].todo
    BY <1>11 DEF getOnFragment
  <2> HIDE DEF rec
  <2>4. ReadTyped(rec)
    BY <1>0, <2>2, <2>3 DEF ReadTyped
  <2>5. QED
    BY <1>4, <2>1, <2>4 DEF rec
<1>12. CASE Get(x)
  BY <1>6, <1>7, <1>8, <1>9, <1>10, <1>11, <1>12 DEF Get
<1>13. QED
  BY Zenon, <1>0, <1>2, <1>3, <1>12, AllEntered DEF Entered

LEMMA MessageTypedStep ==
    ASSUME BaseInv, DataInv, Quiet, [Next]_vars, NEW s \in net'
    PROVE  MessageTyped(s)
<1>0. /\ ProcOK /\ conf \in Deployments /\ Typed /\ (\A r \in net : Sent(r) /\ MessageTyped(r))
      /\ (\A w \in Worker : Asks(proc[w]) /\ WriteTyped(w))
  BY DEF BaseInv, WriteInv, DataInv
<1>1. ASSUME NEW r \in net, Like(r, s) PROVE MessageTyped(s)
  BY <1>0, <1>1 DEF Like, MessageTyped
<1>2. ASSUME NEW w \in Worker, FreshPut(w, s) PROVE MessageTyped(s)
  <2>1. proc[w].pc \in Storing
    BY <1>2, Zenon DEF FreshPut, PutSend, PutAsync, Busy, Storing
  <2>2. QED
    BY <1>0, <1>2, <2>1 DEF FreshPut, WriteTyped, MessageTyped
<1>3. ASSUME NEW w \in Worker, FreshRepair(w, s) PROVE FALSE
  BY <1>3, ReadTypedStep DEF FreshRepair, ReadTyped
<1>4. ASSUME NEW w \in Worker, FreshDel(w, s) PROVE MessageTyped(s)
  BY <1>4 DEF FreshDel, MessageTyped
<1>5. ASSUME NEW m \in Others, FreshMove(m, s) PROVE MessageTyped(s)
  <2>1. part[<<m, "primary">>] = 1
    BY <1>5 DEF FreshMove, moveTable, BaseInv
  <2>2. s.src \in Fragment
    BY <1>5, <2>1, Places DEF FreshMove, At
  <2>3. QED
    BY <1>0, <1>5, <2>2 DEF FreshMove, MessageTyped, Typed
<1>6. ASSUME NEW m \in Others, FreshPush(m, s) PROVE MessageTyped(s)
  <2>1. part[Primary] \in 1 .. MaxFragments
    BY <1>6 DEF FreshPush, Replicate, BaseInv, WriteInv, PartOK
  <2>2. At(Primary) \in Fragment
    BY <2>1, Places DEF At
  <2>3. QED
    BY <1>0, <1>6, <2>2 DEF FreshPush, MessageTyped, Typed
<1>7. QED
  BY <1>0, <1>1, <1>2, <1>3, <1>4, <1>5, <1>6, NetSteps DEF Fresh

LEMMA DataStep == ASSUME BaseInv, LockInv, DataInv, [Next]_vars PROVE DataInv'
<1>1. Quiet' <=> Quiet
  BY SameConf DEF Quiet, Single
<1>2. QED
  BY <1>1, TypedStep, WriteTypedStep, ReadTypedStep, MessageTypedStep DEF DataInv, MessageTyped

LEMMA DataInit == Init => DataInv
<1> SUFFICES ASSUME Init PROVE DataInv
  OBVIOUS
<1>1. \A w \in Worker : WriteTyped(w) /\ ReadTyped(proc[w])
  BY Zenon DEF Init, WriteTyped, ReadTyped, Idle, Storing
<1>2. [ts |-> 1, val |-> 1, ttl |-> FALSE] \in Slot /\ None \in Slot
  BY DEF Slot, Entry
<1>3. Typed
  BY <1>2 DEF Init, Typed
<1>4. QED
  BY <1>1, <1>3 DEF Init, DataInv

-----------------------------------------------------------------------------
(* Conditional writes.                                                     *)

\* What a conditional write found under the lock of its key stays so.
NXInv ==
    conf.prevs = <<>> /\ ~conf.repair =>
        \A w \in Worker :
            proc[w].pc \in Storing /\ proc[w].cond = "nx"
                => Current(w) = None \/ isKeyExpired(Current(w))

LEMMA LapsedGrows == ASSUME [Next]_vars PROVE lapsed \subseteq lapsed'
<1>1. CASE UNCHANGED vars
  BY <1>1 DEF vars, timeVars
<1>2. ASSUME NEW w \in Worker, Put(w) PROVE lapsed' = lapsed
  BY Zenon, <1>2 DEF Put, PutLoad, PutSingle, evictForWrite, prepareWrite, PutSend, PutAbort, PutSync, PutAsync,
              timeVars
<1>3. ASSUME NEW w \in Worker, Delete(w) PROVE lapsed' = lapsed
  BY Zenon, <1>3 DEF Delete, DelLoad, DelLock, EvictLock, deleteFromPreviousOwners, deleteBackupOnCluster,
              DelFinish, timeVars
<1>4. ASSUME NEW w \in Worker, Get(w) PROVE lapsed' = lapsed
  BY Zenon, <1>4 DEF Get, lookupOnThisNode, lookupOnReplicas, getOnCluster, RepairLoad, RepairStore, GetReturn,
              getOnFragment, timeVars
<1>5. ASSUME NEW w, NEW k, EvictSample(w, k) \/ \E r \in Request : Requested(w, r, k)
      PROVE  lapsed' = lapsed
  BY Zenon, <1>5 DEF EvictSample, Requested, putCommandHandler, expireCommandHandler, delCommandHandler,
              getCommandHandler, Redirect, Serves, timeVars
<1>6. ASSUME NEW r, Serve(r) PROVE lapsed' = lapsed
  BY Zenon, <1>6 DEF Serve, putEntryCommandHandler, moveFragmentCommandHandler, ServeLoad, putOnReplicaFragment,
              mergeFragments, delEntryCommandHandler, timeVars
<1>7. ASSUME NEW r, NEW arrives, Fail(r, arrives) PROVE lapsed' = lapsed
  BY <1>7 DEF Fail, timeVars
<1>8. ASSUME NEW m, Crash(m) \/ Notice(m) \/ moveTable(m) \/ Replicate(m) PROVE lapsed' = lapsed
  BY Zenon, <1>8 DEF Crash, Notice, moveTable, Replicate, timeVars
<1>9. ASSUME NEW p, janitor(p) PROVE lapsed' = lapsed
  BY <1>9 DEF janitor, timeVars
<1>10. ASSUME NEW t, Lapse(t) PROVE lapsed \subseteq lapsed'
  BY <1>10 DEF Lapse
<1> HIDE DEF Requested
<1>11. QED
  BY <1>1, <1>2, <1>3, <1>4, <1>5, <1>6, <1>7, <1>8, <1>9, <1>10, Zenon DEF Next, Requested

LEMMA NXStep == ASSUME BaseInv, LockInv, DataInv, NXInv, [Next]_vars PROVE NXInv'
<1>0. /\ ProcOK /\ conf \in Deployments /\ conf' = conf /\ lapsed \subseteq lapsed'
      /\ \A w \in Worker : Asks(proc[w])
  BY Zenon, SameConf, LapsedGrows DEF BaseInv, WriteInv
<1> SUFFICES ASSUME conf.prevs = <<>>, ~conf.repair, NEW x \in Worker,
                    proc'[x].pc \in Storing, proc'[x].cond = "nx"
             PROVE  Current(x)' = None \/ isKeyExpired(Current(x))'
  BY <1>0 DEF NXInv
<1>1. ASSUME Current(x)' = Current(x), Current(x) = None \/ isKeyExpired(Current(x))
      PROVE  Current(x)' = None \/ isKeyExpired(Current(x))'
  BY <1>0, <1>1 DEF isKeyExpired
<1>2. CASE prepareWrite(x)
  <2>1. Prepared(x)
    BY <1>0, <1>2, PrepareEffect, IdleAsks
  <2>2. Current(x)' = Current(x)
    BY <2>1 DEF Prepared, Current, FragmentOf
  <2>3. Current(x) = None \/ isKeyExpired(Current(x))
    BY <2>1 DEF Prepared, checkPutConditions
  <2>4. QED
    BY <1>1, <2>2, <2>3
<1>3. CASE proc[x].pc \in Storing
  <2>1. Quiet
    BY DEF Quiet
  <2>2. proc[x].cond = "nx" /\ Undisturbed(x)
    BY <1>3, <2>1, UndisturbedWrite
  <2>3. ASSUME NEW r \in net, mergeFragments(r), To(r) = Primary PROVE FALSE
    <3>1. Sent(r) /\ r.op = "merge" /\ r.kind = "primary"
      BY Zenon, <2>3 DEF BaseInv, mergeFragments, To, Primary
    <3>2. r.by \in Prevs
      BY <3>1 DEF Sent
    <3>3. QED
      BY <3>2 DEF Prevs, Range
  <2>4. Current(x)' = Current(x)
    BY <2>2, <2>3 DEF Undisturbed
  <2>5. QED
    BY <1>1, <1>3, <2>2, <2>4 DEF NXInv
<1>4. QED
  BY <1>0, <1>2, <1>3, AllEntered DEF Entered

-----------------------------------------------------------------------------
(* Acknowledged writes.                                                    *)

Keeps == ~conf.repair /\ ~(Single /\ conf.evict)

\* A write is newer than what was acknowledged before it; from its check on a
\* delete has discarded what was acknowledged.
Ahead(w) == proc[w].pc \in Storing => must[proc[w].key] < proc[w].e.ts
Discards(w) ==
    proc[w].pc \in Deleting => must[proc[w].dkey] # 1 /\ (~Single => must[proc[w].dkey] = 0)

\* Previous owners hold, and send, only what they held from the start.
Old(t) == \A k \in Key : t[k] # None => t[k].ts = 1
OldCopies == \A m \in Others, i \in 1 .. MaxFragments : Old(data[<<<<m, "primary">>, i>>])
Carries(r) ==
    /\ r.op = "merge" /\ r.kind = "primary" => Old(r.table)
    /\ r.op = "del" => must[r.key] # 1

\* A table on its way is the one its sender holds under lock, and the only one.
Moves(r) == r.op = "merge" /\ r.waits
Locked(r) == Moves(r) => r.src \in frozen /\ r.table = data[r.src]
OneMove == \A r, s \in net : Moves(r) /\ Moves(s) /\ r.src = s.src => r = s

\* The owner has what was acknowledged, and somebody what was there from the start.
Kept(m, k) == Held(<<m, "primary">>, k) # None /\ Held(<<m, "primary">>, k).ts >= must[k]
OwnerHas(k) == must[k] > 1 /\ must[k] \notin stray => Kept(Owner, k)
SomeoneHas(k) ==
    must[k] = 1 /\ 1 \notin stray /\ Prevs \subseteq up => \E m \in {Owner} \cup Prevs : Kept(m, k)

KeptInv ==
    Keeps => /\ \A w \in Worker : Ahead(w) /\ Discards(w)
             /\ OldCopies /\ OneMove
             /\ \A r \in net : Carries(r) /\ Locked(r)
             /\ \A k \in Key : OwnerHas(k) /\ SomeoneHas(k)

\* How the acknowledged write of a key changes.
MustChange(k) ==
    \/ must'[k] = must[k] \/ must'[k] = 0
    \/ \E w \in Worker : PutSingle(w) /\ must'[k] = clock + 1
    \/ \E w \in Worker : (PutSync(w) \/ PutAsync(w)) /\ proc[w].key = k /\ must'[k] = proc[w].e.ts

LEMMA MustChanges == ASSUME BaseInv, [Next]_vars, NEW k \in Key PROVE MustChange(k)
<1>0. /\ ProcOK /\ conf \in Deployments /\ DOMAIN must = Key
      /\ \A w \in Worker : Asks(proc[w]) /\ (proc[w].pc \in Storing => Stamped(proc[w].e))
  BY DEF BaseInv, WriteInv
<1>1. CASE must' = must
  BY <1>1 DEF MustChange
<1>2. ASSUME NEW j, must' = [must EXCEPT ![j] = 0] PROVE MustChange(k)
  BY <1>0, <1>2 DEF MustChange
<1>3. ASSUME NEW w \in Worker, Locks(w) PROVE MustChange(k)
  <2>1. CASE Prepared(w)
    BY <1>1, <2>1 DEF Prepared
  <2>2. CASE Condemned(w)
    BY Zenon, <1>2, <2>2 DEF Condemned, Doomed
  <2>3. QED
    BY <1>0, <1>1, <1>3, <2>1, <2>2, PrepareEffect, CondemnEffect DEF Locks, Still
<1>4. ASSUME NEW w \in Worker, PutSync(w) \/ PutAsync(w) PROVE MustChange(k)
  <2>1. proc[w].pc \in Storing
    BY Zenon, <1>4 DEF PutSync, PutAsync, Busy, Storing
  <2>2. Stamped(proc[w].e)
    BY <1>0, <2>1
  <2>3. must' = must \/ must' = [must EXCEPT ![proc[w].key] = proc[w].e.ts]
    <3>1. CASE PutSync(w)
      BY <3>1 DEF PutSync
    <3>2. CASE PutAsync(w)
      <4> DEFINE e == putEntryOnFragment(w, Current(w), proc[w].e)
      <4>1. must' = must \/ (e # None /\ must' = [must EXCEPT ![proc[w].key] = e.ts])
        BY Zenon, <3>2 DEF PutAsync, Acked
      <4>2. e # None => e.ts = proc[w].e.ts
        BY <2>2, StoredStamp
      <4> HIDE DEF e
      <4>3. QED
        BY <4>1, <4>2
    <3>3. QED
      BY <1>4, <3>1, <3>2
  <2>4. CASE must' = [must EXCEPT ![proc[w].key] = proc[w].e.ts]
    <3>1. must'[k] = IF k = proc[w].key THEN proc[w].e.ts ELSE must[k]
      BY <1>0, <2>4
    <3>2. QED
      BY <1>4, <3>1 DEF MustChange
  <2>5. QED
    BY <1>1, <2>3, <2>4
<1>5. ASSUME NEW w \in Worker, DelFinish(w) \/ PutAbort(w) PROVE MustChange(k)
  BY <1>1, <1>2, <1>5 DEF DelFinish, PutAbort
<1>6. ASSUME NEW w \in Worker, PutSingle(w) PROVE MustChange(k)
  <2>1. ASSUME NEW victims, SingleWrite(w, victims) PROVE must'[k] \in {clock + 1, 0, must[k]}
    BY <2>1 DEF SingleWrite
  <2>2. QED
    BY <1>1, <1>6, <2>1, SingleEffect DEF MustChange, Still
<1>7. ASSUME NEW w \in Worker, RepairStore(w) PROVE MustChange(k)
  BY <1>1, <1>7 DEF RepairStore
<1>8. ASSUME NEW r, Receives(r) PROVE MustChange(k)
  BY Zenon, <1>1, <1>8 DEF Receives, putOnReplicaFragment, mergeFragments, delEntryCommandHandler, histVars
<1>9. QED
  BY <1>1, <1>3, <1>4, <1>5, <1>6, <1>7, <1>8, StepCases DEF Still, Unlocks

\* Nobody acknowledges what was there from the start.
LEMMA Ones ==
    ASSUME BaseInv, [Next]_vars, NEW k \in Key, must'[k] = 1
    PROVE  must[k] = 1
<1>1. ASSUME NEW w \in Worker, PutSync(w) \/ PutAsync(w) PROVE proc[w].e.ts \in Nat /\ 1 < proc[w].e.ts
  <2>1. proc[w].pc \in Storing
    BY Zenon, <1>1 DEF PutSync, PutAsync, Busy, Storing
  <2>2. QED
    BY <2>1 DEF BaseInv, Stamped
<1>2. clock \in Nat \ {0}
  BY DEF BaseInv
<1>3. QED
  BY <1>1, <1>2, MustChanges DEF MustChange

\* What happens to an entry of a previous owner.
OldCell(m, i, j) ==
    LET g == <<<<m, "primary">>, i>> IN
    \/ data'[g][j] = data[g][j]
    \/ data'[g][j] = None /\ \E r \in net : delEntryCommandHandler(r) /\ r.key = j /\ g \notin frozen
    \/ data'[g][j] = None /\ \E r \in net : mergeFragments(r) /\ r.waits /\ g = r.src

LEMMA OldCells ==
    ASSUME BaseInv, Typed, [Next]_vars, NEW m \in Others, NEW i \in 1 .. MaxFragments, NEW j \in Key
    PROVE  OldCell(m, i, j)
<1> DEFINE g == <<<<m, "primary">>, i>>
<1>0. /\ g \in Fragment /\ DOMAIN data = Fragment /\ DOMAIN data[g] = Key
      /\ \A n : g # <<Primary, n>>
  BY Places DEF Typed
<1>1. CASE data' = data
  BY <1>1 DEF OldCell
<1>2. ASSUME NEW w \in Worker, Unlocks(w) \/ RepairStore(w) PROVE OldCell(m, i, j)
  <2>1. data' = data \/ \E n, k, e : data' = Stored(<<Primary, n>>, k, e)
    BY <1>2, Zenon DEF Unlocks, PutSync, PutAsync, PutAbort, DelFinish, RepairStore, FragmentOf
  <2>2. ASSUME NEW n, NEW k, NEW e, data' = Stored(<<Primary, n>>, k, e) PROVE OldCell(m, i, j)
    BY <1>0, <2>2, StoredEffect DEF OldCell
  <2>3. QED
    BY Zenon, <1>1, <2>1, <2>2
<1>3. ASSUME NEW w \in Worker, PutSingle(w) PROVE OldCell(m, i, j)
  <2>1. ASSUME NEW victims, SingleWrite(w, victims) PROVE \E t : data' = [data EXCEPT ![<<Primary, proc[w].f>>] = t]
    BY Zenon, <2>1 DEF SingleWrite, FragmentOf
  <2>2. ASSUME NEW t, data' = [data EXCEPT ![<<Primary, proc[w].f>>] = t] PROVE OldCell(m, i, j)
    BY <1>0, <2>2 DEF OldCell
  <2>3. QED
    BY <1>1, <1>3, <2>1, <2>2, SingleEffect DEF Still
<1>4. ASSUME NEW w, Locks(w) PROVE data' = data
  BY <1>4, Zenon DEF Locks, prepareWrite, DelLock, EvictLock, fragVars
<1>5. ASSUME NEW r \in net, putOnReplicaFragment(r) PROVE OldCell(m, i, j)
  <2>1. Sent(r) /\ r.op = "put" /\ data' = Stored(<<To(r), r.f>>, r.key, r.e)
    BY <1>5 DEF BaseInv, putOnReplicaFragment
  <2>2. g # <<To(r), r.f>>
    BY <2>1 DEF Sent, To
  <2>3. QED
    BY <1>0, <2>1, <2>2, StoredEffect DEF OldCell
<1>6. ASSUME NEW r \in net, delEntryCommandHandler(r) PROVE OldCell(m, i, j)
  <2>1. /\ part[To(r)] # 0 => At(To(r)) \notin frozen
        /\ data' = IF part[To(r)] = 0 THEN data ELSE Stored(At(To(r)), r.key, None)
    BY <1>6 DEF delEntryCommandHandler, deleteFromFragment
  <2>2. CASE part[To(r)] # 0
    <3>1. data'[g][j] = IF g = At(To(r)) /\ j = r.key THEN None ELSE data[g][j]
      BY <1>0, <2>1, <2>2, StoredEffect
    <3>2. QED
      BY <1>6, <2>1, <2>2, <3>1 DEF OldCell
  <2>3. QED
    BY <1>1, <2>1, <2>2
<1>7. ASSUME NEW r \in net, mergeFragments(r) PROVE OldCell(m, i, j)
  <2>1. Sent(r) /\ r.op = "merge"
    BY <1>7 DEF BaseInv, mergeFragments
  <2>2. g # <<To(r), r.f>>
    BY Zenon, <2>1, Places DEF Sent, To
  <2>3. data'[g] = IF r.waits /\ g = r.src THEN Empty ELSE data[g]
    BY Zenon, <1>0, <1>7, <2>2, MergeEffect
  <2>4. QED
    BY <1>7, <2>3 DEF OldCell, Empty
<1>8. QED
  BY <1>1, <1>2, <1>3, <1>4, <1>5, <1>6, <1>7, StepCases DEF Still, Receives

LEMMA OldCopiesStep ==
    ASSUME BaseInv, DataInv, KeptInv, Keeps, [Next]_vars
    PROVE  OldCopies'
<1>1. OldCopies /\ Typed
  BY DEF KeptInv, Keeps, DataInv, Quiet
<1>2. ASSUME NEW m \in Others, NEW i \in 1 .. MaxFragments, NEW j \in Key,
             data'[<<<<m, "primary">>, i>>][j] # None
      PROVE  data'[<<<<m, "primary">>, i>>][j].ts = 1
  BY <1>1, <1>2, OldCells DEF OldCell, OldCopies, Old
<1>3. QED
  BY <1>2 DEF OldCopies, Old

LEMMA CarriesStep ==
    ASSUME BaseInv, KeptInv, Keeps, [Next]_vars, NEW s \in net'
    PROVE  Carries(s)'
<1>0. /\ ProcOK /\ conf \in Deployments /\ OldCopies
      /\ (\A w \in Worker : Asks(proc[w]) /\ Discards(w)) /\ (\A r \in net : Sent(r) /\ Carries(r))
  BY DEF BaseInv, WriteInv, KeptInv
<1>1. ASSUME NEW r \in net, Like(r, s) PROVE Carries(s)'
  <2>1. r.op = "del" => r.key \in Key /\ must[r.key] # 1
    BY <1>0 DEF Sent, Carries
  <2>2. r.op = "del" => must'[r.key] # 1
    BY <2>1, Ones
  <2>3. QED
    BY <1>0, <1>1, <2>2 DEF Like, Carries, Old
<1>2. ASSUME NEW w \in Worker, FreshPut(w, s) \/ FreshRepair(w, s) PROVE Carries(s)'
  BY <1>2 DEF FreshPut, FreshRepair, Carries
<1>3. ASSUME NEW w \in Worker, FreshDel(w, s) PROVE Carries(s)'
  <2>1. proc[w].pc \in Deleting
    BY Zenon, <1>3 DEF FreshDel, deleteFromPreviousOwners, deleteBackupOnCluster, Busy, Deleting
  <2>2. must[proc[w].dkey] # 1 /\ proc[w].dkey \in Key
    BY <1>0, <2>1 DEF Discards, Asks, Deletes
  <2>3. QED
    BY <1>3, <2>2, Ones DEF FreshDel, Carries
<1>4. ASSUME NEW m \in Others, FreshMove(m, s) PROVE Carries(s)'
  <2>1. part[<<m, "primary">>] = 1
    BY <1>4 DEF FreshMove, moveTable, BaseInv
  <2>2. s.table = data[<<<<m, "primary">>, 1>>]
    BY <1>4, <2>1 DEF FreshMove, At
  <2>3. Old(s.table)
    BY <1>0, <2>2, Places DEF OldCopies
  <2>4. QED
    BY <1>4, <2>3 DEF FreshMove, Carries, Old
<1>5. ASSUME NEW m \in Others, FreshPush(m, s) PROVE Carries(s)'
  BY <1>5 DEF FreshPush, Carries
<1>6. QED
  BY <1>0, <1>1, <1>2, <1>3, <1>4, <1>5, NetSteps DEF Fresh

\* A table that was sent is merged, or nobody waits for it any more.
Answered(r) == mergeFragments(r) \/ \E arrives \in BOOLEAN : Fail(r, arrives)

LEMMA FrozenStays ==
    ASSUME [Next]_vars, \A r \in net : ~Answered(r)
    PROVE  frozen \subseteq frozen'
<1>1. CASE UNCHANGED vars
  BY <1>1 DEF vars, fragVars
<1>2. ASSUME NEW w \in Worker, Put(w) PROVE frozen' = frozen
  BY Zenon, <1>2 DEF Put, PutLoad, PutSingle, evictForWrite, prepareWrite, PutSend, PutAbort, PutSync, PutAsync,
              loadOrCreateFragment, fragVars
<1>3. ASSUME NEW w \in Worker, Delete(w) PROVE frozen' = frozen
  BY Zenon, <1>3 DEF Delete, DelLoad, DelLock, EvictLock, deleteFromPreviousOwners, deleteBackupOnCluster,
              DelFinish, loadOrCreateFragment, fragVars
<1>4. ASSUME NEW w \in Worker, Get(w) PROVE frozen' = frozen
  BY Zenon, <1>4 DEF Get, lookupOnThisNode, lookupOnReplicas, getOnCluster, RepairLoad, RepairStore, GetReturn,
              getOnFragment, loadOrCreateFragment, fragVars
<1>5. ASSUME NEW w, NEW k, EvictSample(w, k) \/ \E r \in Request : Requested(w, r, k)
      PROVE  frozen' = frozen
  BY Zenon, <1>5 DEF EvictSample, Requested, putCommandHandler, expireCommandHandler, delCommandHandler,
              getCommandHandler, Redirect, Serves, fragVars
<1>6. ASSUME NEW r \in net, Serve(r) PROVE frozen' = frozen
  BY Zenon, <1>6 DEF Answered, Serve, putEntryCommandHandler, moveFragmentCommandHandler, ServeLoad,
              putOnReplicaFragment, delEntryCommandHandler, loadOrCreateFragment
<1>7. ASSUME NEW r \in net, NEW arrives \in BOOLEAN, Fail(r, arrives) PROVE FALSE
  BY <1>7 DEF Answered
<1>8. ASSUME NEW m, Crash(m) \/ Notice(m) \/ Replicate(m) PROVE frozen' = frozen
  BY Zenon, <1>8 DEF Crash, Notice, Replicate, fragVars
<1>9. ASSUME NEW m, moveTable(m) PROVE frozen \subseteq frozen'
  BY <1>9 DEF moveTable
<1>10. ASSUME NEW x, janitor(x) \/ Lapse(x) PROVE frozen' = frozen
  BY <1>10 DEF janitor, wipeOutFragment, Lapse, fragVars
<1> HIDE DEF Requested, Answered
<1>11. QED
  BY <1>1, <1>2, <1>3, <1>4, <1>5, <1>6, <1>7, <1>8, <1>9, <1>10, Zenon DEF Next, Requested

LEMMA Survivor ==
    ASSUME NEW s \in net', Moves(s), NEW r \in net, Sent(r), Answered(r)
    PROVE  s \in net /\ s # r
<1>1. CASE mergeFragments(r)
  BY <1>1 DEF mergeFragments
<1>2. ASSUME NEW arrives \in BOOLEAN, Fail(r, arrives) PROVE s \in net /\ s # r
  <2>1. s = [r EXCEPT !.waits = FALSE] => ~s.waits
    BY DEF Sent, MsgFields
  <2>2. r.waits /\ (s \in net \ {r} \/ s = [r EXCEPT !.waits = FALSE])
    BY <1>2 DEF Fail
  <2>3. s.waits
    BY DEF Moves
  <2>4. QED
    BY <2>1, <2>2, <2>3
<1>3. QED
  BY <1>1, <1>2 DEF Answered

LEMMA LockedStep ==
    ASSUME BaseInv, DataInv, KeptInv, Keeps, [Next]_vars, NEW s \in net'
    PROVE  Locked(s)'
<1>0. /\ ProcOK /\ conf \in Deployments /\ Typed /\ Typed' /\ OneMove
      /\ (\A w \in Worker : Asks(proc[w])) /\ (\A r \in net : Sent(r) /\ Locked(r))
  BY Zenon, TypedStep DEF BaseInv, WriteInv, KeptInv, DataInv, Keeps, Quiet
<1> SUFFICES ASSUME Moves(s) PROVE s.src \in frozen' /\ s.table = data'[s.src]
  BY DEF Locked, Moves
<1>1. ASSUME NEW r \in net, Moves(r), \A x \in net : Answered(x) => x.src # r.src
      PROVE  data'[r.src] = data[r.src]
  <2>1. r.src \in frozen /\ r.by \in Others /\ r.src = <<<<r.by, "primary">>, 1>>
    BY <1>0, <1>1, Sequences DEF Moves, Locked, Sent
  <2>2. r.src \in Fragment /\ 1 \in 1 .. MaxFragments
    BY <2>1, Places
  <2>3. \A j \in Key : data'[r.src][j] = data[r.src][j]
    BY <1>0, <1>1, <2>1, <2>2, OldCells DEF OldCell, Answered
  <2>4. QED
    BY <1>0, <2>2, <2>3 DEF Typed
<1>2. ASSUME NEW r \in net, Answered(r) PROVE s.src \in frozen' /\ s.table = data'[s.src]
  <2>1. s \in net /\ \A x \in net : Answered(x) => x # s
    BY <1>0, <1>2, Survivor
  <2>2. ASSUME NEW x \in net, Answered(x) PROVE x.src # s.src \/ ~Moves(x)
    BY <1>0, <2>1, <2>2 DEF OneMove
  <2>3. frozen' = Thawed(r)
    BY Zenon, <1>2 DEF Answered, mergeFragments, Fail
  <2>4. s.src \in frozen /\ s.table = data[s.src]
    BY <1>0, <2>1 DEF Locked
  <2>5. s.src \in frozen'
    BY <1>2, <2>2, <2>3, <2>4 DEF Thawed, Moves
  <2>6. data'[s.src] = data[s.src]
    <3>1. s.by \in Others /\ s.src = <<<<s.by, "primary">>, 1>>
      BY <1>0, <2>1, Sequences DEF Moves, Sent
    <3>2. s.src \in Fragment /\ 1 \in 1 .. MaxFragments
      BY <3>1, Places
    <3>3. ASSUME NEW x \in net, mergeFragments(x), x.waits, s.src = x.src PROVE FALSE
      BY Zenon, <2>2, <3>3 DEF Answered, Moves, mergeFragments
    <3>4. ASSUME NEW j \in Key PROVE data'[s.src][j] = data[s.src][j]
      <4>1. OldCell(s.by, 1, j)
        BY <1>0, <3>1, <3>2, OldCells
      <4>2. QED
        BY <2>4, <3>1, <3>3, <4>1 DEF OldCell
    <3>5. QED
      BY <1>0, <3>2, <3>4 DEF Typed
  <2>7. QED
    BY <2>4, <2>5, <2>6
<1>3. CASE \A x \in net : ~Answered(x)
  <2>1. frozen \subseteq frozen'
    BY <1>3, FrozenStays
  <2>2. ASSUME NEW r \in net, Like(r, s) PROVE s.src \in frozen' /\ s.table = data'[s.src]
    <3>1. Moves(r) /\ s.src = r.src /\ s.table = r.table
      BY <2>2 DEF Like, Moves
    <3>2. QED
      BY <1>0, <1>1, <1>3, <2>1, <3>1 DEF Locked
  <2>3. ASSUME NEW m \in Others, FreshMove(m, s) PROVE s.src \in frozen' /\ s.table = data'[s.src]
    BY <2>3 DEF FreshMove, moveTable
  <2>4. ASSUME NEW m \in Others, FreshPush(m, s) PROVE FALSE
    BY <2>4 DEF FreshPush, Moves
  <2>5. ASSUME NEW w \in Worker, FreshPut(w, s) \/ FreshRepair(w, s) \/ FreshDel(w, s) PROVE FALSE
    BY <2>5 DEF FreshPut, FreshRepair, FreshDel, Moves
  <2>6. QED
    BY <1>0, <2>2, <2>3, <2>4, <2>5, NetSteps DEF Fresh
<1>4. QED
  BY <1>2, <1>3

LEMMA MoveKinds ==
    ASSUME BaseInv, [Next]_vars
    PROVE  \/ \A s \in net' : Moves(s) => s \in net
           \/ \E m \in Others : moveTable(m) \/ Crash(m)
           \/ \E r \in net, op \in {"put", "merge"} : ServeLoad(r, op)
<1>0. /\ ProcOK /\ conf \in Deployments /\ (\A w \in Worker : Asks(proc[w])) /\ (\A r \in net : Sent(r))
  BY DEF BaseInv, WriteInv
<1>1. CASE UNCHANGED vars
  BY <1>1 DEF vars
<1>2. ASSUME NEW w \in Worker, Turn(w), ~\E m \in Others : moveTable(m), NEW s \in net', Moves(s)
      PROVE  s \in net
  <2>1. ASSUME Fresh(s) PROVE FALSE
    <3>1. \A x \in Worker : ~FreshPut(x, s) /\ ~FreshRepair(x, s) /\ ~FreshDel(x, s)
      BY <1>2 DEF FreshPut, FreshRepair, FreshDel, Moves
    <3>2. \A m \in Others : ~FreshMove(m, s) /\ ~FreshPush(m, s)
      BY <1>2 DEF FreshMove, FreshPush, Moves
    <3>3. QED
      BY <2>1, <3>1, <3>2 DEF Fresh
  <2>2. QED
    BY <1>0, <1>2, <2>1, WorkerNet
<1>3. ASSUME NEW r \in net, Answered(r), NEW s \in net', Moves(s) PROVE s \in net
  BY <1>0, <1>3, Survivor
<1>4. ASSUME NEW r \in net, putOnReplicaFragment(r) \/ delEntryCommandHandler(r), NEW s \in net' PROVE s \in net
  BY Zenon, <1>4 DEF putOnReplicaFragment, delEntryCommandHandler
<1>5. ASSUME NEW m, Replicate(m), NEW s \in net', Moves(s) PROVE s \in net
  <2> DEFINE msg == [Message("merge", m, "backup", None, None, Owner, FALSE) EXCEPT !.table = data[At(Primary)]]
  <2>1. net' = net \cup {msg}
    BY <1>5 DEF Replicate
  <2>2. msg.waits = FALSE
    BY DEF Message
  <2> HIDE DEF msg
  <2>3. QED
    BY <1>5, <2>1, <2>2 DEF Moves
<1>6. ASSUME NEW x, Notice(x) \/ janitor(x) \/ Lapse(x) PROVE net' = net
  BY <1>6 DEF Notice, janitor, Lapse
<1>7. ASSUME NEW r \in net, Serve(r) PROVE \/ \A s \in net' : Moves(s) => s \in net
                                           \/ \E op \in {"put", "merge"} : ServeLoad(r, op)
  BY <1>3, <1>4, <1>7, Zenon DEF Serve, putEntryCommandHandler, moveFragmentCommandHandler, Answered
<1>8. ASSUME NEW r \in net, NEW arrives \in BOOLEAN, Fail(r, arrives) PROVE \A s \in net' : Moves(s) => s \in net
  BY <1>3, <1>8, Zenon DEF Answered
<1> HIDE DEF Moves, Answered
<1>9. QED
  BY <1>1, <1>2, <1>5, <1>6, <1>7, <1>8, Zenon DEF Next, Turn, Requested

LEMMA OneMoveStep == ASSUME BaseInv, KeptInv, Keeps, [Next]_vars PROVE OneMove'
<1>0. OneMove /\ (\A r \in net : Sent(r) /\ Locked(r))
  BY DEF KeptInv, BaseInv
<1> SUFFICES ASSUME NEW s \in net', NEW t \in net', Moves(s), Moves(t), s.src = t.src PROVE s = t
  BY DEF OneMove, Moves
<1>1. CASE s \in net /\ t \in net
  BY <1>0, <1>1 DEF OneMove
<1>2. ASSUME NEW m \in Others, moveTable(m) PROVE s = t
  <2> DEFINE src == At(<<m, "primary">>)
             msg == [Message("merge", Owner, "primary", None, None, m, TRUE) EXCEPT !.table = data[src], !.src = src]
  <2>1. net' = net \cup {msg} /\ src \notin frozen
    BY <1>2 DEF moveTable
  <2>2. msg.src = src
    BY DEF Message
  <2> HIDE DEF msg, src
  <2>3. \A r \in net : Moves(r) => r.src # src
    BY <1>0, <2>1 DEF Locked
  <2>4. QED
    BY <1>1, <2>1, <2>2, <2>3
<1>3. ASSUME NEW m \in Others, Crash(m) PROVE s = t
  <2>1. PICK r \in net : s = [r EXCEPT !.waits = @ /\ r.by # m]
    BY <1>3 DEF Crash
  <2>2. PICK q \in net : t = [q EXCEPT !.waits = @ /\ q.by # m]
    BY <1>3 DEF Crash
  <2>3. Moves(r) /\ r.src = s.src
    BY <1>0, <2>1 DEF Sent, MsgFields, Moves
  <2>4. Moves(q) /\ q.src = t.src
    BY <1>0, <2>2 DEF Sent, MsgFields, Moves
  <2>5. r = q
    BY <1>0, <2>3, <2>4 DEF OneMove
  <2>6. QED
    BY <2>1, <2>2, <2>5
<1>4. ASSUME NEW r \in net, NEW op, ServeLoad(r, op) PROVE s = t
  <2> DEFINE q == [r EXCEPT !.f = Loaded(To(r))]
  <2>1. net' = (net \ {r}) \cup {q}
    BY <1>4 DEF ServeLoad
  <2>2. q.src = r.src /\ q.op = r.op /\ q.waits = r.waits
    BY <1>0 DEF Sent, MsgFields
  <2> HIDE DEF q
  <2>3. Moves(q) => Moves(r)
    BY <2>2 DEF Moves
  <2>4. \A x \in net \ {r} : Moves(x) /\ Moves(q) => x.src # q.src
    BY <1>0, <2>2, <2>3 DEF OneMove
  <2>5. QED
    BY <1>1, <2>1, <2>4
<1>5. QED
  BY <1>1, <1>2, <1>3, <1>4, MoveKinds
=============================================================================
