-------------------------- MODULE DMapKeptProofs --------------------------
(***************************************************************************)
(* An acknowledged write stays with the owner or with the previous owners, *)
(* step by step.                                                           *)
(***************************************************************************)
EXTENDS DMapEntryProofs

LEMMA AheadStep ==
    ASSUME BaseInv, LockInv, DataInv, KeptInv, Keeps, [Next]_vars, NEW x \in Worker
    PROVE  Ahead(x)' /\ Discards(x)'
<1>0. /\ ProcOK /\ conf \in Deployments /\ conf' = conf /\ Tally /\ Ahead(x) /\ Discards(x)
      /\ \A w \in Worker : Asks(proc[w]) /\ (proc[w].pc \in Storing => Stamped(proc[w].e))
  BY SameConf DEF BaseInv, WriteInv, KeptInv, Tally
<1>1. ASSUME NEW w \in Worker, PutSync(w) \/ PutAsync(w)
      PROVE  proc[w].pc \in Storing /\ proc'[w] = Idle /\ proc[w].key \in Key /\ keyLock[proc[w].key] = w
  <2>1. proc[w].pc \in Storing
    BY Zenon, <1>1 DEF PutSync, PutAsync, Busy, Storing
  <2>2. proc'[w] = Idle
    BY Zenon, <1>0, <1>1, Ends DEF PutSync, PutAsync
  <2>3. QED
    BY <1>0, <2>1, <2>2 DEF Asks, LockInv
<1>2. ASSUME NEW w \in Worker, PutSingle(w) PROVE Single
  BY Zenon, <1>0, <1>2 DEF PutSingle, Busy, Asks
<1>3. ASSUME proc'[x].pc \in Storing PROVE must'[proc'[x].key] < proc'[x].e.ts
  <2>1. CASE prepareWrite(x)
    <3>1. Prepared(x) /\ proc[x].key \in Key
      BY <1>0, <1>3, <2>1, PrepareEffect, IdleAsks DEF Prepared, Asks
    <3>2. proc'[x].e.ts = clock + 1 /\ must' = must /\ proc'[x].key = proc[x].key
      BY <3>1 DEF Prepared, prepareEntry
    <3>3. must[proc[x].key] \in Nat /\ must[proc[x].key] <= clock /\ clock \in Nat
      BY <1>0, <3>1 DEF Tally
    <3>4. QED
      BY <3>2, <3>3
  <2>2. CASE proc[x].pc \in Storing /\ proc'[x].key = proc[x].key /\ proc'[x].e = proc[x].e
    <3>1. proc[x].key \in Key /\ ~Single /\ keyLock[proc[x].key] = x /\ Stamped(proc[x].e)
      BY <1>0, <2>2 DEF Asks, LockInv
    <3>2. must[proc[x].key] < proc[x].e.ts
      BY <1>0, <2>2 DEF Ahead
    <3>3. must'[proc[x].key] \in {must[proc[x].key], 0}
      BY <1>1, <1>2, <1>3, <3>1, IdleAsks, MustChanges DEF MustChange
    <3>4. QED
      BY <2>2, <3>1, <3>2, <3>3 DEF Stamped
  <2>3. QED
    BY <1>0, <1>3, <2>1, <2>2, AllEntered DEF Entered
<1>4. ASSUME proc'[x].pc \in Deleting
      PROVE  must'[proc'[x].dkey] # 1 /\ (~Single => must'[proc'[x].dkey] = 0)
  <2>1. CASE DelLock(x) \/ EvictLock(x)
    <3>1. Condemned(x) /\ proc[x].dkey \in Key
      BY <1>0, <1>4, <2>1, CondemnEffect, IdleAsks DEF Condemned, Asks, Deletes
    <3>2. must'[proc'[x].dkey] = 0
      BY <1>0, <3>1 DEF Condemned, Doomed, Tally
    <3>3. QED
      BY <3>2
  <2>2. CASE proc[x].pc \in Deleting /\ proc'[x].dkey = proc[x].dkey
    <3>1. proc[x].dkey \in Key /\ keyLock[proc[x].dkey] = x /\ proc[x].pc \notin Storing
      BY <1>0, <2>2 DEF Asks, Deletes, Deleting, Storing, LockInv
    <3>2. must'[proc[x].dkey] # 1
      BY <1>0, <2>2, <3>1, Ones DEF Discards
    <3>3. ~Single => must'[proc[x].dkey] = 0
      BY <1>0, <1>1, <1>2, <2>2, <3>1, MustChanges DEF MustChange, Discards
    <3>4. QED
      BY <2>2, <3>2, <3>3
  <2>3. QED
    BY <1>0, <1>4, <2>1, <2>2, AllEntered DEF Entered
<1>5. QED
  BY <1>0, <1>3, <1>4 DEF Ahead, Discards, Single

LEMMA History == ASSUME [Next]_vars PROVE stray \subseteq stray' /\ up' \subseteq up
<1>1. CASE UNCHANGED vars
  BY <1>1 DEF vars, histVars, nodeVars
<1>2. ASSUME NEW w \in Worker, Put(w) PROVE stray \subseteq stray' /\ up' = up
  <2>1. CASE PutSingle(w)
    <3>1. up' = up
      BY Zenon, <2>1 DEF PutSingle, nodeVars
    <3>2. QED
      BY Zenon, <2>1, <3>1, SingleEffect DEF SingleWrite, Strayed
  <2>2. CASE PutSync(w) \/ PutAsync(w)
    BY Zenon, <2>2 DEF PutSync, PutAsync, Strayed, nodeVars
  <2>3. CASE PutLoad(w) \/ evictForWrite(w) \/ prepareWrite(w) \/ PutSend(w) \/ PutAbort(w)
    BY Zenon, <2>3 DEF PutLoad, evictForWrite, prepareWrite, PutSend, PutAbort, histVars, nodeVars
  <2>4. QED
    BY <1>2, <2>1, <2>2, <2>3 DEF Put
<1>3. ASSUME NEW w \in Worker, Delete(w) PROVE stray' = stray /\ up' = up
  BY Zenon, <1>3 DEF Delete, DelLoad, DelLock, EvictLock, deleteFromPreviousOwners, deleteBackupOnCluster,
              DelFinish, Doomed, histVars, nodeVars
<1>4. ASSUME NEW w \in Worker, Get(w) PROVE stray \subseteq stray' /\ up' = up
  <2>1. CASE RepairStore(w)
    BY <2>1 DEF RepairStore, Strayed, nodeVars
  <2>2. CASE ~RepairStore(w)
    BY Zenon, <1>4, <2>2 DEF Get, lookupOnThisNode, lookupOnReplicas, getOnCluster, RepairLoad, GetReturn,
                getOnFragment, histVars, nodeVars
  <2>3. QED
    BY <2>1, <2>2
<1>5. ASSUME NEW w, NEW k, EvictSample(w, k) \/ \E r \in Request : Requested(w, r, k)
      PROVE  stray' = stray /\ up' = up
  BY Zenon, <1>5 DEF EvictSample, Requested, putCommandHandler, expireCommandHandler, delCommandHandler,
              getCommandHandler, Redirect, Serves, histVars, nodeVars
<1>6. ASSUME NEW r, Serve(r) PROVE stray \subseteq stray' /\ up' = up
  <2>1. CASE putOnReplicaFragment(r) \/ mergeFragments(r)
    BY Zenon, <2>1 DEF putOnReplicaFragment, mergeFragments, Strayed, nodeVars
  <2>2. CASE putEntryCommandHandler(r) \/ moveFragmentCommandHandler(r) \/ delEntryCommandHandler(r)
    BY Zenon, <2>2 DEF putEntryCommandHandler, moveFragmentCommandHandler, ServeLoad, delEntryCommandHandler,
                histVars, nodeVars
  <2>3. QED
    BY <1>6, <2>1, <2>2 DEF Serve
<1>7. ASSUME NEW r, NEW arrives, Fail(r, arrives) PROVE stray' = stray /\ up' = up
  BY <1>7 DEF Fail, histVars, nodeVars
<1>8. ASSUME NEW m, Crash(m) \/ Notice(m) \/ moveTable(m) \/ Replicate(m) PROVE stray' = stray /\ up' \subseteq up
  BY Zenon, <1>8 DEF Crash, Notice, moveTable, Replicate, histVars, nodeVars
<1>9. ASSUME NEW x, janitor(x) \/ Lapse(x) PROVE stray' = stray /\ up' = up
  BY <1>9 DEF janitor, Lapse, histVars, nodeVars
<1> HIDE DEF Requested
<1>10. QED
  BY <1>1, <1>2, <1>3, <1>4, <1>5, <1>6, <1>7, <1>8, <1>9, Zenon DEF Next, Requested

\* The owner keeps what it has.
LEMMA OwnerKeeps ==
    ASSUME BaseInv, LockInv, DataInv, KeptInv, Keeps, [Next]_vars, KeepsPart \/ Unguarded, NEW k \in Key,
           must[k] # 0, must'[k] = must[k], Kept(Owner, k)
    PROVE  Kept(Owner, k)'
<1> DEFINE i == part[Primary]
           g == <<Primary, i>>
<1>0. /\ ProcOK /\ conf \in Deployments /\ Typed /\ Tally
      /\ (\A w \in Worker : Asks(proc[w]) /\ (proc[w].pc \in Storing => Stamped(proc[w].e)))
      /\ (\A w \in Worker : Ahead(w) /\ Discards(w) /\ WriteTyped(w) /\ ReadTyped(proc[w]))
      /\ (\A r \in net : MessageTyped(r))
  BY DEF BaseInv, WriteInv, DataInv, KeptInv, Keeps, Quiet, Tally
<1>1. i \in 1 .. MaxFragments /\ g \in Fragment /\ g = At(Primary)
  BY Places DEF Kept, Held, Primary, BaseInv, WriteInv, PartOK, At
<1>2. data[g][k] # None /\ data[g][k].ts >= must[k]
  BY <1>1 DEF Kept, Held, Primary, At
<1>3. data[g][k] \in Entry
  BY <1>0, <1>1, <1>2 DEF Typed, Slot
<1>4. part'[Primary] = i
  <2>1. Has(At(Primary)) # {}
    BY <1>1, <1>2 DEF Has
  <2>2. QED
    BY <1>1, <2>1 DEF KeepsPart, Unguarded
<1>5. must[k] \in Nat /\ must[k] <= clock /\ clock \in Nat /\ data[g][k].ts \in Nat
  BY <1>0, <1>3 DEF Tally, Entry
<1> HIDE DEF i
<1>6. ASSUME data'[g][k] # None, data'[g][k].ts >= must[k] PROVE Kept(Owner, k)'
  BY <1>1, <1>4, <1>6 DEF Kept, Held, Primary, At
<1> HIDE DEF g
<1>7. CASE data'[g][k] = data[g][k]
  BY <1>2, <1>6, <1>7
<1>8. ASSUME NEW w \in Worker, PutSingle(w) PROVE Kept(Owner, k)'
  <2>1. CASE Still
    BY <1>7, <2>1 DEF Still
  <2>2. ASSUME NEW victims, SingleWrite(w, victims) PROVE data'[g][k] = data[g][k]
    <3> DEFINE f == FragmentOf(w)
               j == proc[w].key
               kept == [x \in Key |-> IF x \in victims THEN None ELSE data[f][x]]
               stores == Updatable(w, kept[j])
    <3>1. must'[k] = IF k = j /\ stores THEN clock + 1 ELSE IF k \in victims THEN 0 ELSE must[k]
      BY <2>2 DEF SingleWrite
    <3>2. ~(k = j /\ stores) /\ k \notin victims
      BY <1>5, <3>1
    <3>3. data' = [data EXCEPT ![f] = IF stores THEN [kept EXCEPT ![j] = prepareEntry(w, kept[j])] ELSE kept]
      BY <2>2 DEF SingleWrite
    <3>4. QED
      BY Zenon, <1>0, <1>1, <3>2, <3>3 DEF Typed
  <2>3. QED
    BY <1>7, <1>8, <2>1, <2>2, SingleEffect
<1>9. ASSUME NEW w \in Worker, RepairStore(w) PROVE FALSE
  BY <1>0, <1>9 DEF RepairStore, Busy, ReadTyped
<1>10. ASSUME NEW w \in Worker, PutSync(w) \/ PutAsync(w), proc[w].key = k, proc[w].f = i PROVE Kept(Owner, k)'
  <2> DEFINE e == putEntryOnFragment(w, Current(w), proc[w].e)
  <2>1. proc[w].pc \in Storing
    BY Zenon, <1>10 DEF PutSync, PutAsync, Busy, Storing
  <2>2. Current(w) \in Slot /\ proc[w].e \in Entry /\ (proc[w].do = "expire" => Current(w) # None)
    BY Zenon, <1>0, <2>1, OwnCell DEF WriteTyped, Asks, Loads
  <2>3. e # None /\ e.ts = proc[w].e.ts
    BY Zenon, <2>2, PutEntry
  <2>4. data' = Stored(<<Primary, proc[w].f>>, k, e)
    BY Zenon, <1>10 DEF PutSync, PutAsync, FragmentOf
  <2> HIDE DEF e
  <2>5. data'[g][k] = e
    BY <1>0, <1>1, <1>10, <2>4, StoredEffect DEF Typed, g
  <2>6. must[k] < proc[w].e.ts /\ proc[w].e.ts \in Nat
    BY <1>0, <1>10, <2>1 DEF Ahead, Stamped
  <2>7. QED
    BY <1>5, <1>6, <2>3, <2>5, <2>6
<1>11. ASSUME NEW w \in Worker, DelFinish(w), proc[w].dkey = k PROVE FALSE
  <2>1. proc[w].pc \in Deleting
    BY <1>11 DEF DelFinish, Busy, Deleting
  <2>2. Single
    BY <1>0, <1>11, <2>1 DEF Discards
  <2>3. proc[w].do # "evict"
    BY <1>0, <2>2 DEF Asks, Keeps
  <2>4. must'[k] = 0
    BY Zenon, <1>0, <1>11, <2>3 DEF DelFinish, Tally
  <2>5. QED
    BY <2>4
<1>12. ASSUME NEW r \in net, mergeFragments(r),
              data'[g][k] = fragmentMergeFunction(data[g][k], r.table[k])
       PROVE  Kept(Owner, k)'
  <2>1. r.table[k] \in Slot
    BY Zenon, <1>0, <1>12 DEF mergeFragments, MessageTyped
  <2>2. QED
    BY <1>2, <1>5, <1>6, <1>12, <2>1 DEF fragmentMergeFunction, Slot, Entry
<1>13. QED
  BY Zenon, <1>0, <1>1, <1>7, <1>8, <1>9, <1>10, <1>11, <1>12, Cells DEF Cell, g

LEMMA OwnerHasStep ==
    ASSUME BaseInv, LockInv, DataInv, KeptInv, Keeps, [Next]_vars, KeepsPart \/ Unguarded, NEW k \in Key
    PROVE  OwnerHas(k)'
<1>0. /\ ProcOK /\ conf \in Deployments /\ Typed /\ Tally /\ OwnerHas(k) /\ stray \subseteq stray'
      /\ (\A w \in Worker : Asks(proc[w]) /\ (proc[w].pc \in Storing => Stamped(proc[w].e)) /\ WriteTyped(w))
  BY Zenon, History DEF BaseInv, WriteInv, DataInv, KeptInv, Keeps, Quiet, Tally
<1> SUFFICES ASSUME must'[k] > 1, must'[k] \notin stray' PROVE Kept(Owner, k)'
  BY DEF OwnerHas
<1>1. CASE must'[k] = must[k]
  <2>1. must[k] > 1 /\ must[k] \notin stray /\ must[k] # 0
    BY <1>0, <1>1
  <2>2. Kept(Owner, k)
    BY <1>0, <2>1 DEF OwnerHas
  <2>3. QED
    BY <1>1, <2>1, <2>2, OwnerKeeps
<1>2. ASSUME NEW w \in Worker, Loads(proc[w]), part' = part, part[Primary] = proc[w].f,
             data'[FragmentOf(w)][k] # None, data'[FragmentOf(w)][k].ts = must'[k]
      PROVE  Kept(Owner, k)'
  <2>1. proc[w].f # 0
    BY <1>0, <1>2 DEF ProcOK, Rec
  <2>2. must'[k] \in Nat
    BY TallyStep DEF Tally
  <2>3. QED
    BY <1>2, <2>1, <2>2 DEF Kept, Held, Primary, At, FragmentOf
<1>3. ASSUME NEW w \in Worker, PutSingle(w), must'[k] = clock + 1 PROVE Kept(Owner, k)'
  <2>1. /\ proc[w].pc = "write" /\ part' = part
    BY Zenon, <1>3 DEF PutSingle, Busy
  <2>2. /\ Loads(proc[w]) /\ proc[w].key \in Key
        /\ FragmentOf(w) \in Fragment
    BY <1>0, <2>1, OwnCell DEF Loads, Asks
  <2>3. ASSUME NEW victims, SingleWrite(w, victims) PROVE Kept(Owner, k)'
    <3> DEFINE f == FragmentOf(w)
               j == proc[w].key
               kept == [x \in Key |-> IF x \in victims THEN None ELSE data[f][x]]
               stores == Updatable(w, kept[j])
               e == prepareEntry(w, kept[j])
    <3>1. must'[k] = IF k = j /\ stores THEN clock + 1 ELSE IF k \in victims THEN 0 ELSE must[k]
      BY <2>3 DEF SingleWrite
    <3>2. k = j /\ stores
      BY <1>0, <1>3, <3>1 DEF Tally
    <3>3. data' = [data EXCEPT ![f] = [kept EXCEPT ![j] = e]] /\ stray' = Strayed(f, clock + 1)
      BY <2>3, <3>2 DEF SingleWrite
    <3>4. data'[f][k] = e
      BY <1>0, <2>2, <3>2, <3>3 DEF Typed
    <3>5. e.ts = clock + 1 /\ e # None
      <4>1. kept[j] \in Slot
        BY <1>0, <2>2 DEF Typed, Slot
      <4>2. e \in Entry
        BY <3>2, <4>1, PreparedEntry DEF Updatable
      <4>3. QED
        BY <4>2, EntryAssumption DEF prepareEntry
    <3>6. part[Primary] = proc[w].f
      BY <1>3, <3>3 DEF Strayed, FragmentOf
    <3>7. QED
      BY Zenon, <1>2, <1>3, <2>1, <2>2, <3>4, <3>5, <3>6
  <2>4. QED
    BY <1>1, <1>3, <2>3, SingleEffect DEF Still
<1>4. ASSUME NEW w \in Worker, PutSync(w) \/ PutAsync(w), proc[w].key = k, must'[k] = proc[w].e.ts
      PROVE  Kept(Owner, k)'
  <2> DEFINE e == putEntryOnFragment(w, Current(w), proc[w].e)
  <2>1. proc[w].pc \in Storing /\ part' = part
    BY Zenon, <1>4 DEF PutSync, PutAsync, Busy, Storing
  <2>2. /\ Current(w) \in Slot /\ proc[w].e \in Entry /\ (proc[w].do = "expire" => Current(w) # None)
        /\ Loads(proc[w]) /\ FragmentOf(w) \in Fragment
    BY Zenon, <1>0, <2>1, OwnCell DEF WriteTyped, Asks, Loads
  <2>3. e # None /\ e.ts = proc[w].e.ts
    BY Zenon, <2>2, PutEntry
  <2>4. data' = Stored(FragmentOf(w), k, e) /\ stray' = Strayed(FragmentOf(w), proc[w].e.ts)
    BY Zenon, <1>4 DEF PutSync, PutAsync
  <2> HIDE DEF e
  <2>5. data'[FragmentOf(w)][k] = e
    BY <1>0, <2>2, <2>4, StoredEffect DEF Typed
  <2>6. part[Primary] = proc[w].f
    BY <1>4, <2>4 DEF Strayed, FragmentOf
  <2>7. QED
    BY <1>2, <1>4, <2>1, <2>2, <2>3, <2>5, <2>6
<1>5. QED
  BY <1>1, <1>3, <1>4, MustChanges DEF MustChange

LEMMA SomeoneHasStep ==
    ASSUME BaseInv, LockInv, DataInv, KeptInv, Keeps, [Next]_vars, KeepsPart \/ Unguarded, NEW k \in Key
    PROVE  SomeoneHas(k)'
<1>0. /\ ProcOK /\ PartOK /\ conf \in Deployments /\ conf' = conf /\ Typed /\ SomeoneHas(k)
      /\ stray \subseteq stray' /\ up' \subseteq up
      /\ (\A r \in net : Sent(r) /\ Carries(r) /\ Locked(r) /\ MessageTyped(r))
  BY History, SameConf DEF BaseInv, WriteInv, DataInv, KeptInv, Keeps, Quiet
<1> SUFFICES ASSUME must'[k] = 1, 1 \notin stray', Prevs \subseteq up'
             PROVE  \E m \in {Owner} \cup Prevs : Kept(m, k)'
  BY <1>0 DEF SomeoneHas, Prevs
<1>1. must[k] = 1 /\ must'[k] = must[k]
  BY Ones
<1>2. PICK m \in {Owner} \cup Prevs : Kept(m, k)
  BY <1>0, <1>1 DEF SomeoneHas
<1>3. CASE m = Owner
  BY <1>1, <1>2, <1>3, OwnerKeeps
<1>4. CASE m \in Prevs
  <2> DEFINE p == <<m, "primary">>
             g == <<p, 1>>
  <2>1. m \in Others /\ m \in up'
    BY <1>0, <1>4, Sequences
  <2>2. part[p] = 1 /\ g = At(p) /\ data[g][k] # None /\ data[g][k].ts >= 1
    BY <1>1, <1>2, <2>1 DEF Kept, Held, At, BaseInv
  <2>3. part'[p] = 1
    <3>1. Has(At(p)) # {}
      BY <2>2 DEF Has
    <3>2. QED
      BY <2>1, <2>2, <3>1, OldParts DEF Vacated
  <2>4. CASE data'[g][k] = data[g][k]
    <3>1. Kept(m, k)'
      BY <1>1, <2>2, <2>3, <2>4 DEF Kept, Held, At
    <3>2. QED
      BY <1>4, <3>1
  <2>5. ASSUME NEW r \in net, delEntryCommandHandler(r), r.key = k PROVE FALSE
    BY <1>0, <1>1, <2>5 DEF delEntryCommandHandler, Carries
  <2>6. ASSUME NEW r \in net, mergeFragments(r), r.waits, g = r.src PROVE Kept(Owner, k)'
    <3>1. r.op = "merge" /\ r.f # 0 /\ r.table = data[g] /\ To(r) = Primary
      BY Zenon, <1>0, <2>6 DEF mergeFragments, Locked, Moves, Sent, To, Primary
    <3>2. data[g][k] \in Entry
      BY Zenon, <1>0, <2>1, <2>2, Places DEF Typed, Slot
    <3>3. Strayed(<<To(r), r.f>>, data[g][k].ts) \subseteq stray'
      BY Zenon, <2>2, <2>6, <3>1 DEF mergeFragments
    <3>4. data[g][k].ts = 1
      BY <1>0, <2>6, <2>2, <3>1 DEF Carries, Old, To, Primary
    <3>5. part[Primary] = r.f /\ part' = part
      BY <2>6, <3>1, <3>3, <3>4 DEF Strayed, mergeFragments
    <3>6. <<Primary, r.f>> \in Fragment /\ <<Primary, r.f>> # g
      <4>1. r.f \in 1 .. MaxFragments
        BY <1>0, <3>1, <3>5 DEF PartOK
      <4>2. QED
        BY <2>1, <4>1, Places
    <3> DEFINE c == data[<<Primary, r.f>>][k]
               d == data'[<<Primary, r.f>>][k]
    <3>7. data'[<<Primary, r.f>>] = [j \in Key |-> fragmentMergeFunction(data[<<Primary, r.f>>][j], r.table[j])]
      BY Zenon, <1>0, <2>6, <3>1, <3>6, MergeEffect DEF Typed
    <3>8. d = fragmentMergeFunction(c, data[g][k])
      BY <3>1, <3>7
    <3>9. c \in Slot
      BY <1>0, <3>6 DEF Typed
    <3> HIDE DEF c, d
    <3>10. d # None /\ d.ts >= 1
      BY <2>2, <3>2, <3>8, <3>9 DEF fragmentMergeFunction, Slot, Entry
    <3>11. QED
      BY <1>1, <3>1, <3>5, <3>10 DEF Kept, Held, At, Primary, d
  <2>7. QED
    BY <1>0, <2>1, <2>4, <2>5, <2>6, OldCells, Places DEF OldCell
<1>5. QED
  BY <1>3, <1>4

LEMMA KeptStep ==
    ASSUME BaseInv, LockInv, DataInv, KeptInv, [Next]_vars, KeepsPart \/ Unguarded PROVE KeptInv'
<1>1. Keeps' <=> Keeps
  BY SameConf DEF Keeps, Single
<1>2. ASSUME Keeps PROVE OldCopies' /\ OneMove'
  BY <1>2, OldCopiesStep, OneMoveStep
<1>3. ASSUME Keeps PROVE \A w \in Worker : Ahead(w)' /\ Discards(w)'
  BY <1>3, AheadStep
<1>4. ASSUME Keeps PROVE \A s \in net' : Carries(s)' /\ Locked(s)'
  BY <1>4, CarriesStep, LockedStep
<1>5. ASSUME Keeps PROVE \A k \in Key : OwnerHas(k)' /\ SomeoneHas(k)'
  BY <1>5, OwnerHasStep, SomeoneHasStep
<1>6. QED
  BY <1>1, <1>2, <1>3, <1>4, <1>5, Zenon DEF KeptInv

LEMMA KeptInit == Init => KeptInv
<1> SUFFICES ASSUME Init, Keeps PROVE KeptInv
  BY DEF KeptInv
<1>1. \A w \in Worker : Ahead(w) /\ Discards(w)
  BY DEF Init, Ahead, Discards, Idle, Storing, Deleting
<1>2. ASSUME NEW m \in Others, NEW i \in 1 .. MaxFragments, NEW k \in Key,
             data[<<<<m, "primary">>, i>>][k] # None
      PROVE  data[<<<<m, "primary">>, i>>][k].ts = 1
  <2>1. <<<<m, "primary">>, i>> \in Fragment
    BY Places
  <2>2. QED
    BY <1>2, <2>1 DEF Init
<1>3. OldCopies /\ OneMove
  BY Zenon, <1>2 DEF OldCopies, Old, Init, OneMove
<1>4. \A k \in Key : must[k] \in {0, 1}
  BY DEF Init
<1>5. ASSUME NEW k \in Key, must[k] = 1 PROVE \E m \in {Owner} \cup Prevs : Kept(m, k)
  <2>1. conf.held # {} /\ conf \in Deployments
    BY <1>5 DEF Init
  <2>2. PICK m \in {Owner} \cup Prevs : <<m, "primary">> \in conf.held
    BY Zenon, <2>1, DeploymentAssumption DEF Keeps, Prevs
  <2> DEFINE p == <<m, "primary">>
  <2>3. p \in Place /\ <<p, 1>> \in Fragment
    BY <2>1, <2>2, Places, Sequences DEF Primary
  <2>4. part[p] = 1
    BY <2>2, <2>3 DEF Init
  <2>5. data[<<p, 1>>][k] = [ts |-> 1, val |-> 1, ttl |-> FALSE]
    BY Zenon, <2>2, <2>3 DEF Init
  <2>6. data[<<p, 1>>][k] # None /\ data[<<p, 1>>][k].ts = 1
    <3> DEFINE e == [ts |-> 1, val |-> 1, ttl |-> FALSE]
    <3>1. e \in Entry /\ e.ts = 1
      BY DEF Entry
    <3> HIDE DEF e
    <3>2. QED
      BY Zenon, <2>5, <3>1, EntryAssumption DEF e
  <2>7. Kept(m, k)
    BY <1>5, <2>4, <2>6 DEF Kept, Held, At
  <2>8. QED
    BY <2>2, <2>7
<1>6. net = {}
  BY DEF Init
<1>7. QED
  BY <1>1, <1>3, <1>4, <1>5, <1>6 DEF KeptInv, OwnerHas, SomeoneHas

=============================================================================
