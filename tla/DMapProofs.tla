----------------------------- MODULE DMapProofs -----------------------------
(***************************************************************************)
(* The theorems about DMap, for any number of workers, keys, deployments,  *)
(* fragments and faults.  First the count of the writes in flight of a     *)
(* fragment, for which the janitor leaves the fragment of a write alone;   *)
(* then, from the lemmas of the modules this one extends, the key lock,    *)
(* conditional writes, the share of MaxKeys and acknowledged writes.       *)
(***************************************************************************)
EXTENDS DMapKeptProofs, FiniteSetTheorems

LEMMA WriteInit == Init => WriteInv
<1> SUFFICES ASSUME Init PROVE WriteInv
  OBVIOUS
<1>1. ProcOK
  BY IdleRec DEF Init, ProcOK
<1>2. PartOK
  BY PrimaryPlace, FragmentsAssumption DEF Init, PartOK
<1>3. ASSUME NEW f \in 1 .. MaxFragments PROVE inFlight[<<Primary, f>>] = Cardinality(Counted(f))
  <2>1. Counted(f) = {}
    BY IdleRec DEF Init, Counted
  <2>2. QED
    BY <2>1, FS_EmptySet, PrimaryPlace DEF Init
<1>4. QED
  BY <1>1, <1>2, <1>3 DEF Init, WriteInv, CountOK

\* A step that leaves the writes alone keeps the count.
SameWrites ==
    \A x \in Worker : /\ proc'[x].pc \in Storing <=> proc[x].pc \in Storing
                      /\ proc[x].pc \in Storing => proc'[x].f = proc[x].f

LEMMA SameCount == ASSUME CountOK, SameWrites, inFlight' = inFlight PROVE CountOK'
<1>1. ASSUME NEW f PROVE Counted(f)' = Counted(f)
  BY DEF SameWrites, Counted
<1>2. QED
  BY <1>1 DEF CountOK

\* A worker goes on.
LEMMA OneWorker ==
    ASSUME ProcOK, NEW w \in Worker, NEW rec, Rec(rec), Become(w, rec)
    PROVE  /\ ProcOK' /\ proc'[w] = rec
           /\ \A x \in Worker : x # w => proc'[x] = proc[x]
  BY DEF ProcOK, Become

\* It goes on outside the section that is counted, or inside with the same fragment.
LEMMA Onwards ==
    ASSUME ProcOK, CountOK, NEW w \in Worker, NEW rec, Rec(rec), Become(w, rec),
           rec.pc \in Storing <=> proc[w].pc \in Storing,
           rec.pc \in Storing => rec.f = proc[w].f,
           inFlight' = inFlight
    PROVE  ProcOK' /\ CountOK'
<1>1. ProcOK' /\ SameWrites
  BY OneWorker DEF SameWrites
<1>2. QED
  BY <1>1, SameCount

LEMMA Loading ==
    ASSUME PartOK, NEW p, loadOrCreateFragment(p)
    PROVE  /\ PartOK' /\ inFlight' = inFlight
           /\ KeepsPart
           /\ p = Primary => part'[Primary] \in 1 .. MaxFragments /\ Loaded(Primary) = part'[Primary]
  BY PrimaryPlace, FragmentsAssumption DEF PartOK, loadOrCreateFragment, Loaded, KeepsPart

LEMMA Going ==
    ASSUME WriteInv, NEW w \in Worker, NEW rec, Rec(rec), Become(w, rec),
           rec.pc \in Storing <=> proc[w].pc \in Storing,
           rec.pc \in Storing => rec.f = proc[w].f,
           UNCHANGED <<part, made, inFlight>>
    PROVE  WriteInv' /\ KeepsPart
<1>1. ProcOK' /\ CountOK'
  BY Onwards DEF WriteInv
<1>2. QED
  BY <1>1 DEF WriteInv, PartOK, KeepsPart

LEMMA Ending ==
    ASSUME WriteInv, NEW w \in Worker, proc[w].pc \notin Storing, Become(w, Idle),
           UNCHANGED <<part, made, inFlight>>
    PROVE  WriteInv' /\ KeepsPart
  BY Going, IdleRec

-----------------------------------------------------------------------------
(* The requests.                                                           *)

LEMMA ServesStep ==
    ASSUME WriteInv, NEW w \in Worker, NEW pc, NEW r, NEW k, Serves(w, pc, r, k),
           pc \in {"load", "look"} \/ (pc = "dload" /\ r.do = "delete")
    PROVE  WriteInv' /\ KeepsPart
<1> DEFINE rec == [Idle EXCEPT !.do = r.do, !.pc = pc, !.key = k, !.cond = r.cond,
                              !.ttl = r.ttl, !.dkey = k, !.floor = must[k]]
<1>1. Rec(rec) /\ rec.pc \notin Storing
  BY Zenon DEF Rec, Idle, Fields, Loads, Storing
<1>2. proc[w].pc \notin Storing /\ Become(w, rec) /\ UNCHANGED <<part, made, inFlight>>
  BY DEF Serves, Busy, Storing, fragVars
<1> HIDE DEF rec
<1>3. QED
  BY <1>1, <1>2, Going

LEMMA SampleStep ==
    ASSUME WriteInv, NEW w \in Worker, NEW k, EvictSample(w, k)
    PROVE  WriteInv' /\ KeepsPart
<1> DEFINE rec == [Idle EXCEPT !.do = "evict", !.dkey = k, !.df = part[Primary], !.pc = "elock"]
<1>1. Rec(rec) /\ rec.pc \notin Storing
  BY DEF Rec, Idle, Fields, Loads, Storing
<1>2. proc[w].pc \notin Storing /\ Become(w, rec) /\ UNCHANGED <<part, made, inFlight>>
  BY DEF EvictSample, Busy, Storing, fragVars
<1> HIDE DEF rec
<1>3. QED
  BY <1>1, <1>2, Going

-----------------------------------------------------------------------------
(* The reads.                                                              *)

LEMMA GetStep ==
    ASSUME WriteInv, NEW w \in Worker, Get(w)
    PROVE  WriteInv' /\ KeepsPart
<1>0. Rec(proc[w])
  BY DEF WriteInv, ProcOK
<1>1. CASE lookupOnThisNode(w)
  <2> DEFINE rec == [proc[w] EXCEPT !.vers = <<Version(Owner, Held(Primary, proc[w].key))>>,
                                    !.todo = LiveOwners, !.pc = "owners"]
  <2>1. Rec(rec) /\ rec.pc \notin Storing
    BY <1>0 DEF Rec, Fields, Loads, Storing
  <2>2. proc[w].pc \notin Storing /\ Become(w, rec) /\ UNCHANGED <<part, made, inFlight>>
    BY <1>1 DEF lookupOnThisNode, Busy, Storing, fragVars
  <2> HIDE DEF rec
  <2>3. QED
    BY <2>1, <2>2, Going
<1>2. CASE lookupOnReplicas(w)
  <2> DEFINE rec == [proc[w] EXCEPT !.todo = Backups \cap member, !.pc = "replicas"]
  <2>1. Rec(rec) /\ rec.pc \notin Storing
    BY <1>0 DEF Rec, Fields, Loads, Storing
  <2>2. proc[w].pc \notin Storing /\ Become(w, rec) /\ UNCHANGED <<part, made, inFlight>>
    BY <1>2 DEF lookupOnReplicas, Busy, Storing, fragVars
  <2> HIDE DEF rec
  <2>3. QED
    BY <2>1, <2>2, Going
<1>3. CASE getOnCluster(w)
  <2>1. proc[w].pc \notin Storing /\ UNCHANGED <<part, made, inFlight>>
    BY <1>3 DEF getOnCluster, Busy, Storing, fragVars
  <2>2. CASE Become(w, Idle)
    BY <2>1, <2>2, Ending
  <2>3. ASSUME NEW e, NEW t, Become(w, [proc[w] EXCEPT !.e = e, !.todo = t, !.pc = "repair"])
        PROVE  WriteInv' /\ KeepsPart
    <3> DEFINE rec == [proc[w] EXCEPT !.e = e, !.todo = t, !.pc = "repair"]
    <3>1. Rec(rec) /\ rec.pc \notin Storing
      BY <1>0 DEF Rec, Fields, Loads, Storing
    <3>2. Become(w, rec)
      BY <2>3
    <3> HIDE DEF rec
    <3>3. QED
      BY <2>1, <3>1, <3>2, Going
  <2>4. QED
    BY Zenon, <1>3, <2>2, <2>3 DEF getOnCluster
<1>4. CASE RepairLoad(w)
  <2> DEFINE rec == [proc[w] EXCEPT !.f = Loaded(Primary)]
  <2>1. PartOK' /\ KeepsPart /\ inFlight' = inFlight
    BY <1>4, Loading DEF RepairLoad, WriteInv
  <2>2. Rec(rec) /\ rec.pc = "repair" /\ proc[w].pc = "repair"
    BY <1>0, <1>4 DEF RepairLoad, Busy, Rec, Fields, Loads, Storing
  <2>3. Become(w, rec)
    BY <1>4 DEF RepairLoad
  <2> HIDE DEF rec
  <2>4. ProcOK' /\ CountOK'
    BY <2>1, <2>2, <2>3, Onwards DEF WriteInv, Storing
  <2>5. QED
    BY <2>1, <2>4 DEF WriteInv
<1>5. CASE RepairStore(w)
  <2> DEFINE rec == [proc[w] EXCEPT !.todo = @ \ {Owner}]
  <2>1. Rec(rec) /\ rec.pc \notin Storing
    BY <1>0, <1>5 DEF RepairStore, Busy, Rec, Fields, Loads, Storing
  <2>2. proc[w].pc \notin Storing /\ Become(w, rec) /\ UNCHANGED <<part, made, inFlight>>
    BY <1>5 DEF RepairStore, Busy, Storing
  <2> HIDE DEF rec
  <2>3. QED
    BY <2>1, <2>2, Going
<1>6. CASE GetReturn(w)
  BY <1>6, Ending DEF GetReturn, Busy, Storing, fragVars
<1>7. ASSUME NEW h \in Others, NEW fails \in BOOLEAN, getOnFragment(w, h, fails)
      PROVE  WriteInv' /\ KeepsPart
  <2>1. PICK vers : Become(w, [proc[w] EXCEPT !.todo = @ \ {h}, !.err = @ \/ fails, !.vers = vers])
    BY Zenon, <1>0, <1>7 DEF getOnFragment, Rec, Fields
  <2> DEFINE rec == [proc[w] EXCEPT !.todo = @ \ {h}, !.err = @ \/ fails, !.vers = vers]
  <2>2. Rec(rec) /\ rec.pc \notin Storing
    BY <1>0, <1>7 DEF getOnFragment, Rec, Fields, Loads, Storing
  <2>3. proc[w].pc \notin Storing /\ Become(w, rec) /\ UNCHANGED <<part, made, inFlight>>
    BY <1>7, <2>1 DEF getOnFragment, Storing, fragVars
  <2> HIDE DEF rec
  <2>4. QED
    BY <2>2, <2>3, Going
<1>8. QED
  BY <1>1, <1>2, <1>3, <1>4, <1>5, <1>6, <1>7 DEF Get

-----------------------------------------------------------------------------
(* The deletes.                                                            *)

\* The worker changes its own record; those that read the key may lose their floor.
LEMMA UnflooredStep ==
    ASSUME WriteInv, NEW w \in Worker,
           proc[w].pc \notin Storing,
           DOMAIN proc' = Worker,
           Rec(proc'[w]), proc'[w].pc \notin Storing,
           \A x \in Worker \ {w} :
               proc'[x] = proc[x] \/ proc'[x] = [proc[x] EXCEPT !.floor = 0],
           UNCHANGED <<part, made, inFlight>>
    PROVE  WriteInv' /\ KeepsPart
<1>0. ProcOK
  BY DEF WriteInv
<1>4. ASSUME NEW x \in Worker, x # w
      PROVE  Rec(proc'[x]) /\ proc'[x].pc = proc[x].pc /\ proc'[x].f = proc[x].f
  <2>1. Rec(proc[x])
    BY <1>0 DEF ProcOK
  <2>2. CASE proc'[x] = proc[x]
    BY <2>1, <2>2
  <2>3. CASE proc'[x] = [proc[x] EXCEPT !.floor = 0]
    <3> DEFINE low == [proc[x] EXCEPT !.floor = 0]
    <3>1. Rec(low) /\ low.pc = proc[x].pc /\ low.f = proc[x].f
      BY <2>1 DEF Rec, Fields, Loads
    <3>2. proc'[x] = low
      BY <2>3
    <3> HIDE DEF low
    <3>3. QED
      BY <3>1, <3>2
  <2>4. QED
    BY <1>4, <2>2, <2>3
<1>5. ProcOK'
  BY <1>4 DEF ProcOK
<1>6. SameWrites
  BY <1>4 DEF SameWrites
<1>7. QED
  BY <1>5, <1>6, SameCount DEF WriteInv, PartOK, KeepsPart

LEMMA DeleteStep ==
    ASSUME WriteInv, NEW w \in Worker, Delete(w)
    PROVE  WriteInv' /\ KeepsPart
<1>0. Rec(proc[w])
  BY DEF WriteInv, ProcOK
<1>1. CASE DelLoad(w)
  <2> DEFINE rec == [proc[w] EXCEPT !.df = Loaded(Primary), !.pc = "dlock"]
  <2>1. PartOK' /\ KeepsPart /\ inFlight' = inFlight
    BY <1>1, Loading DEF DelLoad, WriteInv
  <2>2. Rec(rec) /\ rec.pc = "dlock" /\ proc[w].pc = "dload"
    BY <1>0, <1>1 DEF DelLoad, Busy, Rec, Fields, Loads, Storing
  <2>3. Become(w, rec)
    BY <1>1 DEF DelLoad
  <2> HIDE DEF rec
  <2>4. ProcOK' /\ CountOK'
    BY <2>1, <2>2, <2>3, Onwards DEF WriteInv, Storing
  <2>5. QED
    BY <2>1, <2>4 DEF WriteInv
<1>2. CASE DelLock(w)
  <2> DEFINE rec == [proc[w] EXCEPT !.hit = (Victim(w) # None), !.n = Len(conf.prevs), !.pc = "dprev"]
  <2>1. DOMAIN proc' = Worker /\ proc'[w] = rec
    BY <1>2 DEF DelLock, Unfloored, AfterCheck
  <2>2. Rec(rec) /\ rec.pc \notin Storing
    BY <1>0, <1>2 DEF DelLock, Busy, Rec, Fields, Loads, Storing
  <2>3. \A x \in Worker \ {w} :
           proc'[x] = proc[x] \/ proc'[x] = [proc[x] EXCEPT !.floor = 0]
    BY Zenon, <1>2 DEF DelLock, Unfloored
  <2>4. proc[w].pc \notin Storing /\ UNCHANGED <<part, made, inFlight>>
    BY <1>2 DEF DelLock, Busy, Storing, fragVars
  <2> HIDE DEF rec
  <2>5. QED
    BY <2>1, <2>2, <2>3, <2>4, UnflooredStep
<1>3. CASE EvictLock(w)
  <2>1. proc[w].pc = "elock" /\ UNCHANGED <<part, made, inFlight>>
    BY <1>3 DEF EvictLock, Busy, fragVars
  <2>2. CASE Become(w, Idle)
    BY <2>1, <2>2, Ending DEF Storing
  <2>3. CASE Victim(w) # None /\ isKeyExpired(Victim(w))
    <3> DEFINE rec == [proc[w] EXCEPT !.hit = TRUE, !.n = Len(conf.prevs), !.pc = "dprev"]
    <3>1. DOMAIN proc' = Worker /\ proc'[w] = rec
      BY <1>3, <2>3 DEF EvictLock, Unfloored
    <3>2. Rec(rec) /\ rec.pc \notin Storing
      BY <1>0, <1>3, <2>3 DEF EvictLock, Busy, Rec, Fields, Loads, Storing
    <3>3. \A x \in Worker \ {w} :
             proc'[x] = proc[x] \/ proc'[x] = [proc[x] EXCEPT !.floor = 0]
      BY Zenon, <1>3, <2>3 DEF EvictLock, Unfloored
    <3>4. proc[w].pc \notin Storing /\ UNCHANGED <<part, made, inFlight>>
      BY <1>3, <2>3 DEF EvictLock, Busy, Storing, fragVars
    <3> HIDE DEF rec
    <3>5. QED
      BY <3>1, <3>2, <3>3, <3>4, UnflooredStep
  <2>4. QED
    BY <1>3, <2>2, <2>3 DEF EvictLock
<1>4. CASE deleteFromPreviousOwners(w)
  <2>1. ASSUME NEW rec, Become(w, rec),
               \/ rec = [proc[w] EXCEPT !.pc = "dback"]
               \/ \E m : rec = [proc[w] EXCEPT !.n = @ - 1, !.todo = {m}]
               \/ rec = [proc[w] EXCEPT !.err = TRUE]
        PROVE  WriteInv' /\ KeepsPart
    <3>1. Rec(rec) /\ rec.pc \notin Storing
      BY Zenon, <1>0, <1>4, <2>1 DEF deleteFromPreviousOwners, Busy, Rec, Fields, Loads, Storing
    <3>2. proc[w].pc \notin Storing /\ UNCHANGED <<part, made, inFlight>>
      BY <1>4 DEF deleteFromPreviousOwners, Busy, Storing, fragVars
    <3>3. QED
      BY Zenon, <2>1, <3>1, <3>2, Going
  <2>2. QED
    BY Zenon, <1>4, <2>1 DEF deleteFromPreviousOwners, Go
<1>5. CASE deleteBackupOnCluster(w)
  <2>1. ASSUME NEW rec, Become(w, rec),
               \/ rec = [proc[w] EXCEPT !.todo = Backups, !.pc = "dwait"]
               \/ rec = [proc[w] EXCEPT !.err = TRUE, !.pc = "dwait"]
        PROVE  WriteInv' /\ KeepsPart
    <3>1. Rec(rec) /\ rec.pc \notin Storing
      BY Zenon, <1>0, <1>5, <2>1 DEF deleteBackupOnCluster, Busy, Rec, Fields, Loads, Storing
    <3>2. proc[w].pc \notin Storing /\ UNCHANGED <<part, made, inFlight>>
      BY <1>5 DEF deleteBackupOnCluster, Busy, Storing, fragVars
    <3>3. QED
      BY <2>1, <3>1, <3>2, Going
  <2>2. QED
    BY Zenon, <1>5, <2>1 DEF deleteBackupOnCluster
<1>6. CASE DelFinish(w)
  <2>1. proc[w].pc \notin Storing /\ UNCHANGED <<part, made, inFlight>>
    BY <1>6 DEF DelFinish, Busy, Storing
  <2>2. CASE Become(w, Idle)
    BY <2>1, <2>2, Ending
  <2>3. CASE proc[w].do \in {"put", "blank", "expire"} /\ Go(w, "lock")
    <3> DEFINE rec == [proc[w] EXCEPT !.pc = "lock"]
    <3>1. Rec(rec) /\ rec.pc \notin Storing
      BY <1>0, <1>6, <2>3 DEF DelFinish, Busy, Rec, Fields, Loads, Storing
    <3>2. Become(w, rec)
      BY <2>3 DEF Go
    <3> HIDE DEF rec
    <3>3. QED
      BY <2>1, <3>1, <3>2, Going
  <2>4. QED
    BY <1>6, <2>2, <2>3 DEF DelFinish
<1>7. QED
  BY <1>1, <1>2, <1>3, <1>4, <1>5, <1>6 DEF Delete

-----------------------------------------------------------------------------
(* The writes.                                                             *)

LEMMA CountedFinite == \A f : IsFiniteSet(Counted(f))
  BY WorkerAssumption, FS_Subset DEF Counted

\* A write is counted when it gets to its section.
LEMMA Entering ==
    ASSUME WriteInv, NEW w \in Worker, NEW rec, Rec(rec), Become(w, rec),
           rec.pc \in Storing, rec.f = proc[w].f, proc[w].pc = "lock",
           inFlight' = [inFlight EXCEPT ![<<Primary, proc[w].f>>] = @ + 1],
           UNCHANGED <<part, made>>
    PROVE  WriteInv' /\ KeepsPart
<1>0. ProcOK /\ CountOK /\ proc[w].f \in 1 .. MaxFragments
  BY DEF WriteInv, ProcOK, Rec, Loads
<1>1. ProcOK' /\ proc'[w] = rec /\ \A x \in Worker : x # w => proc'[x] = proc[x]
  BY <1>0, OneWorker
<1>2. ASSUME NEW f \in 1 .. MaxFragments
      PROVE  inFlight'[<<Primary, f>>] = Cardinality(Counted(f)')
  <2>0. inFlight[<<Primary, f>>] = Cardinality(Counted(f)) /\ <<Primary, f>> \in DOMAIN inFlight
    BY <1>0, PrimaryPlace DEF CountOK
  <2>1. CASE f = proc[w].f
    <3>1. w \notin Counted(f) /\ Counted(f)' = Counted(f) \cup {w}
      BY <1>1, <2>1 DEF Counted, Storing
    <3>2. Cardinality(Counted(f)') = Cardinality(Counted(f)) + 1
      BY Zenon, <3>1, CountedFinite, FS_AddElement
    <3>3. QED
      BY <2>0, <2>1, <3>2
  <2>2. CASE f # proc[w].f
    <3>1. Counted(f)' = Counted(f)
      BY <1>1, <2>2 DEF Counted, Storing
    <3>2. QED
      BY <2>0, <2>2, <3>1
  <2>3. QED
    BY <2>1, <2>2
<1>3. QED
  BY <1>0, <1>1, <1>2 DEF WriteInv, CountOK, PartOK, KeepsPart

\* It is not any more when it leaves.
LEMMA Leaving ==
    ASSUME WriteInv, NEW w \in Worker, Become(w, Idle), proc[w].pc \in Storing,
           inFlight' = [inFlight EXCEPT ![<<Primary, proc[w].f>>] = @ - 1],
           UNCHANGED <<part, made>>
    PROVE  WriteInv' /\ KeepsPart
<1>0. ProcOK /\ CountOK /\ proc[w].f \in 1 .. MaxFragments
  BY DEF WriteInv, ProcOK, Rec, Loads
<1>1. ProcOK' /\ proc'[w] = Idle /\ \A x \in Worker : x # w => proc'[x] = proc[x]
  BY <1>0, OneWorker, IdleRec
<1>2. ASSUME NEW f \in 1 .. MaxFragments
      PROVE  inFlight'[<<Primary, f>>] = Cardinality(Counted(f)')
  <2>0. inFlight[<<Primary, f>>] = Cardinality(Counted(f)) /\ <<Primary, f>> \in DOMAIN inFlight
    BY <1>0, PrimaryPlace DEF CountOK
  <2>1. CASE f = proc[w].f
    <3>1. w \in Counted(f) /\ Counted(f)' = Counted(f) \ {w}
      BY <1>1, <2>1, IdleRec DEF Counted
    <3>2. Cardinality(Counted(f)') = Cardinality(Counted(f)) - 1
      BY Zenon, <3>1, CountedFinite, FS_RemoveElement
    <3>3. QED
      BY <2>0, <2>1, <3>2
  <2>2. CASE f # proc[w].f
    <3>1. Counted(f)' = Counted(f)
      BY <1>1, <2>2, IdleRec DEF Counted
    <3>2. QED
      BY <2>0, <2>2, <3>1
  <2>3. QED
    BY <2>1, <2>2
<1>3. QED
  BY <1>0, <1>1, <1>2 DEF WriteInv, CountOK, PartOK, KeepsPart

LEMMA PutStep ==
    ASSUME WriteInv, NEW w \in Worker, Put(w)
    PROVE  WriteInv' /\ KeepsPart
<1>0. Rec(proc[w])
  BY DEF WriteInv, ProcOK
<1>1. CASE PutLoad(w)
  <2> DEFINE rec == [proc[w] EXCEPT !.f = Loaded(Primary), !.pc = IF Single THEN "write" ELSE "room"]
  <2>1. PartOK' /\ KeepsPart /\ inFlight' = inFlight /\ Loaded(Primary) \in 1 .. MaxFragments
    BY <1>1, Loading DEF PutLoad, WriteInv
  <2>2. Rec(rec) /\ rec.pc \notin Storing /\ proc[w].pc \notin Storing
    BY <1>0, <1>1, <2>1 DEF PutLoad, Busy, Rec, Fields, Loads, Storing
  <2>3. Become(w, rec)
    BY <1>1 DEF PutLoad
  <2> HIDE DEF rec
  <2>4. ProcOK' /\ CountOK'
    BY <2>1, <2>2, <2>3, Onwards DEF WriteInv
  <2>5. QED
    BY <2>1, <2>4 DEF WriteInv
<1>2. CASE PutSingle(w)
  BY <1>2, Ending DEF PutSingle, Busy, Storing
<1>3. CASE evictForWrite(w)
  <2>1. proc[w].pc = "room" /\ UNCHANGED <<part, made, inFlight>>
    BY Zenon, <1>3 DEF evictForWrite, Busy, fragVars
  <2>2. ASSUME NEW rec, Become(w, rec),
               \/ rec = [proc[w] EXCEPT !.pc = "lock"]
               \/ \E v : rec = [proc[w] EXCEPT !.dkey = v, !.pc = "dload"]
        PROVE  WriteInv' /\ KeepsPart
    <3>1. Rec(rec) /\ rec.pc \notin Storing
      BY Zenon, <1>0, <2>1, <2>2 DEF Rec, Fields, Loads, Storing
    <3>2. QED
      BY Zenon, <2>1, <2>2, <3>1, Going DEF Storing
  <2>3. QED
    BY Zenon, <1>3, <2>2 DEF evictForWrite, Go
<1>4. CASE prepareWrite(w)
  <2>1. proc[w].pc = "lock" /\ UNCHANGED <<part, made>>
    BY <1>4 DEF prepareWrite, Busy
  <2>2. CASE Become(w, Idle) /\ inFlight' = inFlight
    BY <2>1, <2>2, Ending DEF Storing
  <2>3. CASE checkPutConditions(w) /\ Updatable(w, Current(w))
    <3> DEFINE rec == [proc[w] EXCEPT !.e = prepareEntry(w, Current(w)), !.n = 1,
                                      !.pc = IF conf.sync THEN "send" ELSE "store"]
    <3>1. Rec(rec) /\ rec.pc \in Storing /\ rec.f = proc[w].f
      BY <1>0, <2>1 DEF Rec, Fields, Loads, Storing
    <3>2. Become(w, rec) /\ inFlight' = [inFlight EXCEPT ![<<Primary, proc[w].f>>] = @ + 1]
      BY <1>4, <2>3 DEF prepareWrite, FragmentOf
    <3> HIDE DEF rec
    <3>3. QED
      BY Zenon, <2>1, <3>1, <3>2, Entering
  <2>4. QED
    BY <1>4, <2>2, <2>3 DEF prepareWrite
<1>5. CASE PutSend(w)
  <2>1. proc[w].pc = "send" /\ UNCHANGED <<part, made, inFlight>>
    BY <1>5 DEF PutSend, Busy, fragVars
  <2>2. ASSUME NEW rec, Become(w, rec),
               \/ rec = [proc[w] EXCEPT !.n = @ + 1]
               \/ \E t : rec = [proc[w] EXCEPT !.n = @ + 1, !.todo = t, !.succ = @ + 1]
        PROVE  WriteInv' /\ KeepsPart
    <3>1. Rec(rec) /\ rec.pc = "send" /\ rec.f = proc[w].f
      BY Zenon, <1>0, <2>1, <2>2 DEF Rec, Fields, Loads, Storing
    <3>2. QED
      BY Zenon, <2>1, <2>2, <3>1, Going
  <2>3. QED
    BY Zenon, <1>5, <2>2 DEF PutSend
<1>6. CASE PutAbort(w) \/ PutSync(w) \/ PutAsync(w)
  BY Zenon, <1>6, Leaving DEF PutAbort, PutSync, PutAsync, Release, FragmentOf, Busy, Storing
<1>7. QED
  BY <1>1, <1>2, <1>3, <1>4, <1>5, <1>6 DEF Put

-----------------------------------------------------------------------------
(* The requests between members, the faults and the background work.       *)

\* Nobody's place in the code changes.
LEMMA ToldStep ==
    ASSUME WriteInv, NEW r, NEW good, proc' = Told(r, good),
           UNCHANGED <<part, made, inFlight>>
    PROVE  WriteInv' /\ KeepsPart
<1>1. CASE proc' = proc
  <2>1. SameWrites /\ ProcOK'
    BY <1>1 DEF SameWrites, WriteInv, ProcOK
  <2>2. QED
    BY <2>1, SameCount DEF WriteInv, PartOK, KeepsPart
<1>2. CASE r.by \in Worker /\ proc' # proc
  <2> DEFINE rec == [proc[r.by] EXCEPT !.todo = @ \ {r.to}, !.err = @ \/ ~good]
  <2>1. Become(r.by, rec)
    BY Zenon, <1>2 DEF Told, Become, WriteInv, ProcOK
  <2>2. Rec(rec) /\ rec.pc = proc[r.by].pc /\ rec.f = proc[r.by].f
    BY <1>2 DEF WriteInv, ProcOK, Rec, Fields, Loads
  <2> HIDE DEF rec
  <2>3. QED
    BY <1>2, <2>1, <2>2, Going
<1>3. QED
  BY <1>1, <1>2 DEF Told

\* No worker moves, and no fragment comes or goes.
LEMMA QuietStep ==
    ASSUME WriteInv, UNCHANGED <<part, made, inFlight, proc>>
    PROVE  WriteInv' /\ KeepsPart
<1>1. SameWrites /\ ProcOK'
  BY DEF SameWrites, WriteInv, ProcOK
<1>2. QED
  BY <1>1, SameCount DEF WriteInv, PartOK, KeepsPart

LEMMA ServeStep ==
    ASSUME WriteInv, NEW r, Serve(r) \/ \E arrives \in BOOLEAN : Fail(r, arrives)
    PROVE  WriteInv' /\ KeepsPart
<1>1. CASE putEntryCommandHandler(r) \/ moveFragmentCommandHandler(r)
  <2>1. loadOrCreateFragment(To(r)) /\ proc' = proc
    BY <1>1 DEF putEntryCommandHandler, moveFragmentCommandHandler, ServeLoad
  <2>2. PartOK' /\ KeepsPart /\ inFlight' = inFlight
    BY <2>1, Loading DEF WriteInv
  <2>3. ProcOK' /\ SameWrites
    BY <2>1 DEF WriteInv, ProcOK, SameWrites
  <2>4. QED
    BY <2>2, <2>3, SameCount DEF WriteInv
<1>2. CASE putOnReplicaFragment(r) \/ delEntryCommandHandler(r)
  BY Zenon, <1>2, ToldStep DEF putOnReplicaFragment, delEntryCommandHandler
<1>3. CASE mergeFragments(r)
  BY <1>3, QuietStep DEF mergeFragments
<1>4. CASE \E arrives \in BOOLEAN : Fail(r, arrives)
  BY Zenon, <1>4, ToldStep DEF Fail
<1>5. QED
  BY <1>1, <1>2, <1>3, <1>4 DEF Serve

LEMMA MemberStep ==
    ASSUME WriteInv, NEW m \in Others, Crash(m) \/ Notice(m) \/ moveTable(m) \/ Replicate(m)
    PROVE  WriteInv' /\ KeepsPart
<1>1. CASE Crash(m)
  <2>1. DOMAIN part' = Place /\ part'[Primary] = part[Primary]
    BY <1>1, PrimaryPlace, OwnerAssumption DEF Crash, Primary
  <2>2. PartOK' /\ KeepsPart
    BY <1>1, <2>1 DEF Crash, PartOK, WriteInv, KeepsPart
  <2>3. ProcOK' /\ SameWrites /\ inFlight' = inFlight
    BY <1>1 DEF Crash, WriteInv, ProcOK, SameWrites
  <2>4. QED
    BY <2>2, <2>3, SameCount DEF WriteInv
<1>2. CASE Notice(m) \/ moveTable(m) \/ Replicate(m)
  BY Zenon, <1>2, QuietStep DEF Notice, moveTable, Replicate, fragVars
<1>3. QED
  BY <1>1, <1>2

LEMMA JanitorStep ==
    ASSUME WriteInv, NEW p \in Place, janitor(p)
    PROVE  WriteInv' /\ (KeepsPart \/ Unguarded)
<1>1. ProcOK' /\ SameWrites /\ inFlight' = inFlight
  BY DEF janitor, wipeOutFragment, WriteInv, ProcOK, SameWrites
<1>2. PartOK'
  BY FragmentsAssumption, PrimaryPlace DEF janitor, wipeOutFragment, WriteInv, PartOK
<1>3. CASE p # Primary
  <2>1. KeepsPart
    BY <1>3, PrimaryPlace DEF janitor, wipeOutFragment, WriteInv, PartOK, KeepsPart
  <2>2. QED
    BY <1>1, <1>2, <2>1, SameCount DEF WriteInv
<1>4. CASE p = Primary
  <2>1. part[Primary] \in 1 .. MaxFragments /\ inFlight[<<Primary, part[Primary]>>] = 0
    BY <1>4, FragmentsAssumption DEF janitor, At, WriteInv, PartOK
  <2>2. Cardinality(Counted(part[Primary])) = 0
    BY <2>1 DEF WriteInv, CountOK
  <2>3. Counted(part[Primary]) = {}
    BY <2>2, CountedFinite, FS_EmptySet
  <2>4. Has(At(Primary)) = {}
    BY <1>4 DEF janitor
  <2>5. QED
    BY <1>1, <1>2, <2>3, <2>4, SameCount DEF Counted, Unguarded, WriteInv
<1>5. QED
  BY <1>3, <1>4

-----------------------------------------------------------------------------
LEMMA WriteStep ==
    ASSUME WriteInv, [Next]_vars
    PROVE  WriteInv' /\ (KeepsPart \/ Unguarded)
<1>1. CASE UNCHANGED vars
  BY <1>1, QuietStep DEF vars, fragVars
<1>2. ASSUME NEW w \in Worker, NEW r \in Request, NEW k \in Key,
             \/ putCommandHandler(w, r, k) \/ expireCommandHandler(w, r, k)
             \/ delCommandHandler(w, r, k) \/ getCommandHandler(w, r, k)
             \/ Redirect(w, r, k)
      PROVE  WriteInv' /\ KeepsPart
  BY <1>2, ServesStep DEF putCommandHandler, expireCommandHandler, delCommandHandler,
                          getCommandHandler, Redirect
<1>3. ASSUME NEW w \in Worker, Put(w) \/ Delete(w) \/ Get(w) \/ \E k \in Key : EvictSample(w, k)
      PROVE  WriteInv' /\ KeepsPart
  BY <1>3, PutStep, DeleteStep, GetStep, SampleStep
<1>4. ASSUME NEW t, Lapse(t) PROVE WriteInv' /\ KeepsPart
  BY <1>4, QuietStep DEF Lapse, fragVars
<1>5. QED
  BY <1>1, <1>2, <1>3, <1>4, ServeStep, MemberStep, JanitorStep DEF Next

\* In every deployment the counter of the writes in flight (fragment.inFlight) of
\* the owner's fragments is the number of the writes between prepareWrite and the
\* release that follows their store or their failure.
THEOREM InFlightExact == Spec => []WriteInv
<1>1. WriteInv /\ [Next]_vars => WriteInv'
  BY WriteStep
<1>2. QED
  BY <1>1, WriteInit, PTL DEF Spec

\* For every number of workers and keys and every deployment: no step takes the
\* fragment away from under a write that is between its preparation and its
\* store, the janitor's wipeOutFragment of an empty fragment included.
THEOREM InFlightKeepsFragmentHolds == Spec => InFlightKeepsFragment
<1>1. ASSUME WriteInv, [Next]_vars
      PROVE  [\A w \in Worker :
                 proc[w].pc \in {"send", "store"} /\ part[Primary] = proc[w].f
                     => part'[Primary] = proc[w].f]_vars
  <2> SUFFICES ASSUME NEW w \in Worker, proc[w].pc \in {"send", "store"}, part[Primary] = proc[w].f
               PROVE  part'[Primary] = proc[w].f
    OBVIOUS
  <2>1. part[Primary] # 0
    BY <1>1, FragmentsAssumption DEF WriteInv, ProcOK, Rec, Loads, Storing
  <2>2. ~Unguarded
    BY DEF Unguarded, Storing
  <2>3. QED
    BY <1>1, <2>1, <2>2, WriteStep DEF KeepsPart
<1>2. QED
  BY <1>1, InFlightExact, PTL DEF Spec, InFlightKeepsFragment

-----------------------------------------------------------------------------
(* The lock of a key.                                                      *)

LEMMA OwnerInit == Init => BaseInv /\ LockInv
  BY WriteInit, BaseInit

LEMMA OwnerStep ==
    ASSUME BaseInv, LockInv, [Next]_vars
    PROVE  BaseInv' /\ LockInv' /\ (KeepsPart \/ Unguarded)
<1>1. WriteInv' /\ (KeepsPart \/ Unguarded)
  BY WriteStep DEF BaseInv
<1>2. QED
  BY <1>1, BaseStep, LockStep

\* Whoever is between prepareWrite and the release of a write, or between the
\* check and the release of a delete, holds the lock of its key, in every
\* deployment: writes, deletes, evictions for room and evictions of expired
\* entries exclude each other key by key, across all their remote calls.
THEOREM KeyLockHeld == Spec => [](BaseInv /\ LockInv)
<1>1. BaseInv /\ LockInv /\ [Next]_vars => (BaseInv /\ LockInv)'
  BY OwnerStep
<1>2. QED
  BY <1>1, OwnerInit, PTL DEF Spec

\* A conditional write replaces no live entry: from the check to the store it
\* holds the key lock, nobody else writes the entry, and an expired entry stays
\* expired.
THEOREM NXKeepsLiveHolds == Spec => NXKeepsLive
<1> DEFINE Inv == BaseInv /\ LockInv /\ DataInv /\ NXInv
<1>1. Init => Inv
  <2>1. Init => NXInv
    BY DEF Init, NXInv, Idle
  <2>2. QED
    BY <2>1, OwnerInit, DataInit
<1>2. Inv /\ [Next]_vars => Inv'
  BY OwnerStep, DataStep, NXStep
<1> DEFINE A == \A w \in Worker :
                   proc[w].cond = "nx" /\ Busy(w, "send") /\ must' # must
                           /\ Busy(w, "idle")' /\ conf.prevs = <<>> /\ ~conf.repair
                       => Current(w) = None \/ isKeyExpired(Current(w))
<1>3. Inv => A
  BY DEF NXInv, Busy, Storing
<1>4. Inv /\ [Next]_vars => [A]_vars
  BY <1>3
<1> HIDE DEF Inv, A
<1>5. Spec => []Inv
  BY <1>1, <1>2, PTL DEF Spec
<1>6. Spec => [][A]_vars
  BY <1>4, <1>5, PTL DEF Spec
<1>7. QED
  BY <1>6 DEF NXKeepsLive, A

-----------------------------------------------------------------------------
(* The share of MaxKeys.                                                   *)

LimitInv ==
    Single /\ conf.limit > 0 /\ Primary \notin conf.held =>
        \A i \in 1 .. MaxFragments : Cardinality(Has(<<Primary, i>>)) <= conf.limit

LEMMA HasFinite == ASSUME NEW f PROVE IsFiniteSet(Has(f)) /\ Cardinality(Has(f)) \in Nat
<1>1. Has(f) \subseteq Key
  BY DEF Has
<1>2. QED
  BY <1>1, KeyAssumption, FS_Subset, FS_CardinalityType

\* One key more, one key fewer.
LEMMA Room ==
    ASSUME NEW S, IsFiniteSet(S), NEW k, NEW v, NEW T
    PROVE  /\ T \subseteq S => Cardinality(T) <= Cardinality(S)
           /\ T \subseteq S \cup {k} => Cardinality(T) <= Cardinality(S) + 1
           /\ v \in S /\ T \subseteq (S \ {v}) \cup {k} => Cardinality(T) <= Cardinality(S)
<1>1. \A X, Y : IsFiniteSet(X) /\ Y \subseteq X
                   => IsFiniteSet(Y) /\ Cardinality(Y) <= Cardinality(X)
  BY FS_Subset
<1>2. \A X : IsFiniteSet(X) => /\ IsFiniteSet(X \cup {k}) /\ Cardinality(X) \in Nat
                               /\ Cardinality(X \cup {k}) \in Nat
                               /\ Cardinality(X \cup {k}) <= Cardinality(X) + 1
  <2> TAKE X
  <2> HAVE IsFiniteSet(X)
  <2>1. Cardinality(X) \in Nat
    BY FS_CardinalityType
  <2>2. /\ IsFiniteSet(X \cup {k})
        /\ Cardinality(X \cup {k}) = IF k \in X THEN Cardinality(X) ELSE Cardinality(X) + 1
    BY FS_AddElement
  <2>3. QED
    BY <2>1, <2>2
<1>3. v \in S => IsFiniteSet(S \ {v}) /\ Cardinality(S \ {v}) = Cardinality(S) - 1
  BY FS_RemoveElement
<1>4. IsFiniteSet(T) => Cardinality(T) \in Nat
  BY FS_CardinalityType
<1>5. T \subseteq S => Cardinality(T) <= Cardinality(S)
  BY <1>1
<1>6. ASSUME T \subseteq S \cup {k} PROVE Cardinality(T) <= Cardinality(S) + 1
  <2>1. Cardinality(T) <= Cardinality(S \cup {k}) /\ IsFiniteSet(T)
    BY <1>1, <1>2, <1>6
  <2>2. QED
    BY <1>2, <1>4, <2>1
<1>7. ASSUME v \in S, T \subseteq (S \ {v}) \cup {k} PROVE Cardinality(T) <= Cardinality(S)
  <2>1. IsFiniteSet(S \ {v}) /\ Cardinality(S \ {v}) = Cardinality(S) - 1
    BY <1>3, <1>7
  <2>2. Cardinality(T) <= Cardinality((S \ {v}) \cup {k}) /\ IsFiniteSet(T)
    BY <1>1, <1>2, <1>7, <2>1
  <2>3. Cardinality((S \ {v}) \cup {k}) <= Cardinality(S \ {v}) + 1
           /\ Cardinality((S \ {v}) \cup {k}) \in Nat /\ Cardinality(S) \in Nat
    BY Zenon, <1>2, <2>1
  <2>4. Cardinality(T) \in Nat
    BY <1>4, <2>2
  <2>5. QED
    BY <2>1, <2>2, <2>3, <2>4
<1>8. QED
  BY <1>5, <1>6, <1>7

LEMMA LimitStep == ASSUME BaseInv, DataInv, LimitInv, [Next]_vars PROVE LimitInv'
<1>0. /\ ProcOK /\ conf \in Deployments /\ conf' = conf /\ \A w \in Worker : Asks(proc[w])
  BY SameConf DEF BaseInv, WriteInv
<1> SUFFICES ASSUME Single, conf.limit > 0, Primary \notin conf.held, NEW i \in 1 .. MaxFragments
             PROVE  Cardinality(Has(<<Primary, i>>)') <= conf.limit
  BY <1>0 DEF LimitInv, Single
<1> DEFINE g == <<Primary, i>>
<1>1. conf.prevs = <<>> /\ conf.limit \in Nat /\ Quiet
  BY <1>0, DeploymentAssumption DEF Single, Quiet
<1>2. Typed /\ (\A w \in Worker : ReadTyped(proc[w])) /\ g \in Fragment
  BY <1>1, Places DEF DataInv
<1>3. Cardinality(Has(g)) <= conf.limit /\ IsFiniteSet(Has(g)) /\ Cardinality(Has(g)) \in Nat
  BY HasFinite DEF LimitInv
<1>4. Cardinality(Has(g)') \in Nat
  <2>1. Has(g)' \subseteq Key
    BY DEF Has
  <2>2. QED
    BY <2>1, KeyAssumption, FS_Subset, FS_CardinalityType
<1>5. ASSUME Has(g)' \subseteq Has(g) PROVE Cardinality(Has(g)') <= conf.limit
  <2>1. Cardinality(Has(g)') <= Cardinality(Has(g))
    BY <1>3, <1>5, Room
  <2>2. QED
    BY <1>1, <1>3, <1>4, <2>1
<1>6. ASSUME NEW w \in Worker, PutSingle(w) PROVE Cardinality(Has(g)') <= conf.limit
  <2>1. CASE Still
    BY <1>5, <2>1 DEF Still, Has
  <2>2. ASSUME NEW victims \in Victims(w), SingleWrite(w, victims)
        PROVE  Cardinality(Has(g)') <= conf.limit
    <3> DEFINE f == FragmentOf(w)
               k == proc[w].key
               kept == [x \in Key |-> IF x \in victims THEN None ELSE data[f][x]]
               stores == Updatable(w, kept[k])
               new == IF stores THEN [kept EXCEPT ![k] = prepareEntry(w, kept[k])] ELSE kept
    <3>0. data' = [data EXCEPT ![f] = new]
      BY <2>2 DEF SingleWrite
    <3>1. \A x \in Key : x # k => new[x] = kept[x]
      OBVIOUS
    <3> HIDE DEF new
    <3>2. CASE g # f
      BY <1>2, <1>5, <3>0, <3>2 DEF Has, Typed
    <3>3. CASE g = f
      <4>1. \A x \in Key : x # k /\ data'[g][x] # None => x \notin victims /\ data[g][x] # None
        BY <1>2, <3>0, <3>1, <3>3 DEF Typed
      <4>2. Has(g)' \subseteq (Has(g) \ victims) \cup {k}
        BY <4>1 DEF Has
      <4>3. CASE lruOverLimit(g)
        <5>1. PICK v \in Has(g) : victims = {v}
          BY <3>3, <4>3 DEF Victims, lruVictim
        <5>2. Cardinality(Has(g)') <= Cardinality(Has(g))
          BY Zenon, <1>3, <4>2, <5>1, Room
        <5>3. QED
          BY <1>1, <1>3, <1>4, <5>2
      <4>4. CASE ~lruOverLimit(g)
        <5>1. Cardinality(Has(g)) < conf.limit
          BY <1>1, <1>3, <4>4, FS_EmptySet DEF lruOverLimit
        <5>2. Cardinality(Has(g)') <= Cardinality(Has(g)) + 1
          BY Zenon, <1>3, <4>2, Room
        <5>3. QED
          BY <1>1, <1>3, <1>4, <5>1, <5>2
      <4>5. QED
        BY <4>3, <4>4
    <3>4. QED
      BY <3>2, <3>3
  <2>3. QED
    BY <1>6, <2>1, <2>2, SingleEffect
<1>7. ASSUME ~\E w \in Worker : PutSingle(w), NEW j \in Key
      PROVE  data'[g][j] \in {data[g][j], None}
  <2>1. ASSUME NEW w \in Worker, RepairStore(w) PROVE FALSE
    BY <1>2, <2>1 DEF RepairStore, Busy, ReadTyped
  <2>2. ASSUME NEW w \in Worker, PutSync(w) \/ PutAsync(w) PROVE FALSE
    <3>1. proc[w].pc \in Storing
      BY <2>2, Zenon DEF PutSync, PutAsync, Busy, Storing
    <3>2. QED
      BY <1>0, <3>1 DEF Asks
  <2>3. ASSUME NEW r \in net, mergeFragments(r), To(r) = Primary PROVE FALSE
    <3>1. Sent(r) /\ r.op = "merge" /\ r.kind = "primary"
      BY <2>3 DEF BaseInv, mergeFragments, To, Primary
    <3>2. QED
      BY <1>1, <3>1 DEF Sent, Prevs, Range
  <2>4. QED
    BY <1>2, <1>7, <2>1, <2>2, <2>3, Cells DEF Cell
<1>8. CASE ~\E w \in Worker : PutSingle(w)
  BY <1>5, <1>7, <1>8 DEF Has
<1>9. QED
  BY <1>6, <1>8

\* Without replicas no fragment of the owner ever holds more keys than its
\* share of MaxKeys, a detached one included: an eviction makes room under the
\* same fragment lock as the store.
THEOREM LimitHeldHolds == Spec => []LimitHeld
<1> DEFINE Inv == BaseInv /\ LockInv /\ DataInv /\ LimitInv
<1>1. Init => Inv
  <2>1. ASSUME Init PROVE LimitInv
    <3> SUFFICES ASSUME Primary \notin conf.held, NEW i \in 1 .. MaxFragments, conf.limit > 0
                 PROVE  Cardinality(Has(<<Primary, i>>)) <= conf.limit
      BY DEF LimitInv
    <3>1. Has(<<Primary, i>>) = {}
      BY <2>1, Places DEF Init, Has
    <3>2. Cardinality(Has(<<Primary, i>>)) = 0
      BY <3>1, FS_EmptySet
    <3>3. conf.limit \in Nat
      BY <2>1, DeploymentAssumption DEF Init
    <3>4. QED
      BY <3>2, <3>3
  <2>2. QED
    BY <2>1, OwnerInit, DataInit
<1>2. Inv /\ [Next]_vars => Inv'
  BY OwnerStep, DataStep, LimitStep
<1>3. Inv => LimitHeld
  BY DEF LimitInv, LimitHeld, At, BaseInv, WriteInv, PartOK
<1> HIDE DEF Inv
<1>4. QED
  BY <1>1, <1>2, <1>3, PTL DEF Spec

-----------------------------------------------------------------------------
(* Acknowledged writes.                                                    *)

\* In every deployment without read repair (and, without replicas, without the
\* eviction of expired entries) an acknowledged write or a newer one stays with
\* the owner until a delete of its key begins, and what a previous owner brought
\* along stays with it or with the owner throughout its move: whatever writes,
\* deletes, evictions, merges, failed and late calls, crashes of backups and
\* sweeps of the janitor come in between.
THEOREM AckedKeptHolds == Spec => []AckedKept
<1> DEFINE Inv == BaseInv /\ LockInv /\ DataInv /\ KeptInv
<1>1. Init => Inv
  BY OwnerInit, DataInit, KeptInit
<1>2. Inv /\ [Next]_vars => Inv'
  BY OwnerStep, DataStep, KeptStep
<1>3. Inv => AckedKept
  <2> SUFFICES ASSUME Inv, NEW k \in Key, must[k] > 0, must[k] \notin stray, Prevs \subseteq up, Keeps
               PROVE  \E m \in {Owner} \cup Prevs : Kept(m, k)
    BY DEF AckedKept, Kept, Keeps
  <2>1. must[k] = 1 \/ must[k] > 1
    BY DEF BaseInv
  <2>2. QED
    BY <2>1 DEF KeptInv, OwnerHas, SomeoneHas
<1> HIDE DEF Inv
<1>4. QED
  BY <1>1, <1>2, <1>3, PTL DEF Spec
=============================================================================
