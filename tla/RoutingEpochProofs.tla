-------------------------- MODULE RoutingEpochProofs --------------------------
(***************************************************************************)
(* A generation is one epoch: RoutingTable.GenerationIsOneEpoch, for every *)
(* cluster and every bound.                                                *)
(***************************************************************************)
EXTENDS RoutingTableProofs
-----------------------------------------------------------------------------
\* Two live members do not share an address, and a member hears of no leave of
\* itself and of no other member at its own address.
NameInv ==
    /\ \A m, n \in Node : Up(m) /\ Up(n) /\ NameOf[m] = NameOf[n] => m = n
    /\ \A n \in Node : \A i \in DOMAIN inbox[n] :
          /\ inbox[n][i].kind = "leave" => inbox[n][i].node # n
          /\ inbox[n][i].kind = "update" =>
                inbox[n][i].node = n \/ NameOf[inbox[n][i].node] # NameOf[n]

\* A coordinator that was in its own snapshot is in the ring as well.
ListedInv == \A n \in Node : job[n].st = "snap" /\ n \in job[n].snap => n \in members[n]

\* A member has not seen a number of its own above its tableSequence.
OwnInv ==
    /\ \A n \in Node : version[n].coord = n => version[n].seq <= tableSeq[n]
    /\ \A p \in pushes : p.from = p.to \/ p.st # "late" => p.seq <= tableSeq[p.from]
    /\ \A n \in Node : \A r \in retry[n] : r.seq <= tableSeq[n]
    /\ \A n \in Node : job[n].st = "push" => job[n].seq <= tableSeq[n]

\* A new table is on its way to the coordinator itself, or installed there
\* under a generation no epoch has had.
SelfPush(n) == [st |-> "fan", from |-> n, to |-> n, sig |-> job[n].sig, seq |-> job[n].seq]
NewTable(n) == job[n].st = "push" /\ job[n].changed /\ ~job[n].failed /\ n \in job[n].snap
Numbered(n) ==
    /\ SelfPush(n) \in pushes
    /\ job[n].seq > 0 /\ job[n].seq = tableSeq[n]
    /\ version[n].coord = n => version[n].seq < job[n].seq
GenInv ==
    /\ \A n \in Node : epoch[n].gen <= version[n].gen
    /\ \A n \in Node : NewTable(n) => epoch[n].gen < version[n].gen \/ Numbered(n)

EpochInv == NameInv /\ ListedInv /\ OwnInv /\ GenInv

LEMMA NameInit == Init => NameInv
<1> SUFFICES ASSUME Init PROVE NameInv
  OBVIOUS
<1>1. \A n \in Node : Up(n) => n \in Initial
  BY DEF Init, Up
<1>2. \A n \in Node : \A i \in DOMAIN inbox[n] : inbox[n][i].kind = "join"
  BY DEF Init, Joins
<1> QED
  BY <1>1, <1>2, NameAssumption DEF NameInv

\* What may stand in the queue of events of member n.
Proper(n, e) ==
    /\ e.kind = "leave" => e.node # n
    /\ e.kind = "update" => e.node = n \/ NameOf[e.node] # NameOf[n]

LEMMA ProperAppend ==
    ASSUME TypeOK, NameInv, NEW n \in Node, NEW e \in Events, Proper(n, e)
    PROVE  \A i \in DOMAIN Append(inbox[n], e) : Proper(n, Append(inbox[n], e)[i])
<1>1. inbox[n] \in Seq(Events)
  BY DEF TypeOK
<1>2. \A i \in DOMAIN inbox[n] : Proper(n, inbox[n][i])
  BY DEF NameInv, Proper
<1> QED
  BY <1>1, <1>2

LEMMA ProperTail ==
    ASSUME TypeOK, NameInv, NEW n \in Node, inbox[n] # <<>>
    PROVE  \A i \in DOMAIN Tail(inbox[n]) : Proper(n, Tail(inbox[n])[i])
<1>1. inbox[n] \in Seq(Events)
  BY DEF TypeOK
<1>2. \A i \in DOMAIN inbox[n] : Proper(n, inbox[n][i])
  BY DEF NameInv, Proper
<1> QED
  BY <1>1, <1>2

LEMMA NameStep == TypeOK /\ NameInv /\ [Next]_vars => NameInv'
<1> SUFFICES ASSUME TypeOK, NameInv, [Next]_vars PROVE NameInv'
  OBVIOUS
<1> USE DEF vars, memberVars, tableVars, coordVars, localVars, netVars
<1>0. /\ up \in [Node -> {"off", "starting", "booting", "running", "gone"}]
      /\ inbox \in [Node -> Seq(Events)]
  BY DEF TypeOK
<1>1. ASSUME \A n \in Node : Up(n)' => Up(n), inbox' = inbox PROVE NameInv'
  BY <1>1 DEF NameInv
<1>2. ASSUME NEW n \in Node, NEW e \in Events, Proper(n, e), UNCHANGED up,
             inbox' = [inbox EXCEPT ![n] = Append(@, e)]
      PROVE  NameInv'
  <2>1. \A k \in Node : inbox'[k] = IF k = n THEN Append(inbox[n], e) ELSE inbox[k]
    BY <1>0, <1>2
  <2>2. \A k \in Node : \A i \in DOMAIN inbox'[k] : Proper(k, inbox'[k][i])
    BY <1>2, <2>1, ProperAppend DEF NameInv, Proper
  <2> QED
    BY <1>2, <2>2 DEF NameInv, Proper, Up
<1>3. ASSUME NEW n \in Node, NEW p \in Node, NodeUp(n, p) PROVE NameInv'
  <2>1. /\ ~Up(n) /\ Up(p) /\ NameOf[p] # NameOf[n]
        /\ \A m \in Node : Up(m) => NameOf[m] # NameOf[n]
        /\ \A m \in Node : Up(m)' => Up(m) \/ m = n
    BY <1>0, <1>3 DEF NodeUp, Up
  <2>2. Arrival(p, n) \in Events /\ Proper(p, Arrival(p, n))
    BY <2>1 DEF Arrival, Events, Proper
  <2>3. PICK order \in Orders(Added(view[p], n) \ {n}) :
            inbox' = [inbox EXCEPT ![n] = Joins(order), ![p] = Append(@, Arrival(p, n))]
    BY Zenon, <1>3 DEF NodeUp
  <2> DEFINE e == Arrival(p, n)
             js == Joins(order)
  <2>4. \A i \in DOMAIN js : Proper(n, js[i])
    BY DEF Joins, Proper
  <2>5. \A i \in DOMAIN Append(inbox[p], e) : Proper(p, Append(inbox[p], e)[i])
    BY <2>2, ProperAppend
  <2> HIDE DEF e, js
  <2>6. p # n /\ inbox' = [inbox EXCEPT ![n] = js, ![p] = Append(@, e)]
    BY <2>1, <2>3 DEF e, js
  <2>7. \A k \in Node : inbox'[k] = IF k = n THEN js
                                    ELSE IF k = p THEN Append(inbox[p], e) ELSE inbox[k]
    BY <1>0, <2>6
  <2>8. \A k \in Node : \A i \in DOMAIN inbox'[k] : Proper(k, inbox'[k][i])
    BY Zenon, <2>4, <2>5, <2>7 DEF NameInv, Proper
  <2> QED
    BY <2>1, <2>8 DEF NameInv, Proper
<1>4. ASSUME NEW n \in Node, NEW m \in Node, GossipAlive(n, m) PROVE NameInv'
  <2>1. Arrival(n, m) \in Events /\ Proper(n, Arrival(n, m))
    BY <1>4 DEF Arrival, Events, Proper, GossipAlive, NameInv
  <2> QED
    BY Zenon, <1>2, <1>4, <2>1 DEF GossipAlive
<1>5. ASSUME NEW n \in Node, NEW m \in Node, GossipDead(n, m) PROVE NameInv'
  <2>1. [kind |-> "leave", node |-> m] \in Events /\ Proper(n, [kind |-> "leave", node |-> m])
    BY <1>5 DEF Events, Proper, GossipDead
  <2> QED
    BY Zenon, <1>2, <1>5, <2>1 DEF GossipDead
<1>6. ASSUME NEW n \in Node, NEW kind, NEW m \in Node, Takes(n, kind, m) PROVE NameInv'
  <2>1. inbox' = [inbox EXCEPT ![n] = Tail(@)] /\ UNCHANGED up /\ inbox[n] # <<>>
    BY <1>6 DEF Takes
  <2>2. \A k \in Node : inbox'[k] = IF k = n THEN Tail(inbox[n]) ELSE inbox[k]
    BY <1>0, <2>1
  <2>3. \A k \in Node : \A i \in DOMAIN inbox'[k] : Proper(k, inbox'[k][i])
    BY <2>1, <2>2, ProperTail DEF NameInv, Proper
  <2> QED
    BY <2>1, <2>3 DEF NameInv, Proper, Up
<1>7. ASSUME NEW n \in Node, Stopped(n) PROVE NameInv'
  <2>1. \A m \in Node : Up(m)' => Up(m)
    BY <1>0, <1>7 DEF Stopped, Up
  <2>2. \A k \in Node : inbox'[k] = IF k = n THEN <<>> ELSE inbox[k]
    BY <1>0, <1>7 DEF Stopped
  <2> QED
    BY <2>1, <2>2 DEF NameInv
<1>8. ASSUME NEW n \in Node, Start(n) PROVE NameInv'
  BY <1>0, <1>1, <1>8 DEF Start, Up
<1>9. ASSUME NEW n \in Node, Finish(n) PROVE NameInv'
  BY <1>0, <1>1, <1>9 DEF Finish, Up
<1>10. CASE UNCHANGED <<up, inbox>>
  BY <1>1, <1>10 DEF Up
<1>11. CASE Gossip
  BY <1>3, <1>4, <1>5, <1>11 DEF Gossip
<1>12. CASE Listen
  <2>1. ASSUME NEW n \in Node, ListenerSkips(n) PROVE UNCHANGED <<up, inbox>>
    BY <2>1 DEF ListenerSkips
  <2> QED
    BY Zenon, <1>6, <1>10, <1>12, <2>1 DEF Listen, Process, ProcessJoin, ProcessLeave, ProcessUpdate
<1>13. CASE Coordinate
  <2>1. ASSUME NEW n, NEW by, Snapshot(n, by) PROVE UNCHANGED <<up, inbox>>
    BY <2>1 DEF Snapshot
  <2>2. ASSUME NEW n, NEW v, Compute(n, v) PROVE UNCHANGED <<up, inbox>>
    BY <2>2 DEF Compute
  <2>3. ASSUME NEW n, NEW r, \/ RetrySend(n, r) \/ RetryEnds(n, r)
                             \/ LatePushReported(n, r) \/ AdmitLatePush(n, r)
        PROVE  UNCHANGED <<up, inbox>>
    BY <2>3 DEF RetrySend, RetryEnds, LatePushReported, AdmitLatePush
  <2>4. ASSUME NEW n \in Node, ComputePanics(n) PROVE NameInv'
    BY <1>7, <2>4 DEF ComputePanics
  <2> QED
    BY Zenon, <1>8, <1>9, <1>10, <1>13, <2>1, <2>2, <2>3, <2>4 DEF Coordinate
<1>14. CASE Balance
  BY <1>10, <1>14 DEF Balance, CycleStart, CycleAborts, SendAck
<1>15. CASE Deliver
  BY Zenon, <1>10, <1>15 DEF Deliver, HandlePush, PushTimeout, HandleAck, AckTimeout, HandlePull
<1>16. CASE Fetch
  BY Zenon, <1>10, <1>16 DEF Fetch, BootPull, ChasePull, Pull, ChaseEnds
<1>17. CASE \E n \in Node : Crash(n)
  BY <1>7, <1>17 DEF Crash
<1> QED
  BY Zenon, <1>10, <1>11, <1>12, <1>13, <1>14, <1>15, <1>16, <1>17 DEF Next

\* What the answer to a push, or its absence, does to the updates: at most the
\* failure is booked, and the coordinator's own only for a push to itself.
LEMMA AnsweredJob ==
    ASSUME TypeOK, NEW p \in pushes, NEW ok \in BOOLEAN, Answered(p, ok)
    PROVE  \A n \in Node :
              /\ job'[n].st = job[n].st /\ job'[n].snap = job[n].snap /\ job'[n].sig = job[n].sig
              /\ job'[n].seq = job[n].seq /\ job'[n].changed = job[n].changed
              /\ \/ job'[n].failed = job[n].failed
                 \/ job'[n].failed /\ ~ok /\ p.from = n /\ p.to = n
              /\ ~ok /\ p.st = "fan" /\ p.from = n /\ p.to = n => job'[n].failed
<1>1. p \in Pushes /\ p.from \in Node /\ p.to \in Node /\ p.st \in {"fan", "retry", "late"}
  BY DEF TypeOK, Pushes
<1>2. job \in [Node -> Jobs]
  BY DEF TypeOK
<1> DEFINE a == [job[p.from] EXCEPT !.failed = TRUE]
           b == [job[p.from] EXCEPT !.unreach = job[p.from].unreach \cup {p.to}]
<1>3. /\ a.st = job[p.from].st /\ a.snap = job[p.from].snap /\ a.sig = job[p.from].sig
      /\ a.seq = job[p.from].seq /\ a.changed = job[p.from].changed /\ a.failed
      /\ b.st = job[p.from].st /\ b.snap = job[p.from].snap /\ b.sig = job[p.from].sig
      /\ b.seq = job[p.from].seq /\ b.changed = job[p.from].changed
      /\ b.failed = job[p.from].failed
  BY <1>1, <1>2 DEF Jobs
<1>4. \/ job' = job /\ (p.st = "fan" => ok)
      \/ ~ok /\ p.to = p.from /\ job' = [job EXCEPT ![p.from] = a]
      \/ ~ok /\ p.to # p.from /\ job' = [job EXCEPT ![p.from] = b]
  BY Zenon, <1>1, <1>2 DEF Answered, PushFailed
<1> HIDE DEF a, b
<1> QED
  BY <1>1, <1>2, <1>3, <1>4

LEMMA AnsweredRetry ==
    ASSUME TypeOK, NEW p \in pushes, NEW ok \in BOOLEAN, Answered(p, ok)
    PROVE  \A n \in Node : \A r \in retry'[n] :
              r \in retry[n] \/ (p.st = "retry" /\ p.from = n /\ r.seq = p.seq)
<1>1. p \in Pushes /\ p.from \in Node /\ p.st \in {"fan", "retry", "late"}
  BY DEF TypeOK, Pushes
<1>2. retry \in [Node -> SUBSET Retrials]
  BY DEF TypeOK
<1>3. CASE retry' = retry
  BY <1>3
<1>4. ASSUME NEW s, p.st = "retry", retry' = [retry EXCEPT ![p.from] =
                        (@ \ {RetryOf(p)}) \cup {[RetryOf(p) EXCEPT !.st = s]}]
      PROVE  \A n \in Node : \A r \in retry'[n] :
                r \in retry[n] \/ (p.st = "retry" /\ p.from = n /\ r.seq = p.seq)
  <2> DEFINE last == [RetryOf(p) EXCEPT !.st = s]
  <2>1. last.seq = p.seq
    BY <1>1 DEF RetryOf
  <2> HIDE DEF last
  <2>2. \A n \in Node : retry'[n] \subseteq retry[n] \cup (IF n = p.from THEN {last} ELSE {})
    BY <1>1, <1>2, <1>4 DEF last
  <2> QED
    BY <1>4, <2>1, <2>2
<1>5. \/ retry' = retry
      \/ p.st = "retry" /\ \E s : retry' = [retry EXCEPT ![p.from] =
                            (@ \ {RetryOf(p)}) \cup {[RetryOf(p) EXCEPT !.st = s]}]
  BY Zenon, <1>1 DEF Answered
<1> QED
  BY <1>3, <1>4, <1>5

-----------------------------------------------------------------------------
\* Nobody takes a coordinator off its own list.
LEMMA ListedStep == TypeOK /\ NameInv /\ ListedInv /\ [Next]_vars => ListedInv'
<1> SUFFICES ASSUME TypeOK, NameInv, ListedInv, [Next]_vars PROVE ListedInv'
  OBVIOUS
<1> USE DEF vars, memberVars, tableVars, coordVars, localVars, netVars
<1>0. job \in [Node -> Jobs] /\ members \in [Node -> SUBSET Node]
  BY DEF TypeOK
<1>1. ASSUME \A n \in Node : n \in members[n] => n \in members'[n],
             \A n \in Node : job'[n].st = "snap" =>
                job[n].st = "snap" /\ job'[n].snap = job[n].snap
      PROVE  ListedInv'
  BY <1>1 DEF ListedInv
<1>2. ASSUME NEW n \in Node, NEW m \in Node, Process(n, m) PROVE ListedInv'
  <2>1. job' = job
    BY Zenon, <1>2 DEF Process, ProcessJoin, ProcessLeave, ProcessUpdate, Takes
  <2>2. CASE ProcessJoin(n, m)
    BY <1>0, <1>1, <2>1, <2>2 DEF ProcessJoin
  <2>3. CASE ProcessLeave(n, m)
    <3>1. m # n
      <4>1. inbox[n] \in Seq(Events) /\ inbox[n] # <<>> /\ Head(inbox[n]) = [kind |-> "leave", node |-> m]
        BY <2>3 DEF TypeOK, ProcessLeave, Takes
      <4>2. 1 \in DOMAIN inbox[n] /\ inbox[n][1] = [kind |-> "leave", node |-> m]
        BY <4>1
      <4> QED
        BY <4>2 DEF NameInv
    <3> QED
      BY <1>0, <1>1, <2>1, <2>3, <3>1 DEF ProcessLeave
  <2>4. CASE ProcessUpdate(n, m)
    <3>1. m = n \/ NameOf[m] # NameOf[n]
      <4>1. inbox[n] \in Seq(Events) /\ inbox[n] # <<>> /\ Head(inbox[n]) = [kind |-> "update", node |-> m]
        BY <2>4 DEF TypeOK, ProcessUpdate, Takes
      <4>2. 1 \in DOMAIN inbox[n] /\ inbox[n][1] = [kind |-> "update", node |-> m]
        BY <4>1
      <4> QED
        BY <4>2 DEF NameInv
    <3> QED
      BY <1>0, <1>1, <2>1, <2>4, <3>1 DEF ProcessUpdate, Added, SameName
  <2> QED
    BY <1>2, <2>2, <2>3, <2>4 DEF Process
<1>3. ASSUME NEW n \in Node, Stopped(n) PROVE ListedInv'
  <2>1. \A k \in Node : k # n => job'[k] = job[k] /\ members'[k] = members[k]
    BY <1>0, <1>3 DEF Stopped
  <2>2. job'[n].st = "idle"
    BY <1>0, <1>3 DEF Stopped, Idle
  <2> QED
    BY <2>1, <2>2 DEF ListedInv
<1>4. ASSUME NEW n \in Node, Start(n) PROVE ListedInv'
  BY <1>0, <1>1, <1>4 DEF Start
<1>5. ASSUME NEW n \in Node, NEW by, Snapshot(n, by) PROVE ListedInv'
  <2> DEFINE j == [Idle EXCEPT !.st = "snap", !.by = by, !.snap = members[n]]
  <2>1. job' = [job EXCEPT ![n] = j] /\ members' = members
    BY <1>5 DEF Snapshot
  <2>2. j.snap = members[n]
    BY DEF Idle
  <2> HIDE DEF j
  <2> QED
    BY <1>0, <2>1, <2>2 DEF ListedInv
<1>6. ASSUME NEW n \in Node, NEW v, Compute(n, v) PROVE ListedInv'
  <2>1. PICK t, s, b, c : job' = [job EXCEPT ![n].st = "push", ![n].sig = t, ![n].seq = s,
                                             ![n].changed = b, ![n].prev = c]
    BY Zenon, <1>6 DEF Compute
  <2>2. job'[n].st = "push" /\ \A k \in Node \ {n} : job'[k] = job[k]
    BY <1>0, <2>1 DEF Jobs
  <2> QED
    BY Zenon, <1>6, <2>2 DEF ListedInv, Compute
<1>7. ASSUME NEW n \in Node, Finish(n) PROVE ListedInv'
  <2>1. job'[n].st = "idle" /\ \A k \in Node \ {n} : job'[k] = job[k]
    BY <1>0, <1>7 DEF Finish, Idle
  <2> QED
    BY <1>7, <2>1 DEF ListedInv, Finish
<1>8. ASSUME NEW p \in pushes, HandlePush(p) \/ PushTimeout(p) PROVE ListedInv'
  <2>1. PICK ok \in BOOLEAN : Answered(p, ok)
    BY Zenon, <1>8 DEF HandlePush, PushTimeout, Verified, IsCoordinatorOf
  <2>2. members' = members
    BY Zenon, <1>8 DEF HandlePush, PushTimeout
  <2> QED
    BY <1>1, <2>1, <2>2, AnsweredJob
<1>10. CASE UNCHANGED <<job, members>>
  BY <1>10 DEF ListedInv
<1>11. CASE Gossip
  BY <1>10, <1>11 DEF Gossip, NodeUp, GossipAlive, GossipDead
<1>12. CASE Listen
  <2>1. ASSUME NEW n \in Node, ListenerSkips(n) PROVE UNCHANGED <<job, members>>
    BY <2>1 DEF ListenerSkips
  <2> QED
    BY Zenon, <1>2, <1>10, <1>12, <2>1 DEF Listen
<1>13. CASE Coordinate
  <2>3. ASSUME NEW n, NEW r, \/ RetrySend(n, r) \/ RetryEnds(n, r)
                             \/ LatePushReported(n, r) \/ AdmitLatePush(n, r)
        PROVE  UNCHANGED <<job, members>>
    BY <2>3 DEF RetrySend, RetryEnds, LatePushReported, AdmitLatePush
  <2>4. ASSUME NEW n \in Node, ComputePanics(n) PROVE ListedInv'
    BY <1>3, <2>4 DEF ComputePanics
  <2> QED
    BY Zenon, <1>4, <1>5, <1>6, <1>7, <1>10, <1>13, <2>3, <2>4 DEF Coordinate
<1>14. CASE Balance
  BY <1>10, <1>14 DEF Balance, CycleStart, CycleAborts, SendAck
<1>15. CASE Deliver
  BY Zenon, <1>8, <1>10, <1>15 DEF Deliver, HandleAck, AckTimeout, HandlePull
<1>16. CASE Fetch
  BY Zenon, <1>10, <1>16 DEF Fetch, BootPull, ChasePull, Pull, ChaseEnds
<1>17. CASE \E n \in Node : Crash(n)
  BY <1>3, <1>17 DEF Crash
<1> QED
  BY Zenon, <1>10, <1>11, <1>12, <1>13, <1>14, <1>15, <1>16, <1>17 DEF Next

-----------------------------------------------------------------------------
\* What computing a table does: a changed table gets a new number and is on its
\* way to the coordinator, if that is in the ring.
LEMMA ComputeEffect ==
    ASSUME TypeOK, NEW n \in Node, NEW v \in Variants, Compute(n, v)
    PROVE  /\ tableSeq' = [tableSeq EXCEPT ![n] = job'[n].seq]
           /\ job'[n].seq \in Nat /\ job'[n].seq >= tableSeq[n]
           /\ job'[n].changed => job'[n].seq = tableSeq[n] + 1
           /\ job'[n].st = "push" /\ job[n].st = "snap" /\ job'[n].snap = job[n].snap
           /\ \A k \in Node \ {n} : job'[k] = job[k]
           /\ pushes \subseteq pushes' /\ (n \in members[n] => SelfPush(n)' \in pushes')
           /\ \A p \in pushes' : p \in pushes \/ (p.from = n /\ p.seq = job'[n].seq)
<1> DEFINE table == [ring |-> members[n], left |-> v]
           changed == job[n].by = "boot" \/ table # version[n].sig
           s == tableSeq[n] + (IF changed THEN 1 ELSE 0)
<1>1. tableSeq[n] \in Nat /\ job \in [Node -> Jobs]
  BY DEF TypeOK
<1>2. s \in Nat /\ s >= tableSeq[n] /\ (changed => s = tableSeq[n] + 1)
  <2> HIDE DEF changed
  <2>1. s \in {tableSeq[n], tableSeq[n] + 1} /\ (changed => s = tableSeq[n] + 1)
    BY <1>1
  <2> HIDE DEF s
  <2> QED
    BY <1>1, <2>1
<1>3. /\ job[n].st = "snap"
      /\ job' = [job EXCEPT ![n].st = "push", ![n].sig = table, ![n].seq = s,
                            ![n].changed = changed, ![n].prev = committed[n]]
      /\ tableSeq' = [tableSeq EXCEPT ![n] = s]
      /\ pushes' = pushes \cup {[st |-> "fan", from |-> n, to |-> m, sig |-> table, seq |-> s] :
                                   m \in members[n]}
  BY Zenon DEF Compute, Targets
<1> HIDE DEF table, changed, s
<1>4. /\ job'[n].st = "push" /\ job'[n].sig = table /\ job'[n].seq = s
      /\ job'[n].changed = changed /\ job'[n].snap = job[n].snap
      /\ \A k \in Node \ {n} : job'[k] = job[k]
  BY <1>1, <1>3 DEF Jobs
<1>5. SelfPush(n)' = [st |-> "fan", from |-> n, to |-> n, sig |-> table, seq |-> s]
  BY <1>4 DEF SelfPush
<1>6. /\ pushes \subseteq pushes' /\ (n \in members[n] => SelfPush(n)' \in pushes')
      /\ \A p \in pushes' : p \in pushes \/ (p.from = n /\ p.seq = s)
  BY <1>3, <1>5
<1>7. job'[n].changed => s = tableSeq[n] + 1
  BY Zenon, <1>2, <1>4
<1> QED
  BY Zenon, <1>2, <1>3, <1>4, <1>6, <1>7

\* The generation a member gives a table it installs, and its numbering.
Renumbered(m, c, seq) ==
    /\ \A k \in Node : k # m => version'[k] = version[k]
    /\ \/ version'[m].coord = c /\ version'[m].seq = seq
       \/ seq = 0 /\ version'[m].coord = version[m].coord /\ version'[m].seq = version[m].seq
    /\ version'[m].gen \in {version[m].gen, version[m].gen + 1}
    /\ seq # 0 /\ (version[m].coord # c \/ version[m].seq # seq) =>
          version'[m].gen = version[m].gen + 1

LEMMA InstallEffect ==
    ASSUME TypeOK, NEW m \in Node, NEW sig, NEW c, NEW seq, NEW nr, Install(m, sig, c, seq, nr)
    PROVE  Renumbered(m, c, seq)
<1>1. version \in [Node -> Versions] /\ version[m].gen \in Nat
  BY DEF TypeOK, Versions
<1> DEFINE new == SetVersion(m, sig, c, seq, nr)
<1>2. /\ \/ new.coord = c /\ new.seq = seq
         \/ seq = 0 /\ new.coord = version[m].coord /\ new.seq = version[m].seq
      /\ new.gen \in {version[m].gen, version[m].gen + 1}
      /\ seq # 0 /\ (version[m].coord # c \/ version[m].seq # seq) => new.gen = version[m].gen + 1
  BY Zenon DEF SetVersion
<1>3. version' = [version EXCEPT ![m] = new]
  BY DEF Install
<1> HIDE DEF new
<1> QED
  BY <1>1, <1>2, <1>3 DEF Renumbered

\* The pushes that are left when a member stops.
LEMMA StoppedPushes ==
    ASSUME TypeOK, NEW n \in Node, Stopped(n)
    PROVE  /\ \A p \in pushes' : \/ p \in pushes /\ p.from # n
                                 \/ p.st = "late" /\ p.to # n /\ p.from = n
           /\ \A p \in pushes : p.from # n /\ p.to # n => p \in pushes'
<1>1. \A q \in pushes : q \in Pushes
  BY DEF TypeOK
<1>2. pushes' = {IF p.from = n THEN [p EXCEPT !.st = "late"] ELSE p :
                    p \in {q \in pushes : q.to # n \/ (q.st # "late" /\ q.from # n)}}
  BY DEF Stopped
<1>3. ASSUME NEW p \in pushes'
      PROVE  \/ p \in pushes /\ p.from # n
             \/ p.st = "late" /\ p.to # n /\ p.from = n
  <2>1. PICK q \in pushes : /\ q.to # n \/ (q.st # "late" /\ q.from # n)
                            /\ p = IF q.from = n THEN [q EXCEPT !.st = "late"] ELSE q
    BY <1>2
  <2>2. CASE q.from = n
    BY <1>1, <2>1, <2>2 DEF Pushes
  <2>3. CASE q.from # n
    BY <2>1, <2>3
  <2> QED
    BY <2>2, <2>3
<1>4. \A p \in pushes : p.from # n /\ p.to # n => p \in pushes'
  BY <1>2
<1> QED
  BY <1>3, <1>4

\* The retries keep the number of the push they repeat.
LEMMA RetryKeeps ==
    ASSUME TypeOK, NEW n \in Node, NEW r \in retry[n],
           \/ RetrySend(n, r) \/ RetryEnds(n, r) \/ LatePushReported(n, r) \/ AdmitLatePush(n, r)
    PROVE  /\ UNCHANGED <<version, job, tableSeq>>
           /\ \A k \in Node : \A x \in retry'[k] : x \in retry[k] \/ (k = n /\ x.seq = r.seq)
           /\ pushes \subseteq pushes'
           /\ \A p \in pushes' : p \in pushes \/ (p.from = n /\ p.seq = r.seq)
<1>1. retry \in [Node -> SUBSET Retrials] /\ r \in Retrials
  BY DEF TypeOK
<1>2. \A st : [r EXCEPT !.st = st].seq = r.seq
  BY <1>1 DEF Retrials
<1>3. /\ UNCHANGED <<version, job, tableSeq>>
      /\ \/ \E st : retry' = [retry EXCEPT ![n] = (@ \ {r}) \cup {[r EXCEPT !.st = st]}]
         \/ retry' = [retry EXCEPT ![n] = @ \ {r}]
      /\ \/ pushes' = pushes
         \/ pushes' = pushes \cup {[st |-> "retry", from |-> n, to |-> r.to, sig |-> r.sig, seq |-> r.seq]}
  BY Zenon DEF RetrySend, RetryEnds, LatePushReported, AdmitLatePush, tableVars, netVars
<1>4. \A k \in Node : \A x \in retry'[k] : x \in retry[k] \/ (k = n /\ x.seq = r.seq)
  <2>1. ASSUME NEW st, retry' = [retry EXCEPT ![n] = (@ \ {r}) \cup {[r EXCEPT !.st = st]}]
        PROVE  \A k \in Node : \A x \in retry'[k] : x \in retry[k] \/ (k = n /\ x.seq = r.seq)
    <3> DEFINE y == [r EXCEPT !.st = st]
    <3>1. y.seq = r.seq
      BY <1>2
    <3> HIDE DEF y
    <3>2. retry' = [retry EXCEPT ![n] = (@ \ {r}) \cup {y}]
      BY <2>1 DEF y
    <3> QED
      BY <1>1, <3>1, <3>2
  <2>2. CASE retry' = [retry EXCEPT ![n] = @ \ {r}]
    BY <1>1, <2>2
  <2> QED
    BY <1>3, <2>1, <2>2
<1>5. \A p \in pushes' : p \in pushes \/ (p.from = n /\ p.seq = r.seq)
  BY <1>3
<1> QED
  BY <1>3, <1>4, <1>5

\* Sending, answering and losing pushes keeps their numbers.
LEMMA DeliverPushes ==
    ASSUME TypeOK, NEW p \in pushes, HandlePush(p) \/ PushTimeout(p)
    PROVE  /\ \A q \in pushes' : q \in pushes \/
                 (q.from = p.from /\ q.to = p.to /\ q.seq = p.seq /\ q.st = "late")
           /\ \A q \in pushes : q # p => q \in pushes'
           /\ UNCHANGED <<tableSeq, epoch>>
<1>1. p \in Pushes
  BY DEF TypeOK
<1>2. CASE HandlePush(p)
  BY <1>2 DEF HandlePush
<1>3. CASE PushTimeout(p)
  <2> DEFINE q == [p EXCEPT !.st = "late"]
  <2>1. q.from = p.from /\ q.to = p.to /\ q.seq = p.seq /\ q.st = "late"
    BY <1>1 DEF Pushes
  <2>2. pushes' = pushes \ {p} \/ pushes' = (pushes \ {p}) \cup {q}
    BY <1>3 DEF PushTimeout
  <2> HIDE DEF q
  <2>3. UNCHANGED <<tableSeq, epoch>>
    BY <1>3 DEF PushTimeout
  <2> QED
    BY <2>1, <2>2, <2>3
<1> QED
  BY <1>2, <1>3

\* The steps that touch neither versions nor updates, pushes, retries or epochs.
Aside == UNCHANGED <<version, job, tableSeq, pushes, retry, epoch>>

LEMMA AsideSteps ==
    ASSUME [Next]_vars
    PROVE  \/ Aside
           \/ \E n \in Node : Stopped(n) \/ Finish(n)
           \/ \E n \in Node : \E by \in {"boot", "event", "timer"} : Snapshot(n, by)
           \/ \E n \in Node : \E v \in Variants : Compute(n, v)
           \/ \E n \in Node : \E r \in retry[n] :
                 \/ RetrySend(n, r) \/ RetryEnds(n, r)
                 \/ LatePushReported(n, r) \/ AdmitLatePush(n, r)
           \/ \E p \in pushes : HandlePush(p) \/ PushTimeout(p)
           \/ \E a \in acks : HandleAck(a)
           \/ \E p \in pulls : HandlePull(p)
<1> USE DEF Aside, vars, memberVars, tableVars, coordVars, localVars, netVars
<1>1. CASE Gossip
  BY <1>1 DEF Gossip, NodeUp, GossipAlive, GossipDead
<1>2. CASE Listen
  <2>1. ASSUME NEW n, NEW kind, NEW m, Takes(n, kind, m) PROVE Aside
    BY <2>1 DEF Takes
  <2>2. ASSUME NEW n, ListenerSkips(n) PROVE Aside
    BY <2>2 DEF ListenerSkips
  <2> HIDE DEF Aside
  <2> QED
    BY Zenon, <1>2, <2>1, <2>2 DEF Listen, Process, ProcessJoin, ProcessLeave, ProcessUpdate
<1>3. CASE Coordinate
  <2>1. ASSUME NEW n \in Node, Start(n) PROVE Aside
    BY <2>1 DEF Start
  <2>2. ASSUME NEW n \in Node, ComputePanics(n) PROVE Stopped(n)
    BY <2>2 DEF ComputePanics
  <2> HIDE DEF Aside
  <2> QED
    BY Zenon, <1>3, <2>1, <2>2 DEF Coordinate
<1>4. CASE Balance
  BY Zenon, <1>4 DEF Balance, CycleStart, CycleAborts, SendAck
<1>5. CASE Deliver
  <2>1. ASSUME NEW a \in acks, AckTimeout(a) PROVE Aside
    BY <2>1 DEF AckTimeout
  <2> HIDE DEF Aside
  <2> QED
    BY Zenon, <1>5, <2>1 DEF Deliver
<1>6. CASE Fetch
  <2>1. ASSUME NEW m, NEW c, NEW boot, NEW was, Pull(m, c, boot, was) PROVE Aside
    BY <2>1 DEF Pull
  <2>2. ASSUME NEW m, NEW was, ChaseEnds(m, was) PROVE Aside
    BY <2>2 DEF ChaseEnds
  <2> HIDE DEF Aside
  <2> QED
    BY Zenon, <1>6, <2>1, <2>2 DEF Fetch, BootPull, ChasePull
<1>7. CASE \E n \in Node : Crash(n)
  BY Zenon, <1>7 DEF Crash
<1> QED
  BY Zenon, <1>1, <1>2, <1>3, <1>4, <1>5, <1>6, <1>7 DEF Next

\* A number is taken from tableSequence, which only grows while a member lives.
LEMMA OwnStep == TypeOK /\ OwnInv /\ [Next]_vars => OwnInv'
<1> SUFFICES ASSUME TypeOK, OwnInv, [Next]_vars PROVE OwnInv'
  OBVIOUS
<1>0. /\ tableSeq \in [Node -> Nat] /\ job \in [Node -> Jobs] /\ version \in [Node -> Versions]
      /\ retry \in [Node -> SUBSET Retrials]
      /\ \A n \in Node : /\ version[n].seq \in Nat /\ job[n].seq \in Nat
                         /\ \A r \in retry[n] : r.seq \in Nat
      /\ \A p \in pushes : p.from \in Node /\ p.to \in Node /\ p.seq \in Nat
  BY DEF TypeOK, Jobs, Versions, Retrials, Pushes
<1>1. CASE Aside
  BY <1>1 DEF Aside, OwnInv
<1>2. ASSUME NEW n \in Node, Stopped(n) PROVE OwnInv'
  <2>1. /\ \A k \in Node \ {n} : /\ version'[k] = version[k] /\ tableSeq'[k] = tableSeq[k]
                                 /\ job'[k] = job[k] /\ retry'[k] = retry[k]
        /\ version'[n].coord # n /\ retry'[n] = {} /\ job'[n].st # "push"
    BY <1>0, <1>2, NodeAssumption DEF Stopped, NoVersion, Idle
  <2>2. \A p \in pushes' : p.from = p.to \/ p.st # "late" => p \in pushes /\ p.from # n
    BY <1>2, StoppedPushes
  <2> QED
    BY <1>0, <2>1, <2>2 DEF OwnInv
<1>3. ASSUME NEW n \in Node, Finish(n) PROVE OwnInv'
  <2>1. /\ UNCHANGED <<version, tableSeq, pushes>>
        /\ job' = [job EXCEPT ![n] = Idle] /\ job[n].st = "push"
        /\ retry' = retry \/ retry' = [retry EXCEPT ![n] = @ \cup Unreached(n)]
    BY <1>3 DEF Finish, tableVars, netVars
  <2>2. \A r \in Unreached(n) : r.seq = job[n].seq
    BY DEF Unreached
  <2>3. \A k \in Node : \A r \in retry'[k] : r \in retry[k] \/ (k = n /\ r.seq = job[n].seq)
    BY <1>0, <2>1, <2>2
  <2>4. job'[n].st # "push" /\ \A k \in Node \ {n} : job'[k] = job[k]
    BY <1>0, <2>1 DEF Idle
  <2> QED
    BY <1>0, <2>1, <2>3, <2>4 DEF OwnInv
<1>4. ASSUME NEW n \in Node, NEW by, Snapshot(n, by) PROVE OwnInv'
  <2>1. /\ UNCHANGED <<version, tableSeq, pushes, retry>>
        /\ job' = [job EXCEPT ![n] = [Idle EXCEPT !.st = "snap", !.by = by, !.snap = members[n]]]
    BY <1>4 DEF Snapshot, tableVars, netVars
  <2>2. job'[n].st # "push" /\ \A k \in Node \ {n} : job'[k] = job[k]
    BY <1>0, <2>1 DEF Idle
  <2> QED
    BY <2>1, <2>2 DEF OwnInv
<1>5. ASSUME NEW n \in Node, NEW v \in Variants, Compute(n, v) PROVE OwnInv'
  <2>1. UNCHANGED <<version, retry>>
    BY <1>5 DEF Compute, tableVars
  <2>2. /\ tableSeq'[n] = job'[n].seq /\ job'[n].seq \in Nat /\ job'[n].seq >= tableSeq[n]
        /\ \A k \in Node \ {n} : tableSeq'[k] = tableSeq[k] /\ job'[k] = job[k]
        /\ \A p \in pushes' : p \in pushes \/ (p.from = n /\ p.seq = job'[n].seq)
    BY <1>0, <1>5, ComputeEffect
  <2>3. \A k \in Node : tableSeq[k] <= tableSeq'[k] /\ tableSeq'[k] \in Nat /\ tableSeq[k] \in Nat
    BY <1>0, <2>2
  <2>4. \A k \in Node : version'[k].coord = k => version'[k].seq <= tableSeq'[k]
    BY <1>0, <2>1, <2>3 DEF OwnInv
  <2>5. \A p \in pushes' : p.from = p.to \/ p.st # "late" => p.seq <= tableSeq'[p.from]
    BY <1>0, <2>2, <2>3 DEF OwnInv
  <2>6. \A k \in Node : \A r \in retry'[k] : r.seq <= tableSeq'[k]
    BY <1>0, <2>1, <2>3 DEF OwnInv
  <2>7. \A k \in Node : job'[k].st = "push" => job'[k].seq <= tableSeq'[k]
    BY <1>0, <2>2, <2>3 DEF OwnInv
  <2> QED
    BY <2>4, <2>5, <2>6, <2>7 DEF OwnInv
<1>6. ASSUME NEW n \in Node, NEW r \in retry[n],
             \/ RetrySend(n, r) \/ RetryEnds(n, r)
             \/ LatePushReported(n, r) \/ AdmitLatePush(n, r)
      PROVE  OwnInv'
  <2>1. /\ UNCHANGED <<version, job, tableSeq>>
        /\ \A k \in Node : \A x \in retry'[k] : x \in retry[k] \/ (k = n /\ x.seq = r.seq)
        /\ \A p \in pushes' : p \in pushes \/ (p.from = n /\ p.seq = r.seq)
    BY <1>6, RetryKeeps
  <2> QED
    BY <2>1 DEF OwnInv
<1>7. ASSUME NEW p \in pushes, HandlePush(p) \/ PushTimeout(p) PROVE OwnInv'
  <2>1. PICK ok \in BOOLEAN : Answered(p, ok)
    BY Zenon, <1>7 DEF HandlePush, PushTimeout, Verified, IsCoordinatorOf
  <2>2. /\ UNCHANGED tableSeq
        /\ \A q \in pushes' : q \in pushes \/
              (q.from = p.from /\ q.to = p.to /\ q.seq = p.seq /\ q.st = "late")
    BY <1>7, DeliverPushes
  <2>3. \A k \in Node : job'[k].st = "push" => job'[k].seq <= tableSeq'[k]
    BY <2>1, <2>2, AnsweredJob DEF OwnInv
  <2>4. \A k \in Node : \A r \in retry'[k] : r.seq <= tableSeq'[k]
    BY <2>1, <2>2, AnsweredRetry DEF OwnInv
  <2>5. \A q \in pushes' : q.from = q.to \/ q.st # "late" => q.seq <= tableSeq'[q.from]
    BY <2>2 DEF OwnInv
  <2>6. \A k \in Node : version'[k].coord = k => version'[k].seq <= tableSeq'[k]
    <3>1. CASE version' = version
      BY <2>2, <3>1 DEF OwnInv
    <3>2. CASE Install(p.to, p.sig, p.from, p.seq, p.seq)
      <4>1. Renumbered(p.to, p.from, p.seq)
        BY <1>0, <3>2, InstallEffect
      <4> QED
        BY <1>0, <2>2, <4>1 DEF OwnInv, Renumbered
    <3> QED
      BY Zenon, <1>7, <3>1, <3>2 DEF HandlePush, PushTimeout, tableVars
  <2> QED
    BY <2>3, <2>4, <2>5, <2>6 DEF OwnInv
<1>8. ASSUME NEW a \in acks, HandleAck(a) PROVE OwnInv'
  <2>1. UNCHANGED <<version, job, tableSeq, pushes, retry>>
    BY <1>8 DEF HandleAck, tableVars
  <2> QED
    BY <2>1 DEF OwnInv
<1>9. ASSUME NEW p \in pulls, HandlePull(p) PROVE OwnInv'
  <2>1. UNCHANGED <<job, tableSeq, pushes, retry>> /\ p.to \in Node
    BY <1>9 DEF HandlePull, coordVars, TypeOK, Answers
  <2>2. \A k \in Node : version'[k].coord = k => version'[k].seq <= tableSeq'[k]
    <3>1. CASE version' = version
      BY <2>1, <3>1 DEF OwnInv
    <3>2. CASE Install(p.to, p.sig, p.from, 0, p.num)
      <4>1. Renumbered(p.to, p.from, 0)
        BY <2>1, <3>2, InstallEffect
      <4> QED
        BY <1>0, <2>1, <4>1 DEF OwnInv, Renumbered
    <3> QED
      BY <1>9, <3>1, <3>2 DEF HandlePull, tableVars
  <2> QED
    BY <2>1, <2>2 DEF OwnInv
<1> QED
  BY Zenon, <1>1, <1>2, <1>3, <1>4, <1>5, <1>6, <1>7, <1>8, <1>9, AsideSteps

-----------------------------------------------------------------------------
\* An epoch keeps its generation and its table, and only gains acks.
Grows(e, f) == f.gen = e.gen /\ f.sig = e.sig /\ e.acked \subseteq f.acked /\ (e.completed => f.completed)

LEMMA EpochGrows ==
    ASSUME NEW e \in Epochs, NEW live, NEW m \in Node
    PROVE  /\ Grows(e, Checked(e, live)) /\ Grows(e, Awaiting(e, m))
           /\ Grows(e, [e EXCEPT !.acked = @ \cup {m}])
BY DEF Grows, Checked, Awaiting, Epochs

LEMMA GrowsOn == ASSUME NEW e, NEW f, NEW g, Grows(e, f), Grows(f, g) PROVE Grows(e, g)
BY DEF Grows

LEMMA AdmitGrows ==
    ASSUME TypeOK, NEW n \in Node, NEW r \in retry[n], AdmitLatePush(n, r)
    PROVE  \A c \in Node : Grows(epoch[c], epoch'[c])
<1>1. r.to \in Node /\ epoch \in [Node -> Epochs]
  BY DEF TypeOK, Retrials
<1> DEFINE next == Awaiting(epoch[n], r.to)
           last == Checked(next, members[n])
<1>2. next \in Epochs /\ Grows(epoch[n], next)
  BY Zenon, <1>1, EpochLemma, EpochGrows
<1>3. Grows(epoch[n], last)
  <2> HIDE DEF next
  <2>1. Grows(next, last)
    BY Zenon, <1>1, <1>2, EpochGrows
  <2> QED
    BY <1>2, <2>1, GrowsOn
<1>4. epoch' = epoch \/ epoch' = [epoch EXCEPT ![n] = last]
  BY Zenon DEF AdmitLatePush
<1> HIDE DEF last
<1>5. \A c \in Node : Grows(epoch[c], epoch[c])
  BY DEF Grows
<1> QED
  BY <1>1, <1>3, <1>4, <1>5

LEMMA AckGrows ==
    ASSUME TypeOK, NEW a \in acks, HandleAck(a)
    PROVE  \A c \in Node : Grows(epoch[c], epoch'[c])
<1>1. a.from \in Node /\ a.to \in Node /\ epoch \in [Node -> Epochs]
  BY DEF TypeOK, Acks
<1> DEFINE marked == [epoch[a.to] EXCEPT !.acked = @ \cup {a.from}]
           last == Checked(marked, members[a.to])
<1>2. marked \in Epochs /\ Grows(epoch[a.to], marked)
  BY Zenon, <1>1, EpochLemma, EpochGrows
<1>3. Grows(epoch[a.to], last)
  <2> HIDE DEF marked
  <2>1. Grows(marked, last)
    BY Zenon, <1>1, <1>2, EpochGrows
  <2> QED
    BY <1>2, <2>1, GrowsOn
<1>4. \/ epoch' = epoch \/ epoch' = [epoch EXCEPT ![a.to] = marked]
      \/ epoch' = [epoch EXCEPT ![a.to] = last]
  BY Zenon DEF HandleAck
<1> HIDE DEF last, marked
<1>5. \A c \in Node : Grows(epoch[c], epoch[c])
  BY DEF Grows
<1> QED
  BY <1>1, <1>2, <1>3, <1>4, <1>5

-----------------------------------------------------------------------------
LEMMA OwnInit == Init => ListedInv /\ OwnInv /\ GenInv
<1> SUFFICES ASSUME Init PROVE ListedInv /\ OwnInv /\ GenInv
  OBVIOUS
<1>1. \A n \in Node : job[n] = Idle /\ retry[n] = {}
  BY DEF Init
<1>2. pushes = {}
  BY DEF Init
<1>3. Idle.st = "idle"
  BY DEF Idle
<1>4. ListedInv
  BY <1>1, <1>3 DEF ListedInv
<1>5. ASSUME NEW n \in Node
      PROVE  /\ version[n].coord = n => version[n].seq <= tableSeq[n]
             /\ epoch[n].gen <= version[n].gen
  <2>0. /\ epoch[n].gen = IF Leads(n) THEN 1 ELSE 0
        /\ tableSeq[n] = IF Leads(n) THEN 1 ELSE 0
    BY Zenon DEF Init, NoEpoch
  <2>1. /\ version[n].gen = IF Holds(n) THEN 1 ELSE 0
        /\ version[n].seq = IF Holds(n) THEN 1 ELSE 0
        /\ version[n].coord = IF Holds(n) THEN Oldest ELSE 0
    BY Zenon DEF Init, NoVersion
  <2>2. Leads(n) <=> Holds(n) /\ n = Oldest
    BY Zenon, NodeAssumption DEF Leads, Holds, Oldest
  <2>3. n # 0
    BY NodeAssumption
  <2> QED
    BY <2>0, <2>1, <2>2, <2>3
<1> QED
  BY <1>1, <1>2, <1>3, <1>4, <1>5 DEF OwnInv, GenInv, NewTable
\* The epoch of a coordinator is of a generation its version has reached, and a
\* table it is about to start an epoch for gets a generation beyond that one.
LEMMA GenStep == TypeOK /\ ListedInv /\ OwnInv /\ GenInv /\ [Next]_vars => GenInv'
<1> SUFFICES ASSUME TypeOK, ListedInv, OwnInv, GenInv, [Next]_vars PROVE GenInv'
  OBVIOUS
<1>0. /\ tableSeq \in [Node -> Nat] /\ job \in [Node -> Jobs] /\ version \in [Node -> Versions]
      /\ epoch \in [Node -> Epochs]
      /\ \A n \in Node : /\ version[n].seq \in Nat /\ job[n].seq \in Nat
                         /\ version[n].gen \in Nat /\ epoch[n].gen \in Nat
      /\ \A p \in pushes : p.from \in Node /\ p.to \in Node /\ p.seq \in Nat
  BY DEF TypeOK, Jobs, Versions, Pushes, Epochs
<1>1. CASE Aside
  BY <1>1 DEF Aside, GenInv, NewTable, Numbered, SelfPush
<1>2. ASSUME NEW n \in Node, Stopped(n) PROVE GenInv'
  <2>1. /\ \A k \in Node \ {n} : /\ version'[k] = version[k] /\ tableSeq'[k] = tableSeq[k]
                                 /\ job'[k] = job[k] /\ epoch'[k] = epoch[k]
        /\ epoch'[n].gen = 0 /\ version'[n].gen = 0 /\ job'[n].st # "push"
    BY <1>0, <1>2 DEF Stopped, NoVersion, Idle, NoEpoch
  <2>2. \A k \in Node \ {n} : SelfPush(k) \in pushes => SelfPush(k)' \in pushes'
    <3>1. \A k \in Node \ {n} : SelfPush(k)' = SelfPush(k) /\ SelfPush(k).from = k /\ SelfPush(k).to = k
      BY <2>1 DEF SelfPush
    <3> QED
      BY <1>2, <3>1, StoppedPushes
  <2> QED
    BY <2>1, <2>2 DEF GenInv, NewTable, Numbered
<1>3. ASSUME NEW n \in Node, Finish(n) PROVE GenInv'
  <2>1. /\ UNCHANGED <<version, tableSeq, pushes>>
        /\ job' = [job EXCEPT ![n] = Idle]
        /\ epoch' = epoch \/ epoch' = [epoch EXCEPT ![n] = NewEpoch(n)]
    BY <1>3 DEF Finish, tableVars, netVars
  <2>2. NewEpoch(n).gen = version[n].gen
    BY DEF NewEpoch, Checked
  <2>3. /\ job'[n].st # "push" /\ \A k \in Node \ {n} : job'[k] = job[k] /\ epoch'[k] = epoch[k]
        /\ epoch'[n].gen \in {epoch[n].gen, version[n].gen}
    BY <1>0, <2>1, <2>2 DEF Idle
  <2> QED
    BY <1>0, <2>1, <2>3 DEF GenInv, NewTable, Numbered, SelfPush
<1>4. ASSUME NEW n \in Node, NEW by, Snapshot(n, by) PROVE GenInv'
  <2>1. /\ UNCHANGED <<version, tableSeq, pushes, epoch>>
        /\ job' = [job EXCEPT ![n] = [Idle EXCEPT !.st = "snap", !.by = by, !.snap = members[n]]]
    BY <1>4 DEF Snapshot, tableVars, netVars
  <2>2. job'[n].st # "push" /\ \A k \in Node \ {n} : job'[k] = job[k]
    BY <1>0, <2>1 DEF Idle
  <2> QED
    BY <2>1, <2>2 DEF GenInv, NewTable, Numbered, SelfPush
<1>5. ASSUME NEW n \in Node, NEW v \in Variants, Compute(n, v) PROVE GenInv'
  <2>1. UNCHANGED <<version, epoch>>
    BY <1>5 DEF Compute, tableVars
  <2>2. /\ tableSeq' = [tableSeq EXCEPT ![n] = job'[n].seq]
        /\ job'[n].seq \in Nat
        /\ job'[n].changed => job'[n].seq = tableSeq[n] + 1
        /\ job[n].st = "snap" /\ job'[n].snap = job[n].snap
        /\ \A k \in Node \ {n} : job'[k] = job[k]
        /\ pushes \subseteq pushes' /\ (n \in members[n] => SelfPush(n)' \in pushes')
    BY <1>5, ComputeEffect
  <2>3. tableSeq'[n] = job'[n].seq /\ \A k \in Node \ {n} : tableSeq'[k] = tableSeq[k]
    BY <1>0, <2>2
  <2>4. NewTable(n)' => Numbered(n)'
    <3> SUFFICES ASSUME NewTable(n)' PROVE Numbered(n)'
      OBVIOUS
    <3>1. SelfPush(n)' \in pushes'
      BY <2>2 DEF ListedInv, NewTable
    <3>2. version[n].coord = n => version[n].seq <= tableSeq[n]
      BY DEF OwnInv
    <3>3. job'[n].seq = tableSeq[n] + 1
      BY <2>2 DEF NewTable
    <3> QED
      BY <1>0, <2>1, <2>3, <3>1, <3>2, <3>3 DEF Numbered
  <2>5. \A k \in Node \ {n} : /\ NewTable(k)' <=> NewTable(k)
                              /\ Numbered(k) => Numbered(k)'
    BY <2>1, <2>2, <2>3 DEF NewTable, Numbered, SelfPush
  <2> QED
    BY <2>1, <2>4, <2>5 DEF GenInv
<1>6. ASSUME NEW n \in Node, NEW r \in retry[n],
             \/ RetrySend(n, r) \/ RetryEnds(n, r)
             \/ LatePushReported(n, r) \/ AdmitLatePush(n, r)
      PROVE  GenInv'
  <2>1. UNCHANGED <<version, job, tableSeq>> /\ pushes \subseteq pushes'
    BY <1>6, RetryKeeps
  <2>2. \A c \in Node : epoch'[c].gen = epoch[c].gen
    <3>1. CASE epoch' = epoch
      BY <3>1
    <3>2. CASE AdmitLatePush(n, r)
      BY <3>2, AdmitGrows DEF Grows
    <3> QED
      BY Zenon, <1>6, <3>1, <3>2 DEF RetrySend, RetryEnds, LatePushReported
  <2> QED
    BY <2>1, <2>2 DEF GenInv, NewTable, Numbered, SelfPush
<1>7. ASSUME NEW p \in pushes, HandlePush(p) \/ PushTimeout(p) PROVE GenInv'
  <2>0. PICK ok \in BOOLEAN :
           /\ Answered(p, ok)
           /\ \/ version' = version /\ (~ok \/ Older(p.to, p.from, p.seq))
              \/ Install(p.to, p.sig, p.from, p.seq, p.seq)
    <3>1. CASE HandlePush(p)
      <4>1. Verified(p.to, p.from) \in BOOLEAN
        BY DEF Verified, IsCoordinatorOf
      <4> QED
        BY Zenon, <3>1, <4>1 DEF HandlePush, tableVars
    <3>2. CASE PushTimeout(p)
      <4>1. FALSE \in BOOLEAN
        OBVIOUS
      <4> QED
        BY Zenon, <3>2, <4>1 DEF PushTimeout, tableVars
    <3> QED
      BY <1>7, <3>1, <3>2
  <2>1. /\ \A q \in pushes : q # p => q \in pushes'
        /\ UNCHANGED <<tableSeq, epoch>>
    BY <1>7, DeliverPushes
  <2>2. \A n \in Node :
           /\ SelfPush(n)' = SelfPush(n) /\ job'[n].seq = job[n].seq
           /\ NewTable(n)' => NewTable(n) /\ (p = SelfPush(n) => ok)
    <3>1. \A n \in Node : SelfPush(n).st = "fan" /\ SelfPush(n).from = n /\ SelfPush(n).to = n
      BY DEF SelfPush
    <3> QED
      BY <2>0, <3>1, AnsweredJob DEF NewTable, SelfPush
  <2>3. \A n \in Node : p # SelfPush(n) /\ SelfPush(n) \in pushes => SelfPush(n)' \in pushes'
    BY <2>1, <2>2
  <2>4. CASE version' = version /\ (~ok \/ Older(p.to, p.from, p.seq))
    <3>1. \A n \in Node : Numbered(n) /\ p = SelfPush(n) => ~Older(p.to, p.from, p.seq)
      BY <1>0 DEF Numbered, SelfPush, Older
    <3>2. \A n \in Node : NewTable(n)' /\ Numbered(n) => Numbered(n)'
      <4> TAKE n \in Node
      <4> HAVE NewTable(n)' /\ Numbered(n)
      <4>1. p # SelfPush(n)
        BY <2>2, <2>4, <3>1
      <4> QED
        BY Zenon, <2>1, <2>2, <2>3, <2>4, <4>1 DEF Numbered
    <3>3. \A n \in Node : epoch'[n].gen = epoch[n].gen /\ version'[n].gen = version[n].gen
      BY <2>1, <2>4
    <3> QED
      BY <2>2, <3>2, <3>3 DEF GenInv
  <2>5. CASE Install(p.to, p.sig, p.from, p.seq, p.seq)
    <3>1. Renumbered(p.to, p.from, p.seq)
      BY <1>0, <2>5, InstallEffect
    <3>2. \A n \in Node : version'[n].gen >= version[n].gen /\ version'[n].gen \in Nat
      BY <1>0, <3>1 DEF Renumbered
    <3>3. ASSUME NEW n \in Node, NewTable(n)'
          PROVE  epoch'[n].gen < version'[n].gen \/ Numbered(n)'
      <4>1. CASE epoch[n].gen < version[n].gen
        BY <1>0, <2>1, <3>2, <4>1
      <4>2. CASE Numbered(n) /\ p.from = n /\ p.to = n /\ p.seq = tableSeq[n]
        <5>1. version'[n].gen = version[n].gen + 1
          BY <1>0, <3>1, <4>2 DEF Renumbered, Numbered
        <5>2. epoch[n].gen <= version[n].gen
          BY DEF GenInv
        <5> QED
          BY <1>0, <2>1, <5>1, <5>2
      <4>3. CASE Numbered(n) /\ ~(p.from = n /\ p.to = n /\ p.seq = tableSeq[n])
        <5>1. p # SelfPush(n)
          BY <4>3 DEF SelfPush, Numbered
        <5>0. p.from = p.to => p.seq <= tableSeq[p.from]
          BY DEF OwnInv
        <5>2. p.from = n /\ p.to = n => p.seq < tableSeq[n]
          <6>1. p.seq \in Nat /\ tableSeq[n] \in Nat
            BY <1>0
          <6> QED
            BY <4>3, <5>0, <6>1
        <5>3. version'[n].coord = n => version'[n].seq < job[n].seq
          BY <1>0, <3>1, <4>3, <5>2 DEF Renumbered, Numbered
        <5> QED
          BY <2>1, <2>2, <2>3, <4>3, <5>1, <5>3 DEF Numbered
      <4> QED
        BY Zenon, <2>2, <3>3, <4>1, <4>2, <4>3 DEF GenInv
    <3>4. \A n \in Node : epoch'[n].gen <= version'[n].gen
      BY <1>0, <2>1, <3>2 DEF GenInv
    <3> QED
      BY <3>3, <3>4 DEF GenInv
  <2> QED
    BY <2>0, <2>4, <2>5
<1>8. ASSUME NEW a \in acks, HandleAck(a) PROVE GenInv'
  <2>1. UNCHANGED <<version, job, tableSeq, pushes>>
    BY <1>8 DEF HandleAck, tableVars
  <2>2. \A c \in Node : epoch'[c].gen = epoch[c].gen
    BY <1>8, AckGrows DEF Grows
  <2> QED
    BY Zenon, <2>1, <2>2 DEF GenInv, NewTable, Numbered, SelfPush
<1>9. ASSUME NEW p \in pulls, HandlePull(p) PROVE GenInv'
  <2>1. UNCHANGED <<job, tableSeq, pushes, epoch>> /\ p.to \in Node /\ p.from \in Node
    BY <1>9 DEF HandlePull, coordVars, TypeOK, Answers
  <2>2. CASE version' = version
    BY <2>1, <2>2 DEF GenInv, NewTable, Numbered, SelfPush
  <2>3. CASE Install(p.to, p.sig, p.from, 0, p.num)
    <3>1. Renumbered(p.to, p.from, 0)
      BY <2>1, <2>3, InstallEffect
    <3>2. \A n \in Node : /\ version'[n].gen >= version[n].gen /\ version'[n].gen \in Nat
                          /\ version'[n].coord = n => \/ version'[n].seq = 0
                                                        \/ /\ version[n].coord = n
                                                           /\ version'[n].seq = version[n].seq
      BY <1>0, <2>1, <3>1 DEF Renumbered
    <3>3. \A n \in Node : NewTable(n)' = NewTable(n) /\ SelfPush(n)' = SelfPush(n)
      BY Zenon, <2>1 DEF NewTable, SelfPush
    <3>4. \A n \in Node : Numbered(n) => Numbered(n)'
      BY <1>0, <2>1, <3>2, <3>3 DEF Numbered
    <3>5. \A n \in Node : epoch[n].gen < version[n].gen => epoch'[n].gen < version'[n].gen
      BY <1>0, <2>1, <3>2
    <3>6. \A n \in Node : epoch'[n].gen <= version'[n].gen
      BY <1>0, <2>1, <3>2 DEF GenInv
    <3> QED
      BY Zenon, <3>3, <3>4, <3>5, <3>6 DEF GenInv
  <2> QED
    BY <1>9, <2>2, <2>3 DEF HandlePull, tableVars
<1> QED
  BY Zenon, <1>1, <1>2, <1>3, <1>4, <1>5, <1>6, <1>7, <1>8, <1>9, AsideSteps

\* The members, the numbers and the generations of the coordinators' own tables,
\* as RoutingTable.updateRoutingWithReason and setVersion keep them.
THEOREM EpochInvariant == Spec => []EpochInv
<1>1. Init => TypeOK /\ EpochInv
  BY TypeInit, NameInit, OwnInit DEF EpochInv
<1>2. TypeOK /\ EpochInv /\ [Next]_vars => (TypeOK /\ EpochInv)'
  BY TypeStep, NameStep, ListedStep, OwnStep, GenStep DEF EpochInv
<1> QED
  BY <1>1, <1>2, PTL DEF Spec

\* A coordinator starts no second epoch under one generation, and what an epoch
\* has of acks and of completion stays (startRebalanceEpoch, handleRebalanceAck,
\* admitLatePush), for the tables the coordinator is itself a member of.
THEOREM GenerationIsOneEpochHolds == Spec => GenerationIsOneEpoch
<1>1. ASSUME TypeOK, EpochInv, [Next]_vars
      PROVE  [\A c \in Node :
                /\ up'[c] # "gone"
                /\ c \in epoch'[c].pending
                => /\ epoch'[c].gen >= epoch[c].gen
                   /\ epoch'[c].gen = epoch[c].gen =>
                         /\ epoch'[c].sig = epoch[c].sig
                         /\ epoch[c].acked \subseteq epoch'[c].acked
                         /\ epoch[c].completed => epoch'[c].completed]_vars
  <2> SUFFICES ASSUME NEW c \in Node, up'[c] # "gone", c \in epoch'[c].pending
               PROVE  Grows(epoch[c], epoch'[c]) \/ epoch'[c].gen > epoch[c].gen
    <3>1. \A c \in Node : epoch[c].gen \in Nat /\ epoch'[c].gen \in Nat
      <4>1. TypeOK'
        BY <1>1, TypeStep
      <4> QED
        BY <1>1, <4>1 DEF TypeOK, Epochs
    <3> QED
      BY <3>1 DEF Grows
  <2>0. /\ up \in [Node -> {"off", "starting", "booting", "running", "gone"}]
        /\ epoch \in [Node -> Epochs] /\ GenInv
    BY <1>1 DEF TypeOK, EpochInv
  <2>1. CASE epoch'[c] = epoch[c]
    BY <2>1 DEF Grows
  <2>2. ASSUME NEW n \in Node, Stopped(n) PROVE epoch'[c] = epoch[c]
    BY <2>0, <2>2 DEF Stopped
  <2>3. ASSUME NEW n \in Node, Finish(n)
        PROVE  epoch'[c] = epoch[c] \/ epoch'[c].gen > epoch[c].gen
    <3>1. CASE epoch' = epoch
      BY <3>1
    <3>2. CASE /\ ~job[n].failed /\ job[n].changed
               /\ epoch' = [epoch EXCEPT ![n] = NewEpoch(n)]
      <4>1. NewEpoch(n).gen = version[n].gen /\ NewEpoch(n).pending = job[n].snap
        BY DEF NewEpoch, Checked
      <4>2. CASE c # n
        BY <2>0, <3>2, <4>2
      <4>3. CASE c = n
        <5>1. epoch'[c].gen = version[c].gen /\ c \in job[c].snap
          BY <2>0, <3>2, <4>1, <4>3
        <5>2. NewTable(c) /\ ~Numbered(c)
          BY <2>3, <3>2, <4>3, <5>1 DEF NewTable, Numbered, SelfPush, Finish
        <5>3. epoch[c].gen < version[c].gen
          BY <2>0, <5>2 DEF GenInv
        <5> QED
          BY <5>1, <5>3
      <4> QED
        BY <4>2, <4>3
    <3> QED
      BY Zenon, <2>3, <3>1, <3>2 DEF Finish
  <2>4. ASSUME NEW n \in Node, NEW r \in retry[n],
               \/ RetrySend(n, r) \/ RetryEnds(n, r)
               \/ LatePushReported(n, r) \/ AdmitLatePush(n, r)
        PROVE  Grows(epoch[c], epoch'[c])
    <3>1. CASE epoch' = epoch
      BY <3>1 DEF Grows
    <3>2. CASE AdmitLatePush(n, r)
      BY <1>1, <3>2, AdmitGrows
    <3> QED
      BY Zenon, <2>4, <3>1, <3>2 DEF RetrySend, RetryEnds, LatePushReported
  <2>5. ASSUME NEW p \in pushes, HandlePush(p) \/ PushTimeout(p) PROVE epoch' = epoch
    BY <1>1, <2>5, DeliverPushes
  <2>6. ASSUME NEW a \in acks, HandleAck(a) PROVE Grows(epoch[c], epoch'[c])
    BY <1>1, <2>6, AckGrows
  <2>7. ASSUME NEW p \in pulls, HandlePull(p) PROVE epoch' = epoch
    BY <2>7 DEF HandlePull, coordVars
  <2>8. ASSUME NEW n \in Node, NEW by, Snapshot(n, by) PROVE epoch' = epoch
    BY <2>8 DEF Snapshot
  <2>9. ASSUME NEW n \in Node, NEW v, Compute(n, v) PROVE epoch' = epoch
    BY <2>9 DEF Compute
  <2>10. CASE Aside
    BY <2>1, <2>10 DEF Aside
  <2> QED
    BY Zenon, <1>1, <2>1, <2>2, <2>3, <2>4, <2>5, <2>6, <2>7, <2>8, <2>9, <2>10, AsideSteps
<1> QED
  BY <1>1, EpochInvariant, TypeCorrect, PTL DEF Spec, GenerationIsOneEpoch
=============================================================================
