------------------------- MODULE RoutingTableProofs -------------------------
(***************************************************************************)
(* Theorems about RoutingTable, for every cluster and every bound.         *)
(***************************************************************************)
EXTENDS RoutingTable, FiniteSetTheorems, TLAPS

\* The absence of a table and the table Init starts from are tables.
LEMMA TablesLemma ==
    NoTable \in Tables /\ First \in Tables /\ Oldest \in Node
<1>1. Oldest \in Initial
  BY Zenon, NodeAssumption DEF Oldest
<1> QED
  BY <1>1, NodeAssumption, VariantsAssumption DEF NoTable, Tables, First

\* numMembers is a number: the members are finitely many.
LEMMA CardinalityLemma ==
    ASSUME NEW S \in SUBSET Node PROVE Cardinality(S) \in Nat
BY Zenon, FS_Subset, FS_CardinalityType, NodeAssumption

\* The empty records every member starts from (New) have their types.
LEMMA ConstantsLemma ==
    /\ NoVersion \in Versions /\ NoCommit \in Commits /\ NoEpoch \in Epochs
    /\ Idle \in Jobs /\ NoCycle \in Cycles /\ Unnoted \in Notes
BY TablesLemma DEF NoVersion, Versions, NoCommit, Commits, NoEpoch, Epochs, Idle, Jobs,
    NoCycle, Cycles, Unnoted, Notes

\* The joins memberlist reports on joining, in some order, are a queue of events.
LEMMA OrdersLemma ==
    ASSUME NEW S \in SUBSET Node, NEW o \in Orders(S) PROVE Joins(o) \in Seq(Events)
<1>1. Cardinality(S) \in Nat
  BY CardinalityLemma
<1>2. /\ DOMAIN o = 1..Cardinality(S) /\ \A i \in 1..Cardinality(S) : o[i] \in Node
  BY DEF Orders
<1>3. Joins(o) \in [1..Cardinality(S) -> Events]
  BY <1>2 DEF Joins, Events
<1> QED
  BY <1>1, <1>3

\* Replacing one queue and adding to another keeps them queues.
LEMMA QueueUpdates ==
    ASSUME NEW D, NEW S, NEW f \in [D -> Seq(S)], NEW a \in D, NEW b \in D,
           NEW q \in Seq(S), NEW e \in S
    PROVE  [f EXCEPT ![a] = q, ![b] = Append(@, e)] \in [D -> Seq(S)]
<1> DEFINE g == [f EXCEPT ![a] = q]
<1>1. g \in [D -> Seq(S)]
  OBVIOUS
<1> HIDE DEF g
<1>2. Append(g[b], e) \in Seq(S)
  BY <1>1
<1> QED
  BY <1>1, <1>2 DEF g

\* There is such an order.
LEMMA SomeOrder ==
    ASSUME NEW S \in SUBSET Node PROVE Orders(S) # {}
<1>1. IsFiniteSet(S)
  BY Zenon, FS_Subset, NodeAssumption
<1>2. PICK f \in Bijection(1..Cardinality(S), S) : TRUE
  BY <1>1, FS_CardinalityType DEF ExistsBijection
<1>3. f \in [1..Cardinality(S) -> S] /\ \A i, j \in DOMAIN f : f[i] = f[j] => i = j
  BY <1>2 DEF Bijection, Injection, IsInjective
<1> QED
  BY Zenon, <1>3 DEF Orders

\* What New and the first members start from has its type.
LEMMA TypeInit == Init => TypeOK
<1> SUFFICES ASSUME Init PROVE TypeOK
  OBVIOUS
<1> USE TablesLemma, ConstantsLemma, NodeAssumption
<1>1. up \in [Node -> {"off", "starting", "booting", "running", "gone"}]
  BY DEF Init
<1>2. view \in [Node -> SUBSET Node] /\ members \in [Node -> SUBSET Node]
  BY DEF Init
<1>3. num \in [Node -> Nat]
  BY CardinalityLemma DEF Init
<1>4. version \in [Node -> Versions]
  BY DEF Init, Versions
<1>5. inbox \in [Node -> Seq(Events)]
  <2>1. \A n \in Node : Joins(CHOOSE o \in Orders(Initial \ {n}) : TRUE) \in Seq(Events)
    BY SomeOrder, OrdersLemma
  <2>2. <<>> \in Seq(Events)
    OBVIOUS
  <2> QED
    BY <2>1, <2>2 DEF Init
<1>6. epoch \in [Node -> Epochs]
  BY DEF Init, Epochs
<1>7. committed \in [Node -> Commits]
  BY DEF Init, Commits
<1>8. noted \in [Node -> [Node -> Notes]]
  BY DEF Init
<1>9. budget \in Budgets
  BY BoundsAssumption DEF Init, Budgets
<1>10. hist \in [Node -> SUBSET Tables]
  BY DEF Init
<1> QED
  BY Zenon, <1>1, <1>2, <1>3, <1>4, <1>5, <1>6, <1>7, <1>8, <1>9, <1>10 DEF Init, TypeOK

\* A request that times out, an answer that is outdated and a push that is
\* retried keep their types.
LEMMA RecordLemma ==
    /\ \A p \in Pushes : [p EXCEPT !.st = "late"] \in Pushes
    /\ \A a \in Acks : [a EXCEPT !.st = "late"] \in Acks
    /\ \A p \in Answers : [p EXCEPT !.stale = TRUE] \in Answers
    /\ \A r \in Retrials, s \in {"wait", "sent", "admit", "add"} :
          [r EXCEPT !.st = s] \in Retrials
    /\ \A p \in Pushes : RetryOf(p) \in Retrials
BY Zenon DEF Pushes, Acks, Answers, Retrials, RetryOf

\* Spending from a bound that is not used up leaves a budget.
LEMMA BudgetLemma ==
    ASSUME NEW b \in Budgets
    PROVE  /\ b.timeouts > 0 => [b EXCEPT !.timeouts = @ - 1] \in Budgets
           /\ b.crashes > 0 => [b EXCEPT !.crashes = @ - 1] \in Budgets
           /\ b.suspicions > 0 => [b EXCEPT !.suspicions = @ - 1] \in Budgets
           /\ b.ticks > 0 => [b EXCEPT !.ticks = @ - 1] \in Budgets
           /\ b.changes > 0 => [b EXCEPT !.changes = @ - 1] \in Budgets
BY DEF Budgets

\* startRebalanceEpoch, admitLatePush and the completion check make epochs.
LEMMA EpochLemma ==
    ASSUME NEW e \in Epochs, NEW live, NEW m \in Node
    PROVE  /\ Checked(e, live) \in Epochs
           /\ Awaiting(e, m) \in Epochs
           /\ [e EXCEPT !.acked = @ \cup {m}] \in Epochs
<1>1. CompleteNow(e, live) \in BOOLEAN
  BY DEF CompleteNow
<1> QED
  BY <1>1 DEF Checked, Awaiting, Epochs

\* A push that failed is booked in the job it belongs to.
LEMMA JobLemma ==
    ASSUME TypeOK, NEW n \in Node, NEW m \in Node
    PROVE  PushFailed(n, m) \in [Node -> Jobs]
<1>1. job[n] \in Jobs
  BY DEF TypeOK
<1>2. [job[n] EXCEPT !.failed = TRUE] \in Jobs
  BY Zenon, <1>1 DEF Jobs
<1>3. [job[n] EXCEPT !.unreach = @ \cup {m}] \in Jobs
  BY <1>1 DEF Jobs
<1> QED
  BY <1>2, <1>3 DEF TypeOK, PushFailed

\* setVersion makes a version.
LEMMA VersionLemma ==
    ASSUME TypeOK, NEW m \in Node, NEW sig \in Tables, NEW c \in Node, NEW seq \in Nat,
           NEW n \in Nat
    PROVE  SetVersion(m, sig, c, seq, n) \in Versions
<1>1. version[m] \in Versions
  BY DEF TypeOK
<1> QED
  BY <1>1 DEF SetVersion, Versions

\* Every handler and every step of the protocol preserves the types.
LEMMA TypeStep == TypeOK /\ [Next]_vars => TypeOK'
<1> USE TablesLemma, ConstantsLemma DEF vars, memberVars, tableVars, coordVars, localVars,
    netVars
<1> SUFFICES ASSUME TypeOK, [Next]_vars PROVE TypeOK'
  OBVIOUS
<1>version. version \in [Node -> Versions]
  BY DEF TypeOK
<1>inbox. inbox \in [Node -> Seq(Events)]
  BY DEF TypeOK
<1>job. job \in [Node -> Jobs]
  BY DEF TypeOK
<1>epoch. epoch \in [Node -> Epochs]
  BY DEF TypeOK
<1>retry. retry \in [Node -> SUBSET Retrials]
  BY DEF TypeOK
<1>chase. chase \in [Node -> SUBSET Tables]
  BY DEF TypeOK
<1>pushes. pushes \in SUBSET Pushes
  BY DEF TypeOK
<1>acks. acks \in SUBSET Acks
  BY DEF TypeOK
<1>pulls. pulls \in SUBSET Answers
  BY DEF TypeOK
<1>hist. hist \in [Node -> SUBSET Tables]
  BY DEF TypeOK
<1>1. ASSUME NEW n \in Node, NEW p \in Node, NodeUp(n, p) PROVE TypeOK'
  <2>1. up' \in [Node -> {"off", "starting", "booting", "running", "gone"}]
    BY <1>1 DEF TypeOK, NodeUp
  <2>2. view' \in [Node -> SUBSET Node]
    BY Zenon, <1>1 DEF TypeOK, NodeUp, Added, SameName
  <2>3. num' \in [Node -> Nat]
    BY <1>1, CardinalityLemma DEF TypeOK, NodeUp, Added, SameName
  <2>4. inbox' \in [Node -> Seq(Events)]
    <3>1. PICK order \in Orders(Added(view[p], n) \ {n}) :
            inbox' = [inbox EXCEPT ![n] = Joins(order), ![p] = Append(@, Arrival(p, n))]
      BY Zenon, <1>1 DEF NodeUp
    <3>2. Added(view[p], n) \ {n} \in SUBSET Node
      BY DEF TypeOK, Added, SameName
    <3>3. Joins(order) \in Seq(Events)
      BY <3>1, <3>2, OrdersLemma
    <3>4. Arrival(p, n) \in Events
      BY DEF Arrival, Events
    <3> QED
      BY Zenon, <1>inbox, <3>1, <3>3, <3>4, QueueUpdates
  <2> QED
    BY Zenon, <1>1, <2>1, <2>2, <2>3, <2>4 DEF TypeOK, NodeUp
<1>2. ASSUME NEW n \in Node, NEW m \in Node, GossipAlive(n, m) PROVE TypeOK'
  <2>1. view' \in [Node -> SUBSET Node]
    BY <1>2 DEF TypeOK, GossipAlive, Added, SameName
  <2>2. inbox' \in [Node -> Seq(Events)]
    BY <1>2 DEF TypeOK, GossipAlive, Arrival, Events
  <2> QED
    BY Zenon, <1>2, <2>1, <2>2 DEF TypeOK, GossipAlive
<1>3. ASSUME NEW n \in Node, NEW m \in Node, GossipDead(n, m) PROVE TypeOK'
  <2>1. view' \in [Node -> SUBSET Node]
    BY <1>3 DEF TypeOK, GossipDead
  <2>2. inbox' \in [Node -> Seq(Events)]
    BY <1>3 DEF TypeOK, GossipDead, Events
  <2>3. budget' \in Budgets
    BY Zenon, <1>3, BudgetLemma DEF TypeOK, GossipDead
  <2> QED
    BY Zenon, <1>3, <2>1, <2>2, <2>3 DEF TypeOK, GossipDead
<1>4. ASSUME NEW n \in Node, NEW m \in Node, ProcessJoin(n, m) PROVE TypeOK'
  <2>1. members' \in [Node -> SUBSET Node]
    BY <1>4 DEF TypeOK, ProcessJoin, Takes
  <2>2. num' \in [Node -> Nat]
    BY <1>4, CardinalityLemma DEF TypeOK, ProcessJoin, Takes
  <2>3. inbox' \in [Node -> Seq(Events)]
    BY <1>4 DEF TypeOK, ProcessJoin, Takes
  <2>4. todo' \in [Node -> Events \cup {NoEvent}]
    BY <1>4 DEF TypeOK, ProcessJoin, Takes
  <2>5. noted' \in [Node -> [Node -> Notes]]
    BY Zenon, <1>4 DEF TypeOK, ProcessJoin, Takes, Notes, Versions
  <2> QED
    BY Zenon, <1>4, <2>1, <2>2, <2>3, <2>4, <2>5 DEF TypeOK, ProcessJoin, Takes
<1>5. ASSUME NEW n \in Node, NEW m \in Node, ProcessLeave(n, m) PROVE TypeOK'
  <2>1. members' \in [Node -> SUBSET Node]
    BY <1>5 DEF TypeOK, ProcessLeave, Takes
  <2>2. num' \in [Node -> Nat]
    <3>1. num' = num \/ num' = [num EXCEPT ![n] = Cardinality(view[n])]
      BY <1>5 DEF ProcessLeave
    <3>2. num \in [Node -> Nat] /\ view[n] \in SUBSET Node
      BY DEF TypeOK
    <3>3. Cardinality(view[n]) \in Nat
      BY <3>2, CardinalityLemma
    <3> QED
      BY <3>1, <3>2, <3>3
  <2>3. inbox' \in [Node -> Seq(Events)]
    BY <1>5 DEF TypeOK, ProcessLeave, Takes
  <2>4. todo' \in [Node -> Events \cup {NoEvent}]
    BY <1>5 DEF TypeOK, ProcessLeave, Takes
  <2>5. noted' \in [Node -> [Node -> Notes]]
    <3> DEFINE left == [kind |-> "left", gen |-> version[n].gen]
    <3>1. noted' = noted \/ noted' = [noted EXCEPT ![n][m] = left]
      BY <1>5 DEF ProcessLeave
    <3>2. left \in Notes
      BY DEF TypeOK, Notes, Versions
    <3> HIDE DEF left
    <3>3. noted \in [Node -> [Node -> Notes]]
      BY DEF TypeOK
    <3> QED
      BY <3>1, <3>2, <3>3
  <2> QED
    BY Zenon, <1>5, <2>1, <2>2, <2>3, <2>4, <2>5 DEF TypeOK, ProcessLeave, Takes
<1>7. ASSUME NEW n \in Node, NEW m \in Node, ProcessUpdate(n, m) PROVE TypeOK'
  <2>1. members' \in [Node -> SUBSET Node]
    BY <1>7 DEF TypeOK, ProcessUpdate, Takes, Added, SameName
  <2>2. num' \in [Node -> Nat]
    BY <1>7, CardinalityLemma DEF TypeOK, ProcessUpdate, Takes
  <2>3. inbox' \in [Node -> Seq(Events)]
    BY <1>7 DEF TypeOK, ProcessUpdate, Takes
  <2>4. todo' \in [Node -> Events \cup {NoEvent}]
    BY <1>7 DEF TypeOK, ProcessUpdate, Takes
  <2> QED
    BY Zenon, <1>7, <2>1, <2>2, <2>3, <2>4 DEF TypeOK, ProcessUpdate, Takes
<1>8. ASSUME NEW n \in Node, ListenerSkips(n) PROVE TypeOK'
  <2>1. todo' \in [Node -> Events \cup {NoEvent}]
    BY <1>8 DEF TypeOK, ListenerSkips, ListenerDone
  <2>2. chase' \in [Node -> SUBSET Tables]
    BY <1>8 DEF TypeOK, ListenerSkips, ListenerDone, Versions
  <2> QED
    BY Zenon, <1>8, <2>1, <2>2 DEF TypeOK, ListenerSkips, ListenerDone
<1>9. ASSUME NEW n \in Node, Start(n) PROVE TypeOK'
  <2>1. up' \in [Node -> {"off", "starting", "booting", "running", "gone"}]
    BY <1>9 DEF TypeOK, Start
  <2>2. members' \in [Node -> SUBSET Node]
    BY <1>9 DEF TypeOK, Start
  <2> QED
    BY <1>9, <2>1, <2>2 DEF TypeOK, Start
<1>10. ASSUME NEW n \in Node, NEW by \in {"boot", "event", "timer"}, Snapshot(n,
   by) PROVE TypeOK'
  <2>1. job' \in [Node -> Jobs]
    BY Zenon, <1>10 DEF TypeOK, Snapshot, Jobs, Idle
  <2>2. budget' \in Budgets
    BY Zenon, <1>10, BudgetLemma DEF TypeOK, Snapshot, MayUpdate, TickDue
  <2> QED
    BY <1>10, <2>1, <2>2 DEF TypeOK, Snapshot
<1>11. ASSUME NEW n \in Node, NEW v \in Variants, Compute(n, v) PROVE TypeOK'
  <2>1. job' \in [Node -> Jobs]
    <3> DEFINE table == [ring |-> members[n], left |-> v]
               changed == job[n].by = "boot" \/ table # version[n].sig
               seq == tableSeq[n] + (IF changed THEN 1 ELSE 0)
    <3>0. table \in Tables /\ seq \in Nat /\ changed \in BOOLEAN
      BY DEF TypeOK, Tables
    <3>1. job' = [job EXCEPT ![n].st = "push", ![n].sig = table, ![n].seq = seq,
                             ![n].changed = changed, ![n].prev = committed[n]]
      BY <1>11 DEF Compute
    <3> HIDE DEF table, changed, seq
    <3>2. job[n] \in Jobs /\ committed[n] \in Commits
      BY DEF TypeOK
    <3>3. [job[n] EXCEPT !.st = "push", !.sig = table, !.seq = seq,
                         !.changed = changed, !.prev = committed[n]] \in Jobs
      BY Zenon, <3>0, <3>2 DEF Jobs
    <3> QED
      BY <1>job, <3>1, <3>3
  <2>2. committed' \in [Node -> Commits]
    BY <1>11 DEF TypeOK, Compute, Tables, Commits
  <2>3. tableSeq' \in [Node -> Nat]
    BY <1>11 DEF TypeOK, Compute
  <2>4. pushes' \in SUBSET Pushes
    <3> DEFINE table == [ring |-> members[n], left |-> v]
               changed == job[n].by = "boot" \/ table # version[n].sig
               seq == tableSeq[n] + (IF changed THEN 1 ELSE 0)
    <3>0. table \in Tables /\ seq \in Nat
      BY DEF TypeOK, Tables
    <3>1. pushes' = pushes \cup {[st |-> "fan", from |-> n, to |-> m, sig |-> table,
                                     seq |-> seq] : m \in members[n]}
      BY <1>11 DEF Compute, Targets
    <3>2. members[n] \in SUBSET Node
      BY DEF TypeOK
    <3> HIDE DEF table, seq
    <3> QED
      BY <1>pushes, <3>0, <3>1, <3>2 DEF Pushes
  <2>5. budget' \in Budgets
    BY Zenon, <1>11, BudgetLemma DEF TypeOK, Compute
  <2> QED
    BY Zenon, <1>11, <2>1, <2>2, <2>3, <2>4, <2>5 DEF TypeOK, Compute
<1>12. ASSUME NEW n \in Node, ComputePanics(n) PROVE TypeOK'
  <2>1. up' \in [Node -> {"off", "starting", "booting", "running", "gone"}]
    BY <1>12 DEF TypeOK, ComputePanics, Stopped
  <2>2. view' \in [Node -> SUBSET Node]
    BY <1>12 DEF TypeOK, ComputePanics, Stopped
  <2>3. members' \in [Node -> SUBSET Node]
    BY <1>12 DEF TypeOK, ComputePanics, Stopped
  <2>4. num' \in [Node -> Nat]
    BY <1>12 DEF TypeOK, ComputePanics, Stopped
  <2>5. version' \in [Node -> Versions]
    BY <1>12 DEF TypeOK, ComputePanics, Stopped
  <2>6. tcoord' \in [Node -> Node \cup {0}]
    BY <1>12 DEF TypeOK, ComputePanics, Stopped
  <2>7. inbox' \in [Node -> Seq(Events)]
    BY <1>12 DEF TypeOK, ComputePanics, Stopped
  <2>8. todo' \in [Node -> Events \cup {NoEvent}]
    BY <1>12 DEF TypeOK, ComputePanics, Stopped
  <2>9. job' \in [Node -> Jobs]
    BY <1>12 DEF TypeOK, ComputePanics, Stopped
  <2>10. committed' \in [Node -> Commits]
    BY <1>12 DEF TypeOK, ComputePanics, Stopped
  <2>11. tableSeq' \in [Node -> Nat]
    BY <1>12 DEF TypeOK, ComputePanics, Stopped
  <2>12. epoch' \in [Node -> Epochs]
    BY <1>12 DEF TypeOK, ComputePanics, Stopped
  <2>13. early' \in [Node -> SUBSET (Tables \X Node)]
    BY <1>12 DEF TypeOK, ComputePanics, Stopped
  <2>14. retry' \in [Node -> SUBSET Retrials]
    BY <1>12 DEF TypeOK, ComputePanics, Stopped
  <2>15. chase' \in [Node -> SUBSET Tables]
    BY <1>12 DEF TypeOK, ComputePanics, Stopped
  <2>16. cycle' \in [Node -> Cycles]
    BY <1>12 DEF TypeOK, ComputePanics, Stopped
  <2>17. lastAcked' \in [Node -> Nat]
    BY <1>12 DEF TypeOK, ComputePanics, Stopped
  <2>18. pushes' \in SUBSET Pushes
    BY Zenon, <1>12, RecordLemma DEF TypeOK, ComputePanics, Stopped
  <2>19. acks' \in SUBSET Acks
    BY Zenon, <1>12, RecordLemma DEF TypeOK, ComputePanics, Stopped
  <2>20. pulls' \in SUBSET Answers
    BY <1>12 DEF TypeOK, ComputePanics, Stopped
  <2>21. noted' \in [Node -> [Node -> Notes]]
    BY <1>12 DEF TypeOK, ComputePanics, Stopped
  <2> QED
    BY SMTT(20), <1>12, <2>1, <2>2, <2>3, <2>4, <2>5, <2>6, <2>7, <2>8, <2>9, <2>10, <2>11,
       <2>12, <2>13, <2>14, <2>15, <2>16, <2>17, <2>18, <2>19, <2>20, <2>21 DEF TypeOK,
       ComputePanics, Stopped
<1>13. ASSUME NEW n \in Node, Finish(n) PROVE TypeOK'
  <2>1. up' \in [Node -> {"off", "starting", "booting", "running", "gone"}]
    BY <1>13 DEF TypeOK, Finish
  <2>2. todo' \in [Node -> Events \cup {NoEvent}]
    BY Zenon, <1>13 DEF TypeOK, Finish, ListenerDone
  <2>3. job' \in [Node -> Jobs]
    BY <1>13 DEF TypeOK, Finish
  <2>4. committed' \in [Node -> Commits]
    BY <1>13 DEF TypeOK, Finish, Jobs
  <2>5. epoch' \in [Node -> Epochs]
    <3>1. [sig |-> job[n].sig, gen |-> version[n].gen, num |-> job[n].seq,
           members |-> job[n].snap, pending |-> job[n].snap,
           acked |-> {m \in Node : <<job[n].sig, m>> \in early[n]},
           completed |-> FALSE] \in Epochs
      BY Zenon DEF TypeOK, Epochs, Jobs, Versions
    <3>2. NewEpoch(n) \in Epochs
      BY Zenon, <3>1, EpochLemma DEF NewEpoch
    <3>3. epoch' = epoch \/ epoch' = [epoch EXCEPT ![n] = NewEpoch(n)]
      BY <1>13 DEF Finish
    <3> QED
      BY Zenon, <3>2, <3>3 DEF TypeOK
  <2>6. early' \in [Node -> SUBSET (Tables \X Node)]
    BY Zenon, <1>13 DEF TypeOK, Finish
  <2>7. retry' \in [Node -> SUBSET Retrials]
    <3>1. job[n] \in Jobs
      BY DEF TypeOK
    <3>2. Unreached(n) \in SUBSET Retrials
      BY <3>1 DEF Unreached, Jobs, Retrials
    <3>3. retry' = retry \/ retry' = [retry EXCEPT ![n] = @ \cup Unreached(n)]
      BY <1>13 DEF Finish
    <3> QED
      BY <1>retry, <3>2, <3>3
  <2>8. chase' \in [Node -> SUBSET Tables]
    <3>1. version[n].sig \in Tables
      BY DEF TypeOK, Versions
    <3>2. chase' = chase \/ chase' = [chase EXCEPT ![n] = @ \cup {version[n].sig}]
      BY <1>13 DEF Finish, ListenerDone
    <3> QED
      BY <1>chase, <3>1, <3>2
  <2> QED
    BY Zenon, <1>13, <2>1, <2>2, <2>3, <2>4, <2>5, <2>6, <2>7, <2>8 DEF TypeOK, Finish
<1>14. ASSUME NEW n \in Node, NEW r \in retry[n], RetrySend(n, r) PROVE TypeOK'
  <2>1. retry' \in [Node -> SUBSET Retrials]
    BY Zenon, <1>14, RecordLemma DEF TypeOK, RetrySend
  <2>2. pushes' \in SUBSET Pushes
    BY SMTT(20), <1>14 DEF TypeOK, RetrySend, Retrials, Pushes
  <2> QED
    BY SMTT(20), <1>14, <2>1, <2>2 DEF TypeOK, RetrySend
<1>15. ASSUME NEW n \in Node, NEW r \in retry[n], RetryEnds(n, r) PROVE TypeOK'
  <2>1. retry' \in [Node -> SUBSET Retrials]
    BY <1>15 DEF TypeOK, RetryEnds
  <2> QED
    BY <1>15, <2>1 DEF TypeOK, RetryEnds
<1>16. ASSUME NEW n \in Node, NEW r \in retry[n], LatePushReported(n, r) PROVE TypeOK'
  <2>1. retry' \in [Node -> SUBSET Retrials]
    BY Zenon, <1>16, RecordLemma DEF TypeOK, LatePushReported
  <2> QED
    BY Zenon, <1>16, <2>1 DEF TypeOK, LatePushReported
<1>17. ASSUME NEW n \in Node, NEW r \in retry[n], AdmitLatePush(n, r) PROVE TypeOK'
  <2>1. epoch' \in [Node -> Epochs]
    <3>1. r.to \in Node /\ epoch[n] \in Epochs
      BY DEF TypeOK, Retrials
    <3>2. Checked(Awaiting(epoch[n], r.to), members[n]) \in Epochs
      BY Zenon, <3>1, EpochLemma
    <3>3. \/ epoch' = epoch
          \/ epoch' = [epoch EXCEPT ![n] = Checked(Awaiting(epoch[n], r.to), members[n])]
      BY <1>17 DEF AdmitLatePush
    <3> QED
      BY Zenon, <1>epoch, <3>2, <3>3
  <2>2. retry' \in [Node -> SUBSET Retrials]
    BY Zenon, <1>17 DEF TypeOK, AdmitLatePush
  <2> QED
    BY Zenon, <1>17, <2>1, <2>2 DEF TypeOK, AdmitLatePush
<1>18. ASSUME NEW m \in Node, CycleStart(m) PROVE TypeOK'
  <2>1. cycle' \in [Node -> Cycles]
    BY <1>18 DEF TypeOK, CycleStart, Cycles, Versions
  <2> QED
    BY SMTT(20), <1>18, <2>1 DEF TypeOK, CycleStart
<1>19. ASSUME NEW m \in Node, CycleAborts(m) PROVE TypeOK'
  <2>1. cycle' \in [Node -> Cycles]
    BY Zenon, <1>19 DEF TypeOK, CycleAborts
  <2> QED
    BY Zenon, <1>19, <2>1 DEF TypeOK, CycleAborts
<1>20. ASSUME NEW m \in Node, NEW c \in Node, SendAck(m, c) PROVE TypeOK'
  <2>1. acks' \in SUBSET Acks
    BY <1>20 DEF TypeOK, SendAck, Acks, Cycles
  <2> QED
    BY Zenon, <1>20, <2>1 DEF TypeOK, SendAck
<1>21. ASSUME NEW p \in pushes, HandlePush(p) PROVE TypeOK'
  <2>1. version' \in [Node -> Versions]
    <3>1. p.to \in Node /\ p.from \in Node /\ p.sig \in Tables /\ p.seq \in Nat
      BY <1>pushes DEF Pushes
    <3>2. SetVersion(p.to, p.sig, p.from, p.seq, p.seq) \in Versions
      BY <3>1, VersionLemma
    <3>3. \/ version' = version
          \/ version' = [version EXCEPT ![p.to] = SetVersion(p.to, p.sig, p.from, p.seq, p.seq)]
      BY <1>21 DEF HandlePush, Install
    <3> QED
      BY <1>version, <3>2, <3>3
  <2>2. tcoord' \in [Node -> Node \cup {0}]
    BY <1>21 DEF TypeOK, HandlePush, Install, Pushes
  <2>3. job' \in [Node -> Jobs]
    <3>1. p.to \in Node /\ p.from \in Node /\ p.st \in {"fan", "retry", "late"}
      BY <1>pushes DEF Pushes
    <3>2. job' = job \/ job' = PushFailed(p.from, p.to)
      BY Zenon, <1>21, <3>1 DEF HandlePush, Answered
    <3> QED
      BY Zenon, <1>job, <3>1, <3>2, JobLemma
  <2>4. retry' \in [Node -> SUBSET Retrials]
    <3>1. p \in Pushes /\ p.st \in {"fan", "retry", "late"}
      BY <1>pushes DEF Pushes
    <3>2. \/ retry' = retry
          \/ \E s \in {"admit", "wait"} :
                retry' = [retry EXCEPT ![p.from] =
                            (@ \ {RetryOf(p)}) \cup {[RetryOf(p) EXCEPT !.st = s]}]
      BY Zenon, <1>21, <3>1 DEF HandlePush, Answered
    <3>3. \A s \in {"admit", "wait"} : [RetryOf(p) EXCEPT !.st = s] \in Retrials
      BY Zenon, <3>1, RecordLemma
    <3> QED
      BY <1>retry, <3>2, <3>3
  <2>5. pushes' \in SUBSET Pushes
    BY <1>21 DEF TypeOK, HandlePush
  <2>6. pulls' \in SUBSET Answers
    <3>1. Outdated(p.to) \in SUBSET Answers
      BY <1>pulls, RecordLemma DEF Outdated
    <3>2. pulls' \in SUBSET (pulls \cup Outdated(p.to))
      BY <1>21 DEF HandlePush
    <3> QED
      BY <1>pulls, <3>1, <3>2
  <2>7. hist' \in [Node -> SUBSET Tables]
    BY SMTT(20), <1>21 DEF TypeOK, HandlePush, Install, Pushes
  <2> QED
    BY <1>21, <2>1, <2>2, <2>3, <2>4, <2>5, <2>6, <2>7 DEF TypeOK, HandlePush, Answered
<1>22. ASSUME NEW p \in pushes, PushTimeout(p) PROVE TypeOK'
  <2>1. job' \in [Node -> Jobs]
    <3>1. p.to \in Node /\ p.from \in Node /\ p.st \in {"fan", "retry", "late"}
      BY <1>pushes DEF Pushes
    <3>2. job' = job \/ job' = PushFailed(p.from, p.to)
      BY Zenon, <1>22, <3>1 DEF PushTimeout, Answered
    <3> QED
      BY Zenon, <1>job, <3>1, <3>2, JobLemma
  <2>2. retry' \in [Node -> SUBSET Retrials]
    <3>1. p \in Pushes /\ p.st \in {"fan", "retry", "late"}
      BY <1>pushes DEF Pushes
    <3>2. \/ retry' = retry
          \/ \E s \in {"admit", "wait"} :
                retry' = [retry EXCEPT ![p.from] =
                            (@ \ {RetryOf(p)}) \cup {[RetryOf(p) EXCEPT !.st = s]}]
      BY Zenon, <1>22, <3>1 DEF PushTimeout, Answered
    <3>3. \A s \in {"admit", "wait"} : [RetryOf(p) EXCEPT !.st = s] \in Retrials
      BY Zenon, <3>1, RecordLemma
    <3> QED
      BY <1>retry, <3>2, <3>3
  <2>3. pushes' \in SUBSET Pushes
    <3>1. [p EXCEPT !.st = "late"] \in Pushes
      BY <1>pushes, RecordLemma
    <3>2. pushes' \in SUBSET (pushes \cup {[p EXCEPT !.st = "late"]})
      BY <1>22 DEF PushTimeout
    <3> QED
      BY <1>pushes, <3>1, <3>2
  <2>4. budget' \in Budgets
    BY Zenon, <1>22, BudgetLemma DEF TypeOK, PushTimeout
  <2> QED
    BY Zenon, <1>22, <2>1, <2>2, <2>3, <2>4 DEF TypeOK, PushTimeout
<1>23. ASSUME NEW a \in acks, HandleAck(a) PROVE TypeOK'
  <2>1. epoch' \in [Node -> Epochs]
    <3>1. a.from \in Node /\ a.to \in Node
      BY DEF TypeOK, Acks
    <3> DEFINE marked == [epoch[a.to] EXCEPT !.acked = @ \cup {a.from}]
    <3>2. marked \in Epochs /\ Checked(marked, members[a.to]) \in Epochs
      BY Zenon, <3>1, EpochLemma DEF TypeOK
    <3>3. \/ epoch' = epoch
          \/ epoch' = [epoch EXCEPT ![a.to] = marked]
          \/ epoch' = [epoch EXCEPT ![a.to] = Checked(marked, members[a.to])]
      BY Zenon, <1>23 DEF HandleAck
    <3> QED
      BY Zenon, <3>1, <3>2, <3>3 DEF TypeOK
  <2>2. early' \in [Node -> SUBSET (Tables \X Node)]
    BY <1>23 DEF TypeOK, HandleAck, AckStatus, Acks
  <2>3. cycle' \in [Node -> Cycles]
    BY Zenon, <1>23 DEF TypeOK, HandleAck
  <2>4. lastAcked' \in [Node -> Nat]
    BY Zenon, <1>23 DEF TypeOK, HandleAck, Acks
  <2>5. acks' \in SUBSET Acks
    BY <1>23 DEF TypeOK, HandleAck
  <2> QED
    BY Zenon, <1>23, <2>1, <2>2, <2>3, <2>4, <2>5 DEF TypeOK, HandleAck
<1>24. ASSUME NEW a \in acks, AckTimeout(a) PROVE TypeOK'
  <2>1. cycle' \in [Node -> Cycles]
    BY Zenon, <1>24 DEF TypeOK, AckTimeout
  <2>2. acks' \in SUBSET Acks
    <3>1. [a EXCEPT !.st = "late"] \in Acks
      BY <1>acks, RecordLemma
    <3>2. acks' \in SUBSET (acks \cup {[a EXCEPT !.st = "late"]})
      BY <1>24 DEF AckTimeout
    <3> QED
      BY <1>acks, <3>1, <3>2
  <2>3. budget' \in Budgets
    BY Zenon, <1>24, BudgetLemma DEF TypeOK, AckTimeout
  <2> QED
    BY Zenon, <1>24, <2>1, <2>2, <2>3 DEF TypeOK, AckTimeout
<1>25. ASSUME NEW p \in pulls, HandlePull(p) PROVE TypeOK'
  <2>1. version' \in [Node -> Versions]
    <3>1. p.to \in Node /\ p.from \in Node /\ p.sig \in Tables /\ p.num \in Nat
      BY <1>pulls DEF Answers
    <3>2. SetVersion(p.to, p.sig, p.from, 0, p.num) \in Versions
      BY <3>1, VersionLemma
    <3>3. \/ version' = version
          \/ version' = [version EXCEPT ![p.to] = SetVersion(p.to, p.sig, p.from, 0, p.num)]
      BY <1>25 DEF HandlePull, Install
    <3> QED
      BY <1>version, <3>2, <3>3
  <2>2. tcoord' \in [Node -> Node \cup {0}]
    BY Zenon, <1>25 DEF TypeOK, HandlePull, Install, Answers
  <2>3. chase' \in [Node -> SUBSET Tables]
    BY Zenon, <1>25 DEF TypeOK, HandlePull
  <2>4. pulls' \in SUBSET Answers
    <3>1. Outdated(p.to) \in SUBSET Answers
      BY <1>pulls, RecordLemma DEF Outdated
    <3>2. pulls' \in SUBSET (pulls \cup Outdated(p.to))
      BY <1>25 DEF HandlePull
    <3> QED
      BY <1>pulls, <3>1, <3>2
  <2>5. hist' \in [Node -> SUBSET Tables]
    <3>1. p.sig \in Tables
      BY <1>pulls DEF Answers
    <3>2. hist' = hist \/ hist' = [hist EXCEPT ![p.to] = @ \cup {p.sig}]
      BY <1>25 DEF HandlePull, Install
    <3> QED
      BY <1>hist, <3>1, <3>2
  <2> QED
    BY Zenon, <1>25, <2>1, <2>2, <2>3, <2>4, <2>5 DEF TypeOK, HandlePull
<1>26. ASSUME NEW m \in Node, NEW c \in Node, BootPull(m, c) PROVE TypeOK'
  <2>1. pulls' \in SUBSET Answers
    <3>1. [boot |-> TRUE, from |-> c, to |-> m, sig |-> committed[c].sig,
           num |-> committed[c].num, was |-> NoTable, stale |-> FALSE] \in Answers
      BY SMTT(20) DEF TypeOK, Commits, Answers
    <3> QED
      BY Zenon, <1>26, <3>1 DEF TypeOK, BootPull, Pull
  <2> QED
    BY Zenon, <1>26, <2>1 DEF TypeOK, BootPull, Pull
<1>27. ASSUME NEW m \in Node, NEW c \in Node, NEW was \in chase[m], ChasePull(m, c,
   was) PROVE TypeOK'
  <2>1. pulls' \in SUBSET Answers
    <3>1. [boot |-> FALSE, from |-> c, to |-> m, sig |-> committed[c].sig,
           num |-> committed[c].num, was |-> was, stale |-> FALSE] \in Answers
      BY DEF TypeOK, Commits, Answers
    <3> QED
      BY Zenon, <1>27, <3>1 DEF TypeOK, ChasePull, Pull
  <2> QED
    BY Zenon, <1>27, <2>1 DEF TypeOK, ChasePull, Pull
<1>28. ASSUME NEW m \in Node, NEW was \in chase[m], ChaseEnds(m, was) PROVE TypeOK'
  <2>1. chase' \in [Node -> SUBSET Tables]
    BY <1>28 DEF TypeOK, ChaseEnds
  <2> QED
    BY <1>28, <2>1 DEF TypeOK, ChaseEnds
<1>29. ASSUME NEW n \in Node, Crash(n) PROVE TypeOK'
  <2>1. up' \in [Node -> {"off", "starting", "booting", "running", "gone"}]
    BY <1>29 DEF TypeOK, Crash, Stopped
  <2>2. view' \in [Node -> SUBSET Node]
    BY <1>29 DEF TypeOK, Crash, Stopped
  <2>3. members' \in [Node -> SUBSET Node]
    BY <1>29 DEF TypeOK, Crash, Stopped
  <2>4. num' \in [Node -> Nat]
    BY <1>29 DEF TypeOK, Crash, Stopped
  <2>5. version' \in [Node -> Versions]
    BY <1>29 DEF TypeOK, Crash, Stopped
  <2>6. tcoord' \in [Node -> Node \cup {0}]
    BY <1>29 DEF TypeOK, Crash, Stopped
  <2>7. inbox' \in [Node -> Seq(Events)]
    BY <1>29 DEF TypeOK, Crash, Stopped
  <2>8. todo' \in [Node -> Events \cup {NoEvent}]
    BY <1>29 DEF TypeOK, Crash, Stopped
  <2>9. job' \in [Node -> Jobs]
    BY <1>29 DEF TypeOK, Crash, Stopped
  <2>10. committed' \in [Node -> Commits]
    BY <1>29 DEF TypeOK, Crash, Stopped
  <2>11. tableSeq' \in [Node -> Nat]
    BY <1>29 DEF TypeOK, Crash, Stopped
  <2>12. epoch' \in [Node -> Epochs]
    BY <1>29 DEF TypeOK, Crash, Stopped
  <2>13. early' \in [Node -> SUBSET (Tables \X Node)]
    BY <1>29 DEF TypeOK, Crash, Stopped
  <2>14. retry' \in [Node -> SUBSET Retrials]
    BY <1>29 DEF TypeOK, Crash, Stopped
  <2>15. chase' \in [Node -> SUBSET Tables]
    BY <1>29 DEF TypeOK, Crash, Stopped
  <2>16. cycle' \in [Node -> Cycles]
    BY <1>29 DEF TypeOK, Crash, Stopped
  <2>17. lastAcked' \in [Node -> Nat]
    BY <1>29 DEF TypeOK, Crash, Stopped
  <2>18. pushes' \in SUBSET Pushes
    BY Zenon, <1>29, RecordLemma DEF TypeOK, Crash, Stopped
  <2>19. acks' \in SUBSET Acks
    BY Zenon, <1>29, RecordLemma DEF TypeOK, Crash, Stopped
  <2>20. pulls' \in SUBSET Answers
    BY <1>29 DEF TypeOK, Crash, Stopped
  <2>21. noted' \in [Node -> [Node -> Notes]]
    BY <1>29 DEF TypeOK, Crash, Stopped
  <2>22. budget' \in Budgets
    BY Zenon, <1>29, BudgetLemma DEF TypeOK, Crash, Stopped
  <2> QED
    BY SMTT(20), <1>29, <2>1, <2>2, <2>3, <2>4, <2>5, <2>6, <2>7, <2>8, <2>9, <2>10, <2>11,
       <2>12, <2>13, <2>14, <2>15, <2>16, <2>17, <2>18, <2>19, <2>20, <2>21, <2>22 DEF TypeOK,
       Crash, Stopped
<1>30. CASE UNCHANGED vars
  BY <1>30 DEF TypeOK
<1> QED
  BY Zenon, <1>1, <1>2, <1>3, <1>4, <1>5, <1>7, <1>8, <1>9, <1>10, <1>11, <1>12, <1>13, <1>14,
    <1>15, <1>16, <1>17, <1>18, <1>19, <1>20, <1>21, <1>22, <1>23, <1>24, <1>25, <1>26,
    <1>27, <1>28, <1>29, <1>30
  DEF Next, Gossip, Listen, Coordinate, Balance, Deliver, Fetch, Process

\* Type correctness of the whole protocol.
THEOREM TypeCorrect == Spec => []TypeOK
BY TypeInit, TypeStep, PTL DEF Spec
-----------------------------------------------------------------------------
(* Whoever is counted as acked installed the table.  The invariant follows *)
(* an ack from the installed version through the cycle of the balancer and *)
(* the request in flight to the coordinator's books.                       *)
AckInv ==
    /\ \A m \in Node : version[m].sig # NoTable => version[m].sig \in hist[m]
    /\ \A m \in Node : cycle[m] # NoCycle => cycle[m].sig \in hist[m]
    /\ \A a \in acks : a.sig \in hist[a.from]
    /\ AckedInstalled

\* At the start nobody is counted who did not install the table.
LEMMA AckInit == Init => AckInv
<1> SUFFICES ASSUME Init PROVE AckInv
  OBVIOUS
<1>1. \A m \in Node : version[m].sig # NoTable => version[m].sig \in hist[m]
  BY DEF Init, NoVersion
<1>2. (\A m \in Node : cycle[m] = NoCycle) /\ acks = {}
  BY DEF Init
<1>3. \A c \in Node : \A m \in epoch[c].acked : epoch[c].sig \in hist[m]
  <2> SUFFICES ASSUME NEW c \in Node, NEW m \in epoch[c].acked PROVE epoch[c].sig \in hist[m]
    BY SMTT(20)
  <2>1. Leads(c) /\ epoch[c].sig = First /\ m \in Initial
    BY Zenon DEF Init, NoEpoch
  <2>2. m \in Node /\ Holds(m)
    BY <2>1, NodeAssumption DEF Leads, Holds
  <2> QED
    BY <2>1, <2>2 DEF Init
<1>4. \A c \in Node : early[c] = {}
  BY DEF Init
<1> QED
  BY <1>1, <1>2, <1>3, <1>4 DEF AckInv, AckedInstalled

\* What Checked and Awaiting leave alone.
LEMMA EpochKeeps ==
    ASSUME NEW e \in Epochs, NEW live, NEW m \in Node
    PROVE  /\ Checked(e, live).sig = e.sig /\ Checked(e, live).acked = e.acked
           /\ Awaiting(e, m).sig = e.sig /\ Awaiting(e, m).acked = e.acked
           /\ Awaiting(e, m) \in Epochs
BY DEF Checked, Awaiting, Epochs

\* A step that touches nothing an ack passes through.
LEMMA AckFrame ==
    ASSUME AckInv, UNCHANGED <<version, cycle, acks, epoch, early, hist>>
    PROVE  AckInv'
BY DEF AckInv, AckedInstalled

\* A member that stops forgets its books; its acks stay in flight.
LEMMA AckStopped ==
    ASSUME TypeOK, AckInv, NEW n \in Node, Stopped(n)
    PROVE  AckInv'
<1>1. \A m \in Node : version'[m].sig # NoTable => version'[m].sig \in hist'[m]
  BY DEF TypeOK, AckInv, Stopped, NoVersion
<1>2. \A m \in Node : cycle'[m] # NoCycle => cycle'[m].sig \in hist'[m]
  BY DEF TypeOK, AckInv, Stopped
<1>3. \A a \in acks' : a.sig \in hist'[a.from]
  <2> SUFFICES ASSUME NEW a \in acks' PROVE a.sig \in hist'[a.from]
    OBVIOUS
  <2>1. PICK b \in acks : a = IF b.from = n THEN [b EXCEPT !.st = "late"] ELSE b
    BY DEF Stopped
  <2>2. b \in Acks
    BY DEF TypeOK
  <2>3. a.sig = b.sig /\ a.from = b.from
    BY <2>1, <2>2 DEF Acks
  <2> QED
    BY <2>3 DEF AckInv, Stopped
<1>4. AckedInstalled'
  BY DEF TypeOK, AckInv, AckedInstalled, Stopped, NoEpoch
<1> QED
  BY <1>1, <1>2, <1>3, <1>4 DEF AckInv

\* A member installs a table.
LEMMA AckInstall ==
    ASSUME TypeOK, AckInv, NEW m \in Node, NEW sig \in Tables, NEW c, NEW seq, NEW n,
           Install(m, sig, c, seq, n), UNCHANGED <<cycle, acks, epoch, early>>
    PROVE  AckInv'
<1>1. \A k \in Node : hist[k] \subseteq hist'[k]
  BY DEF TypeOK, Install
<1>2. \A k \in Node : version'[k].sig # NoTable => version'[k].sig \in hist'[k]
  BY <1>1 DEF TypeOK, AckInv, Install, SetVersion
<1>3. \A a \in acks : a.from \in Node
  BY DEF TypeOK, Acks
<1>4. \A a \in acks' : a.sig \in hist'[a.from]
  BY Zenon, <1>1, <1>3 DEF AckInv
<1>5. AckedInstalled'
  <2>1. \A k \in Node : epoch[k].acked \subseteq Node /\ early[k] \subseteq Tables \X Node
    BY SMTT(20) DEF TypeOK, Epochs
  <2> QED
    BY Zenon, <1>1, <2>1 DEF AckInv, AckedInstalled
<1> QED
  BY Zenon, <1>1, <1>2, <1>4, <1>5 DEF AckInv

\* Every step preserves the path of an ack from an installed table.
LEMMA AckStep == TypeOK /\ AckInv /\ [Next]_vars => AckInv'
<1> SUFFICES ASSUME TypeOK, AckInv, [Next]_vars PROVE AckInv'
  OBVIOUS
<1> USE DEF vars, memberVars, tableVars, coordVars, localVars, netVars
<1>1. ASSUME NEW n \in Node, NEW m \in Node, NodeUp(n, m) PROVE AckInv'
  BY <1>1, AckFrame DEF NodeUp
<1>2. ASSUME NEW n \in Node, NEW m \in Node, GossipAlive(n, m) PROVE AckInv'
  BY <1>2, AckFrame DEF GossipAlive
<1>3. ASSUME NEW n \in Node, NEW m \in Node, GossipDead(n, m) PROVE AckInv'
  BY <1>3, AckFrame DEF GossipDead
<1>4. ASSUME NEW n \in Node, NEW m \in Node, Process(n, m) PROVE AckInv'
  BY <1>4, AckFrame DEF Process, ProcessJoin, ProcessLeave,
    ProcessUpdate, Takes
<1>5. ASSUME NEW n \in Node, ListenerSkips(n) PROVE AckInv'
  BY Zenon, <1>5, AckFrame DEF ListenerSkips
<1>6. ASSUME NEW n \in Node, Start(n) PROVE AckInv'
  BY <1>6, AckFrame DEF Start
<1>7. ASSUME NEW n \in Node, NEW by, Snapshot(n, by) PROVE AckInv'
  BY <1>7, AckFrame DEF Snapshot
<1>8. ASSUME NEW n \in Node, NEW v, Compute(n, v) PROVE AckInv'
  BY <1>8, AckFrame DEF Compute
<1>9. ASSUME NEW n \in Node, NEW r, RetrySend(n, r) PROVE AckInv'
  BY SMTT(20), <1>9, AckFrame DEF RetrySend
<1>10. ASSUME NEW n \in Node, NEW r, RetryEnds(n, r) PROVE AckInv'
  BY <1>10, AckFrame DEF RetryEnds
<1>11. ASSUME NEW n \in Node, NEW r, LatePushReported(n, r) PROVE AckInv'
  BY <1>11, AckFrame DEF LatePushReported
<1>12. ASSUME NEW p \in pushes, PushTimeout(p) PROVE AckInv'
  BY <1>12, AckFrame DEF PushTimeout
<1>13. ASSUME NEW m, NEW c, BootPull(m, c) PROVE AckInv'
  BY <1>13, AckFrame DEF BootPull, Pull
<1>14. ASSUME NEW m, NEW c, NEW was, ChasePull(m, c, was) PROVE AckInv'
  BY <1>14, AckFrame DEF ChasePull, Pull
<1>15. ASSUME NEW m, NEW was, ChaseEnds(m, was) PROVE AckInv'
  BY <1>15, AckFrame DEF ChaseEnds
<1>16. ASSUME NEW n \in Node, ComputePanics(n) PROVE AckInv'
  BY <1>16, AckStopped DEF ComputePanics
<1>17. ASSUME NEW n \in Node, Crash(n) PROVE AckInv'
  BY <1>17, AckStopped DEF Crash
<1>18. ASSUME NEW n \in Node, Finish(n) PROVE AckInv'
  <2>1. CASE UNCHANGED <<epoch, early>>
    BY <1>18, <2>1, AckFrame DEF Finish
  <2>2. CASE epoch' = [epoch EXCEPT ![n] = NewEpoch(n)] /\ early' = [early EXCEPT ![n] = {}]
    <3> DEFINE first == [sig |-> job[n].sig, gen |-> version[n].gen, num |-> job[n].seq,
                         members |-> job[n].snap, pending |-> job[n].snap,
                         acked |-> {m \in Node : <<job[n].sig, m>> \in early[n]},
                         completed |-> FALSE]
    <3>1. first \in Epochs
      BY DEF TypeOK, Epochs, Jobs, Versions
    <3>2. NewEpoch(n).sig = job[n].sig /\ NewEpoch(n).acked = first.acked
      BY Zenon, <3>1, EpochKeeps DEF NewEpoch
    <3>3. \A m \in NewEpoch(n).acked : NewEpoch(n).sig \in hist[m]
      <4> SUFFICES ASSUME NEW m \in first.acked PROVE job[n].sig \in hist[m]
        BY <3>2
      <4>1. <<job[n].sig, m>> \in early[n]
        BY Zenon
      <4> QED
        BY <4>1 DEF AckInv, AckedInstalled
    <3> HIDE DEF first
    <3>4. AckedInstalled'
      BY Zenon, <1>18, <2>2, <3>3 DEF TypeOK, AckInv, AckedInstalled, Finish
    <3> QED
      BY <1>18, <2>2, <3>4 DEF AckInv, Finish
  <2> QED
    BY <1>18, <2>1, <2>2 DEF Finish
<1>19. ASSUME NEW n \in Node, NEW r \in retry[n], AdmitLatePush(n, r) PROVE AckInv'
  <2> DEFINE grown == Checked(Awaiting(epoch[n], r.to), members[n])
  <2>1. r.to \in Node /\ epoch[n] \in Epochs
    BY DEF TypeOK, Retrials
  <2>2. grown.sig = epoch[n].sig /\ grown.acked = epoch[n].acked
    <3> DEFINE next == Awaiting(epoch[n], r.to)
    <3>1. next \in Epochs /\ next.sig = epoch[n].sig /\ next.acked = epoch[n].acked
      BY Zenon, <2>1, EpochKeeps
    <3> HIDE DEF next
    <3>2. /\ Checked(next, members[n]).sig = next.sig
          /\ Checked(next, members[n]).acked = next.acked
      BY Zenon, <2>1, <3>1, EpochKeeps
    <3> QED
      BY Zenon, <3>1, <3>2 DEF next
  <2>3. epoch' = epoch \/ epoch' = [epoch EXCEPT ![n] = grown]
    BY Zenon, <1>19 DEF AdmitLatePush
  <2> HIDE DEF grown
  <2>4. AckedInstalled'
    BY Zenon, <1>19, <2>2, <2>3 DEF TypeOK, AckInv, AckedInstalled, AdmitLatePush
  <2> QED
    BY Zenon, <1>19, <2>4 DEF AckInv, AdmitLatePush
<1>20. ASSUME NEW m \in Node, CycleStart(m) PROVE AckInv'
  BY Zenon, <1>20 DEF TypeOK, AckInv, AckedInstalled, CycleStart
<1>21. ASSUME NEW m \in Node, CycleAborts(m) PROVE AckInv'
  BY Zenon, <1>21 DEF TypeOK, AckInv, AckedInstalled, CycleAborts
<1>22. ASSUME NEW m \in Node, NEW c \in Node, SendAck(m, c) PROVE AckInv'
  <2> DEFINE ack == [st |-> "wait", from |-> m, to |-> c, sig |-> cycle[m].sig,
                     gen |-> cycle[m].gen]
  <2>1. cycle[m] # NoCycle /\ acks' = acks \cup {ack}
    BY <1>22 DEF SendAck
  <2>2. ack.sig = cycle[m].sig /\ ack.from = m
    OBVIOUS
  <2> HIDE DEF ack
  <2>3. \A b \in acks' : b.sig \in hist[b.from]
    BY Zenon, <2>1, <2>2 DEF AckInv
  <2>4. UNCHANGED <<version, hist, cycle, epoch, early>>
    BY <1>22 DEF SendAck
  <2> QED
    BY Zenon, <2>3, <2>4 DEF AckInv, AckedInstalled
<1>23. ASSUME NEW p \in pushes, HandlePush(p) PROVE AckInv'
  <2>1. p.to \in Node /\ p.sig \in Tables
    BY DEF TypeOK, Pushes
  <2>2. CASE Install(p.to, p.sig, p.from, p.seq, p.seq)
    BY <1>23, <2>1, <2>2, AckInstall DEF HandlePush
  <2>3. CASE UNCHANGED tableVars
    BY <1>23, <2>3, AckFrame DEF HandlePush
  <2> QED
    BY <1>23, <2>2, <2>3 DEF HandlePush
<1>24. ASSUME NEW p \in pulls, HandlePull(p) PROVE AckInv'
  <2>1. p.to \in Node /\ p.sig \in Tables
    BY DEF TypeOK, Answers
  <2>2. CASE Install(p.to, p.sig, p.from, 0, p.num)
    BY <1>24, <2>1, <2>2, AckInstall DEF HandlePull
  <2>3. CASE UNCHANGED tableVars
    BY <1>24, <2>3, AckFrame DEF HandlePull
  <2> QED
    BY <1>24, <2>2, <2>3 DEF HandlePull
<1>25. ASSUME NEW a \in acks, AckTimeout(a) PROVE AckInv'
  <2>1. a \in Acks
    BY DEF TypeOK
  <2>2. [a EXCEPT !.st = "late"].sig = a.sig /\ [a EXCEPT !.st = "late"].from = a.from
    BY <2>1 DEF Acks
  <2>3. acks' \subseteq acks \cup {[a EXCEPT !.st = "late"]}
    BY <1>25 DEF AckTimeout
  <2>4. \A b \in acks' : b.sig \in hist[b.from]
    BY Zenon, <2>2, <2>3 DEF AckInv
  <2> QED
    BY <1>25, <2>4 DEF TypeOK, AckInv, AckedInstalled, AckTimeout
<1>26. ASSUME NEW a \in acks, HandleAck(a) PROVE AckInv'
  <2> DEFINE marked == [epoch[a.to] EXCEPT !.acked = @ \cup {a.from}]
  <2>1. a.from \in Node /\ a.to \in Node /\ a.sig \in hist[a.from]
    BY DEF TypeOK, AckInv, Acks
  <2>2. /\ epoch[a.to] \in Epochs /\ marked \in Epochs
        /\ marked.sig = epoch[a.to].sig /\ marked.acked = epoch[a.to].acked \cup {a.from}
    <3>1. epoch[a.to] \in Epochs
      BY <2>1 DEF TypeOK
    <3> QED
      BY <2>1, <3>1 DEF Epochs
  <2>3. /\ Checked(marked, members[a.to]).sig = marked.sig
        /\ Checked(marked, members[a.to]).acked = marked.acked
    BY Zenon, <2>1, <2>2, EpochKeeps
  <2>4. PICK e : /\ \/ epoch' = epoch
                    \/ epoch' = [epoch EXCEPT ![a.to] = e] /\ epoch[a.to].sig = a.sig
                 /\ e.sig = epoch[a.to].sig /\ e.acked = epoch[a.to].acked \cup {a.from}
    <3>1. \/ epoch' = epoch
          \/ /\ epoch[a.to].sig = a.sig
             /\ \/ epoch' = [epoch EXCEPT ![a.to] = marked]
                \/ epoch' = [epoch EXCEPT ![a.to] = Checked(marked, members[a.to])]
      BY Zenon, <1>26 DEF HandleAck, AckStatus
    <3> HIDE DEF marked
    <3> QED
      BY <2>2, <2>3, <3>1
  <2> HIDE DEF marked
  <2>5. \A c \in Node : \A m \in epoch'[c].acked : epoch'[c].sig \in hist[m]
    <3>1. epoch \in [Node -> Epochs]
      BY DEF TypeOK
    <3>2. \A c \in Node : \A m \in epoch[c].acked : epoch[c].sig \in hist[m]
      BY Zenon DEF AckInv, AckedInstalled
    <3> QED
      BY <2>1, <2>4, <3>1, <3>2
  <2>6. \A c \in Node : \A x \in early'[c] : x[1] \in hist[x[2]]
    BY <1>26, <2>1 DEF TypeOK, AckInv, AckedInstalled, HandleAck
  <2>7. \A m \in Node : cycle'[m] # NoCycle => cycle'[m].sig \in hist[m]
    BY <1>26, <2>1 DEF TypeOK, AckInv, HandleAck
  <2> QED
    BY Zenon, <1>26, <2>5, <2>6, <2>7 DEF AckInv, AckedInstalled, HandleAck
<1>27. CASE UNCHANGED vars
  BY <1>27, AckFrame
<1> QED
  BY Zenon, <1>1, <1>2, <1>3, <1>4, <1>5, <1>6, <1>7, <1>8, <1>9, <1>10, <1>11, <1>12, <1>13,
    <1>14, <1>15, <1>16, <1>17, <1>18, <1>19, <1>20, <1>21, <1>22, <1>23, <1>24, <1>25,
    <1>26, <1>27
  DEF Next, Gossip, Listen, Coordinate, Balance, Deliver, Fetch

\* The path of an ack (SendRebalanceAck, handleRebalanceAck): the tables that
\* members work on, ack and count for an epoch are all tables they installed.
THEOREM AckInvariant == Spec => []AckInv
<1>1. Init => TypeOK /\ AckInv
  BY TypeInit, AckInit
<1>2. TypeOK /\ AckInv /\ [Next]_vars => (TypeOK /\ AckInv)'
  BY TypeStep, AckStep
<1> QED
  BY <1>1, <1>2, PTL DEF Spec

\* Every ack that counts, for an epoch or for one to come, is of a table its
\* sender installed (handleRebalanceAck), whatever was lost, delayed or restarted.
THEOREM AckedInstalledHolds == Spec => []AckedInstalled
<1>1. AckInv => AckedInstalled
  BY DEF AckInv
<1> QED
  BY <1>1, AckInvariant, PTL
-----------------------------------------------------------------------------
(* Pushes are installed in the order of their numbers.  A member without a *)
(* table has number 0, and no push carries the absence of a table.         *)
OrderInv ==
    /\ \A m \in Node : version[m].sig = NoTable => version[m].seq = 0
    /\ \A n \in Node : job[n].st = "push" => job[n].sig # NoTable
    /\ \A n \in Node : \A r \in retry[n] : r.sig # NoTable
    /\ \A p \in pushes : p.sig # NoTable

\* A member without a table has number 0 at the start.
LEMMA OrderInit == Init => OrderInv
<1> SUFFICES ASSUME Init PROVE OrderInv
  OBVIOUS
<1>1. First # NoTable
  BY SMTT(20), NodeAssumption DEF First, NoTable
<1>2. \A m \in Node : version[m].sig = NoTable => version[m].seq = 0
  BY SMTT(20), <1>1 DEF Init, NoVersion
<1>3. \A n \in Node : job[n].st # "push" /\ retry[n] = {}
  BY SMTT(20) DEF Init, Idle
<1>4. pushes = {}
  BY DEF Init
<1> QED
  BY <1>2, <1>3, <1>4 DEF OrderInv

\* A step that touches neither versions nor pushes.
LEMMA OrderFrame ==
    ASSUME OrderInv, UNCHANGED <<version, job, retry, pushes>>
    PROVE  OrderInv'
BY DEF OrderInv

\* A member that stops forgets its table and its number.
LEMMA OrderStopped ==
    ASSUME TypeOK, OrderInv, NEW n \in Node, Stopped(n)
    PROVE  OrderInv'
<1>1. \A m \in Node : version'[m].sig = NoTable => version'[m].seq = 0
  BY DEF TypeOK, OrderInv, Stopped, NoVersion
<1>2. \A m \in Node : job'[m].st = "push" => job'[m].sig # NoTable
  BY DEF TypeOK, OrderInv, Stopped, Idle
<1>3. \A m \in Node : \A r \in retry'[m] : r.sig # NoTable
  BY DEF TypeOK, OrderInv, Stopped
<1>4. \A p \in pushes' : p.sig # NoTable
  <2> SUFFICES ASSUME NEW p \in pushes' PROVE p.sig # NoTable
    OBVIOUS
  <2>1. PICK q \in pushes : p = IF q.from = n THEN [q EXCEPT !.st = "late"] ELSE q
    BY DEF Stopped
  <2>2. q \in Pushes
    BY DEF TypeOK
  <2>3. p.sig = q.sig
    BY <2>1, <2>2 DEF Pushes
  <2> QED
    BY <2>3 DEF OrderInv
<1> QED
  BY <1>1, <1>2, <1>3, <1>4 DEF OrderInv

\* What the answer to a push, or its absence, leaves behind carries its table.
LEMMA OrderAnswered ==
    ASSUME TypeOK, OrderInv, NEW p \in pushes, NEW ok \in BOOLEAN, Answered(p, ok)
    PROVE  /\ \A n \in Node : job'[n].st = "push" => job'[n].sig # NoTable
           /\ \A n \in Node : \A r \in retry'[n] : r.sig # NoTable
<1>1. /\ p \in Pushes /\ p.from \in Node /\ p.to \in Node /\ p.sig # NoTable
      /\ p.st \in {"fan", "retry", "late"}
  BY DEF TypeOK, Pushes, OrderInv
<1>2. job \in [Node -> Jobs] /\ retry \in [Node -> SUBSET Retrials]
  BY DEF TypeOK
<1>3. /\ \A n \in Node : job[n].st = "push" => job[n].sig # NoTable
      /\ \A n \in Node : \A r \in retry[n] : r.sig # NoTable
  BY DEF OrderInv
<1>4. \A n \in Node : job'[n].st = job[n].st /\ job'[n].sig = job[n].sig
  <2> DEFINE a == [job[p.from] EXCEPT !.failed = TRUE]
             b == [job[p.from] EXCEPT !.unreach = job[p.from].unreach \cup {p.to}]
  <2>1. /\ a.st = job[p.from].st /\ a.sig = job[p.from].sig
        /\ b.st = job[p.from].st /\ b.sig = job[p.from].sig
    BY <1>1, <1>2 DEF Jobs
  <2>2. job' \in {job, [job EXCEPT ![p.from] = a], [job EXCEPT ![p.from] = b]}
    BY Zenon, <1>1, <1>2 DEF Answered, PushFailed
  <2> HIDE DEF a, b
  <2> QED
    BY <1>1, <1>2, <2>1, <2>2
<1>5. \A s : [RetryOf(p) EXCEPT !.st = s].sig = p.sig
  BY <1>1 DEF RetryOf
<1>6. \/ retry' = retry
      \/ \E s : retry' = [retry EXCEPT ![p.from] =
                            (@ \ {RetryOf(p)}) \cup {[RetryOf(p) EXCEPT !.st = s]}]
  BY Zenon, <1>1 DEF Answered
<1>7. \A n \in Node : \A r \in retry'[n] : r.sig # NoTable
  <2>1. CASE retry' = retry
    BY <1>3, <2>1
  <2>2. ASSUME NEW s, retry' = [retry EXCEPT ![p.from] =
                        (@ \ {RetryOf(p)}) \cup {[RetryOf(p) EXCEPT !.st = s]}]
        PROVE  \A n \in Node : \A r \in retry'[n] : r.sig # NoTable
    <3> DEFINE last == [RetryOf(p) EXCEPT !.st = s]
    <3>1. last.sig # NoTable
      BY <1>1, <1>5
    <3> HIDE DEF last
    <3>2. \A n \in Node : retry'[n] \subseteq retry[n] \cup {last}
      BY <1>1, <1>2, <2>2 DEF last
    <3> QED
      BY <1>3, <3>1, <3>2
  <2> QED
    BY <1>6, <2>1, <2>2
<1> QED
  BY <1>3, <1>4, <1>7

\* A push or a pull that is installed.
LEMMA OrderInstall ==
    ASSUME TypeOK, OrderInv, NEW m \in Node, NEW sig, NEW c, NEW seq, NEW n,
           sig # NoTable \/ seq = 0, Install(m, sig, c, seq, n)
    PROVE  \A k \in Node : version'[k].sig = NoTable => version'[k].seq = 0
BY DEF TypeOK, OrderInv, Install, SetVersion

\* Every step preserves what the order of pushes rests on.
LEMMA OrderStep == TypeOK /\ OrderInv /\ [Next]_vars => OrderInv'
<1> SUFFICES ASSUME TypeOK, OrderInv, [Next]_vars PROVE OrderInv'
  OBVIOUS
<1> USE DEF vars, memberVars, tableVars, coordVars, localVars, netVars
<1>1. ASSUME NEW n \in Node, NEW m \in Node, NodeUp(n, m) PROVE OrderInv'
  BY <1>1, OrderFrame DEF NodeUp
<1>2. ASSUME NEW n \in Node, NEW m \in Node, GossipAlive(n, m) PROVE OrderInv'
  BY <1>2, OrderFrame DEF GossipAlive
<1>3. ASSUME NEW n \in Node, NEW m \in Node, GossipDead(n, m) PROVE OrderInv'
  BY SMTT(20), <1>3, OrderFrame DEF GossipDead
<1>4. ASSUME NEW n \in Node, NEW m \in Node, Process(n, m) PROVE OrderInv'
  BY <1>4, OrderFrame DEF Process, ProcessJoin, ProcessLeave,
    ProcessUpdate, Takes
<1>5. ASSUME NEW n \in Node, ListenerSkips(n) PROVE OrderInv'
  BY Zenon, <1>5, OrderFrame DEF ListenerSkips
<1>6. ASSUME NEW n \in Node, Start(n) PROVE OrderInv'
  BY SMTT(20), <1>6, OrderFrame DEF Start
<1>7. ASSUME NEW m \in Node, CycleStart(m) PROVE OrderInv'
  BY Zenon, <1>7, OrderFrame DEF CycleStart
<1>8. ASSUME NEW m \in Node, CycleAborts(m) PROVE OrderInv'
  BY Zenon, <1>8, OrderFrame DEF CycleAborts
<1>9. ASSUME NEW m, NEW c, SendAck(m, c) PROVE OrderInv'
  BY <1>9, OrderFrame DEF SendAck
<1>10. ASSUME NEW a \in acks, HandleAck(a) PROVE OrderInv'
  BY <1>10, OrderFrame DEF HandleAck
<1>11. ASSUME NEW a \in acks, AckTimeout(a) PROVE OrderInv'
  BY <1>11, OrderFrame DEF AckTimeout
<1>12. ASSUME NEW m, NEW c, BootPull(m, c) PROVE OrderInv'
  BY Zenon, <1>12, OrderFrame DEF BootPull, Pull
<1>13. ASSUME NEW m, NEW c, NEW was, ChasePull(m, c, was) PROVE OrderInv'
  BY <1>13, OrderFrame DEF ChasePull, Pull
<1>14. ASSUME NEW m, NEW was, ChaseEnds(m, was) PROVE OrderInv'
  BY <1>14, OrderFrame DEF ChaseEnds
<1>15. ASSUME NEW n \in Node, ComputePanics(n) PROVE OrderInv'
  BY <1>15, OrderStopped DEF ComputePanics
<1>16. ASSUME NEW n \in Node, Crash(n) PROVE OrderInv'
  BY <1>16, OrderStopped DEF Crash
<1>17. ASSUME NEW n \in Node, NEW by, Snapshot(n, by) PROVE OrderInv'
  BY SMTT(20), <1>17 DEF TypeOK, OrderInv, Snapshot, Idle
<1>18. ASSUME NEW n \in Node, NEW v, Compute(n, v) PROVE OrderInv'
  <2> DEFINE table == [ring |-> members[n], left |-> v]
  <2>1. table # NoTable
    BY <1>18 DEF Compute, HasRing, NoTable
  <2>2. \A k \in Node : job'[k].st = "push" => job'[k].sig # NoTable
    <3>1. PICK s, b, c : job' = [job EXCEPT ![n].st = "push", ![n].sig = table, ![n].seq = s,
                                            ![n].changed = b, ![n].prev = c]
      BY Zenon, <1>18 DEF Compute
    <3>2. job[n] \in Jobs /\ job \in [Node -> Jobs]
      BY DEF TypeOK
    <3>3. job'[n].sig = table /\ \A k \in Node \ {n} : job'[k] = job[k]
      BY <3>1, <3>2 DEF Jobs
    <3> QED
      BY <2>1, <3>3 DEF OrderInv
  <2>3. \A p \in pushes' : p.sig # NoTable
    <3> DEFINE changed == job[n].by = "boot" \/ table # version[n].sig
               s == tableSeq[n] + (IF changed THEN 1 ELSE 0)
    <3>1. pushes' = pushes \cup {[st |-> "fan", from |-> n, to |-> m, sig |-> table,
                                  seq |-> s] : m \in members[n]}
      BY <1>18 DEF Compute, Targets
    <3> HIDE DEF table, s
    <3> QED
      BY <2>1, <3>1 DEF OrderInv
  <2> QED
    BY Zenon, <1>18, <2>2, <2>3 DEF OrderInv, Compute
<1>19. ASSUME NEW n \in Node, Finish(n) PROVE OrderInv'
  <2>1. \A k \in Node : job'[k].st = "push" => job'[k].sig # NoTable
    BY Zenon, <1>19 DEF TypeOK, OrderInv, Finish, Idle
  <2>2. \A r \in Unreached(n) : r.sig # NoTable
    BY <1>19 DEF OrderInv, Finish, Unreached
  <2>3. retry' = retry \/ retry' = [retry EXCEPT ![n] = @ \cup Unreached(n)]
    BY <1>19 DEF Finish
  <2>4. \A k \in Node : \A r \in retry'[k] : r.sig # NoTable
    <3>1. retry \in [Node -> SUBSET Retrials]
      BY DEF TypeOK
    <3>2. \A k \in Node : \A r \in retry[k] : r.sig # NoTable
      BY Zenon DEF OrderInv
    <3> QED
      BY <2>2, <2>3, <3>1, <3>2
  <2> QED
    BY <1>19, <2>1, <2>4 DEF OrderInv, Finish
<1>20. ASSUME NEW n \in Node, NEW r \in retry[n], RetrySend(n, r) PROVE OrderInv'
  <2>1. r \in Retrials /\ r.sig # NoTable
    BY Zenon DEF TypeOK, OrderInv
  <2>2. [r EXCEPT !.st = "sent"].sig = r.sig
    BY <2>1 DEF Retrials
  <2>3. \A k \in Node : \A x \in retry'[k] : x.sig # NoTable
    BY Zenon, <1>20, <2>1, <2>2 DEF TypeOK, OrderInv, RetrySend
  <2>4. \A p \in pushes' : p.sig # NoTable
    BY <1>20, <2>1 DEF OrderInv, RetrySend
  <2> QED
    BY <1>20, <2>3, <2>4 DEF OrderInv, RetrySend
<1>21. ASSUME NEW n \in Node, NEW r \in retry[n], RetryEnds(n, r) PROVE OrderInv'
  BY Zenon, <1>21 DEF TypeOK, OrderInv, RetryEnds
<1>22. ASSUME NEW n \in Node, NEW r \in retry[n], LatePushReported(n, r) PROVE OrderInv'
  <2>1. r \in Retrials /\ r.sig # NoTable
    BY Zenon DEF TypeOK, OrderInv
  <2>2. [r EXCEPT !.st = "add"].sig = r.sig
    BY <2>1 DEF Retrials
  <2>3. \A k \in Node : \A x \in retry'[k] : x.sig # NoTable
    BY Zenon, <1>22, <2>1, <2>2 DEF TypeOK, OrderInv, LatePushReported
  <2> QED
    BY <1>22, <2>3 DEF OrderInv, LatePushReported
<1>23. ASSUME NEW n \in Node, NEW r \in retry[n], AdmitLatePush(n, r) PROVE OrderInv'
  BY Zenon, <1>23 DEF TypeOK, OrderInv, AdmitLatePush
<1>24. ASSUME NEW p \in pushes, PushTimeout(p) PROVE OrderInv'
  <2>1. p \in Pushes /\ p.sig # NoTable
    BY Zenon DEF TypeOK, OrderInv
  <2>2. [p EXCEPT !.st = "late"].sig = p.sig
    BY <2>1 DEF Pushes
  <2>3. pushes' \subseteq pushes \cup {[p EXCEPT !.st = "late"]}
    BY <1>24 DEF PushTimeout
  <2>4. \A q \in pushes' : q.sig # NoTable
    BY Zenon, <2>1, <2>2, <2>3 DEF OrderInv
  <2> QED
    BY Zenon, <1>24, <2>4, OrderAnswered DEF OrderInv, PushTimeout
<1>25. ASSUME NEW p \in pushes, HandlePush(p) PROVE OrderInv'
  <2>1. p.to \in Node /\ p.sig # NoTable
    BY DEF TypeOK, Pushes, OrderInv
  <2>2. Verified(p.to, p.from) \in BOOLEAN
    BY Zenon DEF Verified, IsCoordinatorOf
  <2>3. \A k \in Node : version'[k].sig = NoTable => version'[k].seq = 0
    BY Zenon, <1>25, <2>1, OrderInstall DEF OrderInv, HandlePush
  <2>4. /\ \A n \in Node : job'[n].st = "push" => job'[n].sig # NoTable
        /\ \A n \in Node : \A r \in retry'[n] : r.sig # NoTable
    BY Zenon, <1>25, <2>2, OrderAnswered DEF HandlePush
  <2> QED
    BY Zenon, <1>25, <2>3, <2>4 DEF OrderInv, HandlePush
<1>26. ASSUME NEW p \in pulls, HandlePull(p) PROVE OrderInv'
  <2>1. p.to \in Node
    BY DEF TypeOK, Answers
  <2>2. \A k \in Node : version'[k].sig = NoTable => version'[k].seq = 0
    BY <1>26, <2>1, OrderInstall DEF OrderInv, HandlePull
  <2> QED
    BY <1>26, <2>2 DEF OrderInv, HandlePull
<1>27. CASE UNCHANGED vars
  BY <1>27, OrderFrame
<1> QED
  BY Zenon, <1>1, <1>2, <1>3, <1>4, <1>5, <1>6, <1>7, <1>8, <1>9, <1>10, <1>11, <1>12, <1>13,
    <1>14, <1>15, <1>16, <1>17, <1>18, <1>19, <1>20, <1>21, <1>22, <1>23, <1>24, <1>25,
    <1>26, <1>27
  DEF Next, Gossip, Listen, Coordinate, Balance, Deliver, Fetch

\* No push, retry or update (UPDATEROUTING) carries the absence of a table, and
\* a member without a table has no number to compare with.
THEOREM OrderInvariant == Spec => []OrderInv
<1>1. Init => TypeOK /\ OrderInv
  BY TypeInit, OrderInit
<1>2. TypeOK /\ OrderInv /\ [Next]_vars => (TypeOK /\ OrderInv)'
  BY TypeStep, OrderStep
<1> QED
  BY <1>1, <1>2, PTL DEF Spec

\* The pushes of one coordinator are installed in the order it numbered them
\* (applyRoutingTablePayload), however late, repeated or reordered they arrive.
THEOREM PushesInOrderHolds == Spec => PushesInOrder
<1>3. ASSUME TypeOK, OrderInv, [Next]_vars
      PROVE  [\A m \in Node :
                /\ up'[m] # "gone"
                /\ version'[m].coord = version[m].coord
                /\ version'[m].seq # 0
                => version'[m].seq >= version[m].seq]_vars
  <2> SUFFICES ASSUME NEW m \in Node, up'[m] # "gone",
                      version'[m].coord = version[m].coord, version'[m].seq # 0
               PROVE  version'[m].seq >= version[m].seq
    BY DEF PushesInOrder
  <2>0. version[m] \in Versions /\ version[m].seq \in Nat
    BY Zenon, <1>3 DEF TypeOK, Versions
  <2>1. CASE version' = version
    BY <2>0, <2>1
  <2>2. ASSUME NEW n \in Node, Stopped(n) PROVE version'[m].seq >= version[m].seq
    BY <1>3, <2>0, <2>2 DEF TypeOK, Stopped
  <2>3. ASSUME NEW p \in pushes, HandlePush(p) PROVE version'[m].seq >= version[m].seq
    <3>1. p.to \in Node /\ p.seq \in Nat
      BY Zenon, <1>3 DEF TypeOK, Pushes
    <3>2. CASE UNCHANGED tableVars
      BY SMTT(20), <2>1, <3>2 DEF tableVars
    <3>3. CASE ~Older(p.to, p.from, p.seq) /\ Install(p.to, p.sig, p.from, p.seq, p.seq)
      BY <1>3, <2>0, <3>1, <3>3 DEF TypeOK, OrderInv, Install, SetVersion, Older
    <3> QED
      BY Zenon, <2>3, <3>2, <3>3 DEF HandlePush
  <2>4. ASSUME NEW p \in pulls, HandlePull(p) PROVE version'[m].seq >= version[m].seq
    <3>1. p.to \in Node
      BY Zenon, <1>3 DEF TypeOK, Answers
    <3>2. CASE UNCHANGED tableVars
      BY SMTT(20), <2>1, <3>2 DEF tableVars
    <3>3. CASE Install(p.to, p.sig, p.from, 0, p.num)
      BY <1>3, <2>0, <3>1, <3>3 DEF TypeOK, Install, SetVersion
    <3> QED
      BY <2>4, <3>2, <3>3 DEF HandlePull
  <2>5. \/ version' = version
        \/ \E n \in Node : Stopped(n)
        \/ \E p \in pushes : HandlePush(p)
        \/ \E p \in pulls : HandlePull(p)
    <3> USE DEF vars, memberVars, tableVars, coordVars, localVars, netVars
    <3>1. CASE Gossip
      BY <3>1 DEF Gossip, NodeUp, GossipAlive, GossipDead
    <3>2. CASE Listen
      BY Zenon, <3>2 DEF Listen, Process, ProcessJoin, ProcessLeave,
        ProcessUpdate, Takes, ListenerSkips
    <3>3. CASE Coordinate
      <4>1. ASSUME NEW n \in Node, ComputePanics(n) PROVE \E k \in Node : Stopped(k)
        BY Zenon, <4>1 DEF ComputePanics
      <4>2. ASSUME NEW n \in Node, Start(n) \/ (\E by : Snapshot(n, by)) \/ Finish(n)
            PROVE  version' = version
        BY Zenon, <4>2 DEF Start, Snapshot, Finish
      <4>3. ASSUME NEW n, NEW v, Compute(n, v) PROVE version' = version
        BY <4>3 DEF Compute
      <4>4. ASSUME NEW n, NEW r, \/ RetrySend(n, r) \/ RetryEnds(n, r)
                                 \/ LatePushReported(n, r) \/ AdmitLatePush(n, r)
            PROVE  version' = version
        BY <4>4 DEF RetrySend, RetryEnds, LatePushReported, AdmitLatePush
      <4> QED
        BY Zenon, <3>3, <4>1, <4>2, <4>3, <4>4 DEF Coordinate
    <3>4. CASE Balance
      BY Zenon, <3>4 DEF Balance, CycleStart, CycleAborts, SendAck
    <3>5. CASE Deliver
      BY Zenon, <3>5 DEF Deliver, PushTimeout, HandleAck, AckTimeout
    <3>6. CASE Fetch
      BY Zenon, <3>6 DEF Fetch, BootPull, ChasePull, Pull, ChaseEnds
    <3>7. CASE \E n \in Node : Crash(n)
      BY <3>7 DEF Crash
    <3> QED
      BY Zenon, <1>3, <3>1, <3>2, <3>3, <3>4, <3>5, <3>6, <3>7 DEF Next
  <2> QED
    BY Zenon, <2>1, <2>2, <2>3, <2>4, <2>5
<1> QED
  BY <1>3, TypeCorrect, OrderInvariant, PTL DEF Spec, PushesInOrder
=============================================================================
