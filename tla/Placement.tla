----------------------------- MODULE Placement -----------------------------
(***************************************************************************)
(* Where the copies of a partition are: how the coordinator places its     *)
(* owners (routingtable/distribute.go), how members learn of it and report *)
(* what they still hold, and how their balancers move, promote, copy and   *)
(* restore data until every copy is where the table wants it.              *)
(*                                                                         *)
(* The delivery of tables and the epochs are RoutingTable's; here a member *)
(* installs the coordinator's last table, some time.  What a partition     *)
(* holds is a set of storage tables.  A transfer sends one table to one    *)
(* member at a time; a move holds the lock of the fragment it drains.      *)
(***************************************************************************)
EXTENDS SyncState, Sequences, SequencesExt, FiniteSets

CONSTANTS Starts,        \* the members at the start, and bounds on the crashes,
                         \* joins, writes, timeouts and escapes to come
          Order,         \* the members in the order of the hashes of their names
          Designated,    \* GetPartitionOwner, for each set of members
          ReplicaCount,  \* config.ReplicaCount
          Proactive,     \* config.EnableProactiveSyncOnJoin
          NoMember       \* no member

ASSUME RingAssumption ==
    /\ Member \subseteq Nat /\ NoMember \notin Member
    /\ Range(Order) = Member /\ Len(Order) = Cardinality(Member)
    /\ \A S \in SUBSET Member \ {{}} : Designated[S] \in S
    /\ ReplicaCount \in Nat \ {0}

VARIABLES
    up,         \* the members whose process runs
    members,    \* the members memberlist lists
    committed,  \* the coordinator's last table: [by, owners, backups]
    table,      \* the table each member installed
    owners,     \* Partition.owners of its primary partition,
    backups,    \* and of its backup partition
    prim, back, \* the storage tables of its primary and its backup fragment
    scan,       \* the install under way: the partition it awaits, or none
    cycle,      \* the balance cycle under way
    pushed,     \* Balancer.pushedSignature
    acked,      \* Balancer.lastAckedGeneration: whether it is that of its table
    last, departed, due,  \* Balancer.lastOwners, departedOwner, restoreDueAt
    late,       \* transfers whose sender no longer waits
    data,       \* what was ever written
    left        \* faults and events still to come

clusterVars == <<up, members, data, left>>
tableVars == <<committed, table, owners, backups, scan>>
dataVars == <<prim, back, late>>
balancerVars == <<cycle, pushed, acked, last, departed, due>>
vars == <<clusterVars, tableVars, dataVars, balancerVars, syncVars>>

Content(t) == <<t.owners, t.backups>>
NoTable == [by |-> NoMember, owners |-> <<>>, backups |-> <<>>]
NoCycle == [at |-> "idle", sign |-> <<>>, moved |-> FALSE, failed |-> FALSE,
            sends |-> <<>>, departed |-> FALSE]

(* getClosestN: the owner of the partition and those that follow it.       *)
getClosestN(S, n) ==
    LET ring == SelectSeq(Order, LAMBDA m : m \in S)
        at == CHOOSE i \in DOMAIN ring : ring[i] = Designated[S]
    IN  [k \in 1..n |-> ring[((at + k - 2) % Len(ring)) + 1]]

getReplicaOwners(S) == getClosestN(S, Min({ReplicaCount, Cardinality(S)}))

(* A cluster that has settled on the table of its members.                 *)
Settled(S) ==
    [by |-> Min(S), owners |-> <<Designated[S]>>, backups |-> Tail(getReplicaOwners(S))]

Init ==
    \E start \in Starts :
        LET S == start.members
            t == Settled(S)
            ForAll(v, none) == [m \in Member |-> IF m \in S THEN v ELSE none]
        IN  /\ up = S /\ members = S
            /\ committed = t
            /\ table = ForAll(t, NoTable)
            /\ owners = ForAll(t.owners, <<>>) /\ backups = ForAll(t.backups, <<>>)
            /\ prim = [m \in Member |-> IF m \in Range(t.owners) THEN start.data ELSE {}]
            /\ back = [m \in Member |-> IF m \in Range(t.backups) THEN start.data ELSE {}]
            /\ scan = ForAll("none", "none")
            /\ cycle = ForAll(NoCycle, NoCycle)
            /\ pushed = ForAll(Content(t), <<>>)
            /\ acked = ForAll(TRUE, FALSE)
            /\ last = ForAll(t.owners, <<>>)
            /\ departed = ForAll(NoMember, NoMember)
            /\ due = ForAll("no", "no")
            /\ late = {}
            /\ data = start.data
            /\ left = start.left
            /\ SyncInit

Spend(what) == left[what] > 0 /\ left' = [left EXCEPT ![what] = @ - 1]

-----------------------------------------------------------------------------
(* Members come and go.                                                    *)
Coordinator == Min(members)

Join(m) ==
    /\ Spend("joins")
    /\ m \notin up \cup members /\ m = Max(members) + 1
    /\ up' = up \cup {m} /\ members' = members \cup {m}
    /\ UNCHANGED <<data, tableVars, dataVars, balancerVars, syncVars>>

Crash(m) ==
    /\ Spend("crashes")
    /\ m \in up /\ up' = up \ {m}
    /\ up' # {}
    /\ prim' = [prim EXCEPT ![m] = {}] /\ back' = [back EXCEPT ![m] = {}]
    /\ cycle' = [cycle EXCEPT ![m] = NoCycle]
    /\ late' = {x \in late \cup {cycle[m].sends[i] : i \in DOMAIN cycle[m].sends \cap {1}} : x.to # m}
    /\ pending' = [pending EXCEPT ![m] = "no"]
    /\ scan' = [scan EXCEPT ![m] = "none"]
    /\ UNCHANGED <<members, data, committed, table, owners, backups,
                   pushed, acked, last, departed, due, received>>

(* memberlist notices.                                                     *)
NodeLeave(m) ==
    /\ m \in members \ up
    /\ members' = members \ {m}
    /\ UNCHANGED <<up, data, left, tableVars, dataVars, balancerVars, syncVars>>

-----------------------------------------------------------------------------
(* fillRoutingTable: the recorded owners that are still members,           *)
liveOwners(list) == SelectSeq(list, LAMBDA o : o \in members)

(* without those that answer that they hold nothing, the one the ring      *)
(* designates last.  Who does not answer is kept.                          *)
Holds(o, kind) == o \notin up \/ (IF kind = "prim" THEN prim[o] ELSE back[o]) # {}
Kept(list, kind) == SelectSeq(liveOwners(list), LAMBDA o : Holds(o, kind))
MovedLast(list, o) == Append(SelectSeq(list, LAMBDA x : x # o), o)

placePrimaryOwner(list) == MovedLast(Kept(list, "prim"), Designated[members])
placeBackupOwners(list) == FoldLeft(MovedLast, Kept(list, "back"), Tail(getReplicaOwners(members)))

(* pendingPartitions: whether m owns the partition, by its own lists, and  *)
(* holds no data for it, and in which role it awaits them.                 *)
pendingPartitions(m, own, bak) ==
    IF own # <<>> /\ Last(own) = m /\ prim[m] = {} THEN "prim"
    ELSE IF m \in Range(bak) /\ back[m] = {} THEN "back"
    ELSE "none"

(* partitionsAwaitingData: somebody will deliver it, or does not answer;   *)
(* a wait that expired is kept as it is.                                   *)
partitionsAwaitingData(m, role) ==
    \/ role # "none" /\ pending[m] = "expired"
    \/ role # "none" /\ \E o \in Range(owners[m]) \ {m} : Holds(o, "prim")
    \/ role = "back" /\ \E o \in Range(backups[m]) \ {m} : Holds(o, "back")

(* processLeftOverDataReports: who says it holds data is an owner, as far  *)
(* as the coordinator knows.                                               *)
ensureOwnership(list, m, held) ==
    IF held = {} \/ m \in Range(list) THEN list ELSE <<m>> \o list
Reported(lists, m, held) ==
    IF Coordinator \notin up \/ table'[Coordinator] # table'[m] THEN lists
    ELSE [lists EXCEPT ![Coordinator] = ensureOwnership(@, m, held[m])]

(* applyRoutingTablePayload: the member asks who may deliver what it waits *)
(* for, if anything; its report is the answer.                             *)
Installs(m, t) ==
    LET role == pendingPartitions(m, t.owners, t.backups)
        own == [owners EXCEPT ![m] = t.owners]
        bak == [backups EXCEPT ![m] = t.backups]
    IN  /\ table' = [table EXCEPT ![m] = t]
        /\ owners' = IF role = "none" THEN Reported(own, m, prim) ELSE own
        /\ backups' = IF role = "none" THEN Reported(bak, m, back) ELSE bak
        /\ scan' = [scan EXCEPT ![m] = role]
        /\ acked' = [acked EXCEPT ![m] = FALSE]

(* updateRoutingWithReason: the coordinator computes the next table from   *)
(* its own lists, reconciles its sync state with them, commits, and is the *)
(* first to install it.  A table that is the last one changes nothing.     *)
updateRouting(c) ==
    /\ c \in up /\ c = Coordinator /\ scan[c] = "none"
    /\ LET t == [by |-> c, owners |-> placePrimaryOwner(owners[c]),
                 backups |-> IF ReplicaCount > 1 THEN placeBackupOwners(backups[c]) ELSE <<>>]
       IN  /\ t # committed
           /\ committed' = t
           /\ Installs(c, t)
    /\ Reconcile(c, "none" \notin {scan'[c], pendingPartitions(c, owners[c], backups[c])}, FALSE)
    /\ UNCHANGED <<clusterVars, dataVars, cycle, pushed, last, departed, due>>

(* A member installs the last table.                                       *)
installTable(m) ==
    /\ m \in up /\ committed.by = Coordinator
    /\ scan[m] = "none" /\ table[m] # committed
    /\ Installs(m, committed)
    /\ IF scan'[m] = "none" THEN Reconcile(m, FALSE, FALSE) ELSE Scan(m) /\ UNCHANGED pending
    /\ UNCHANGED <<clusterVars, committed, dataVars, cycle, pushed, last, departed, due>>

(* The owners asked have answered.                                         *)
reconcileTable(m) ==
    /\ m \in up /\ scan[m] # "none"
    /\ Reconcile(m, partitionsAwaitingData(m, scan[m]), received[m])
    /\ scan' = [scan EXCEPT ![m] = "none"]
    /\ UNCHANGED table
    /\ owners' = Reported(owners, m, prim)
    /\ backups' = Reported(backups, m, back)
    /\ UNCHANGED <<clusterVars, committed, dataVars, balancerVars>>

-----------------------------------------------------------------------------
(* The transfers of a balance cycle, in its order: which fragment each one *)
(* reads, what the receiver merges it into, and whether it drops it.       *)
Phases == <<"promote", "move", "push", "relocate", "restore">>
From(phase) == IF phase \in {"move", "push"} THEN "prim" ELSE "back"
Into(phase) == IF phase \in {"push", "relocate"} THEN "back" ELSE "prim"
Drops(phase) == phase \in {"promote", "move", "relocate"}

Fragment(m, kind) == IF kind = "prim" THEN prim[m] ELSE back[m]
Owner(m) == IF owners[m] = <<>> THEN NoMember ELSE Last(owners[m])
CurrentBackups(m) ==
    SubSeq(backups[m], IF Len(backups[m]) < ReplicaCount THEN 1
                       ELSE Len(backups[m]) - ReplicaCount + 2, Len(backups[m]))

(* pushedSignature: once per table.  A plausible slip: once.               *)
PushedOnce(m) == pushed[m] = <<>>
Unpushed(m) == pushed[m] # Content(table[m])

(* promoteBackupCopies, primaryCopies, pushPrimaryToBackups, backupCopies  *)
(* and restorePrimaryCopies: the members a phase sends to.                 *)
Targets(m, phase) ==
    CASE phase = "promote" -> IF ReplicaCount > 1 /\ Owner(m) = m THEN <<m>> ELSE <<>>
      [] phase = "move" -> IF Owner(m) # m THEN <<Owner(m)>> ELSE <<>>
      [] phase = "push" ->
            IF ReplicaCount > 1 /\ Proactive /\ Owner(m) = m /\ Unpushed(m)
            THEN SelectSeq(CurrentBackups(m), LAMBDA o : o # m) ELSE <<>>
      [] phase = "relocate" ->
            IF ReplicaCount > 1 /\ Owner(m) # m /\ m \notin Range(CurrentBackups(m))
            THEN CurrentBackups(m) ELSE <<>>
      [] phase = "restore" ->
            IF due[m] = "due" /\ departed[m] \notin members /\ Owner(m) # m
            THEN <<Owner(m)>> ELSE <<>>

(* moveTable sends the first table to every target in turn; Replicate      *)
(* every table, the same way.                                              *)
Tables(m, phase) ==
    LET held == Fragment(m, From(phase))
    IN  IF held = {} THEN <<>>
        ELSE IF Drops(phase) THEN <<Min(held)>> ELSE SetToSortSeq(held, <)
Sends(m, phase) ==
    LET ts == Targets(m, phase)
    IN  FlattenSeq([i \in DOMAIN Tables(m, phase) |->
                        [j \in DOMAIN ts |-> [what |-> Tables(m, phase)[i], to |-> ts[j], kind |-> Into(phase)]]])

(* trackPrimaryOwners: an owner dropped out of the list; a restore is due  *)
(* after the delay, unless one for a departed member is due already.       *)
Dropped(m) == SelectSeq(last[m], LAMBDA o : o \notin Range(owners[m]))
trackPrimaryOwners(m) ==
    /\ last' = [last EXCEPT ![m] = owners[m]]
    /\ LET new == /\ Proactive /\ ReplicaCount > 1
                  /\ Dropped(m) # <<>>
                  /\ due[m] = "no" \/ departed[m] \in members
       IN  /\ departed' = IF new THEN [departed EXCEPT ![m] = Dropped(m)[1]] ELSE departed
           /\ due' = IF new THEN [due EXCEPT ![m] = "later"] ELSE due

(* The phases that follow: promoteBackupCopies goes on while it drains;    *)
(* only a cycle that moved nothing restores, and acks if nothing failed.   *)
After(c) ==
    CASE c.at = "start" -> 1
      [] c.at = "promote" /\ c.moved /\ ~c.failed -> 1
      [] OTHER -> CHOOSE i \in 2..6 : Phases[i - 1] = c.at
NextPhase(m, c) ==
    LET todo == {i \in After(c)..5 : Sends(m, Phases[i]) # <<>> /\ (i = 5 => ~c.moved)}
    IN  IF Content(table[m]) # c.sign THEN "idle"
        ELSE IF todo # {} THEN Phases[Min(todo)]
        ELSE IF c.moved THEN "idle" ELSE "ack"

Begun(m) == [NoCycle EXCEPT !.at = "start", !.sign = Content(table[m])]

(* balanceOnce begins; the cycles that would change nothing are left out.  *)
balanceOnce(m) ==
    /\ m \in up /\ table[m] # NoTable /\ cycle[m].at = "idle"
    /\ \/ last[m] # owners[m]
       \/ due[m] = "due"
       \/ NextPhase(m, Begun(m)) # "ack"
       \/ ~acked[m] /\ PendingEmpty(m)
    /\ trackPrimaryOwners(m)
    /\ cycle' = [cycle EXCEPT ![m] = Begun(m)]
    /\ UNCHANGED <<clusterVars, tableVars, dataVars, pushed, acked, syncVars>>

Between(m) == cycle[m].at # "idle" /\ cycle[m].sends = <<>>

(* A plausible slip: a cycle whose transfers failed acks as well.          *)
AcksAnyway(m, c) == PendingEmpty(m)
tryAckRebalance(m, c) == ~c.failed /\ PendingEmpty(m)

(* The next phase.  After the last one, tryAckRebalance; a restore that is *)
(* due with nothing to send is off.                                        *)
nextPhase(m) ==
    /\ Between(m)
    /\ LET c == cycle[m]
           next == NextPhase(m, c)
       IN  /\ cycle' = [cycle EXCEPT ![m] =
                          IF next \in {"idle", "ack"} THEN NoCycle
                          ELSE [c EXCEPT !.at = next, !.sends = Sends(m, next), !.departed = FALSE]]
           /\ due' = IF next = "ack" /\ due[m] = "due" /\ c.at # "restore"
                     THEN [due EXCEPT ![m] = "no"] ELSE due
           /\ acked' = [acked EXCEPT ![m] = @ \/ (next = "ack" /\ tryAckRebalance(m, c))]
    /\ UNCHANGED <<clusterVars, tableVars, dataVars, pushed, last, departed, syncVars>>

(* ReplicaRestoreDelay passes.                                             *)
restoreDue(m) ==
    /\ m \in up /\ due[m] = "later"
    /\ due' = [due EXCEPT ![m] = "due"]
    /\ UNCHANGED <<clusterVars, tableVars, dataVars, cycle, pushed, acked, last, departed, syncVars>>

-----------------------------------------------------------------------------
(* A fragment a move drains stays locked while its table is on its way.    *)
Locked(m, kind) ==
    cycle[m].sends # <<>> /\ Drops(cycle[m].at) /\ From(cycle[m].at) = kind

(* checkOwnership, by the receiver's own lists.                            *)
checkOwnership(m, kind) == m \in Range(IF kind = "prim" THEN owners[m] ELSE backups[m])

(* moveFragmentCommandHandler: the receiver merges the table, unless its   *)
(* lists refuse it; it waits while a move holds the fragment.              *)
Accepts(x) == x.to \in up /\ checkOwnership(x.to, x.kind) /\ ~Locked(x.to, x.kind)
Merged(f, kind, x) == IF x.kind = kind THEN [f EXCEPT ![x.to] = @ \cup {x.what}] ELSE f

(* A transfer is over; a change of the table ends the cycle before a push  *)
(* is remembered or a restore is done.                                     *)
Over(m, ok) ==
    LET c == cycle[m]
        done(phase) == ok /\ c.at = phase /\ Content(table[m]) = c.sign
    IN  /\ cycle' = [cycle EXCEPT ![m] =
                       [c EXCEPT !.sends = <<>>, !.moved = @ \/ ok, !.failed = @ \/ ~ok]]
        /\ pushed' = IF done("push") THEN [pushed EXCEPT ![m] = c.sign] ELSE pushed
        /\ due' = IF done("restore") THEN [due EXCEPT ![m] = "no"] ELSE due

(* transfer: a target took the table, or had departed; then the next one,  *)
(* unless the table went to all and one of them had departed.              *)
Sent(m, gone) ==
    LET c == cycle[m]
        rest == Tail(c.sends)
        toAll == rest = <<>> \/ rest[1].what # c.sends[1].what
    IN  IF toAll /\ gone THEN Over(m, FALSE)
        ELSE IF rest = <<>> THEN Over(m, TRUE)
        ELSE /\ cycle' = [cycle EXCEPT ![m].sends = rest, ![m].departed = gone]
             /\ UNCHANGED <<pushed, due>>

Sending(m) == m \in up /\ cycle[m].sends # <<>>
FirstSend(m) == Head(cycle[m].sends)

(* moveTable and Replicate: the target takes the table; when it was the    *)
(* last one, a move drops it.                                              *)
DropEnds(m) == Drops(cycle[m].at) /\ Len(cycle[m].sends) = 1 /\ ~cycle[m].departed
Without(f, m, kind, what) ==
    IF DropEnds(m) /\ From(cycle[m].at) = kind THEN [f EXCEPT ![m] = @ \ {what}] ELSE f
transfer(m) ==
    /\ Sending(m)
    /\ LET x == FirstSend(m)
       IN  /\ x.to \in members /\ Accepts(x)
           /\ prim' = Without(Merged(prim, "prim", x), m, "prim", x.what)
           /\ back' = Without(Merged(back, "back", x), m, "back", x.what)
           /\ MarkReceived(x.to)
    /\ Sent(m, cycle[m].departed)
    /\ UNCHANGED <<clusterVars, tableVars, late, acked, last, departed>>

transferDeparted(m) ==
    /\ Sending(m) /\ FirstSend(m).to \notin members
    /\ Sent(m, TRUE)
    /\ UNCHANGED <<clusterVars, tableVars, dataVars, acked, last, departed, syncVars>>

(* A plausible slip: the target's error is not looked at.                  *)
DropsRefused(m) ==
    /\ Sending(m) /\ FirstSend(m).to \in members
    /\ FirstSend(m).to \notin up \/ ~checkOwnership(FirstSend(m).to, FirstSend(m).kind)
    /\ Over(m, TRUE)
    /\ prim' = Without(prim, m, "prim", FirstSend(m).what)
    /\ back' = Without(back, m, "back", FirstSend(m).what)
    /\ UNCHANGED <<clusterVars, tableVars, late, acked, last, departed, syncVars>>

transferRefused(m) ==
    /\ Sending(m) /\ FirstSend(m).to \in members
    /\ FirstSend(m).to \notin up \/ ~checkOwnership(FirstSend(m).to, FirstSend(m).kind)
    /\ Over(m, FALSE)
    /\ UNCHANGED <<clusterVars, tableVars, dataVars, acked, last, departed, syncVars>>

(* The sender gives up on a target that is busy, or slow.                  *)
transferTimeout(m) ==
    /\ Sending(m) /\ FirstSend(m).to \in members \cap up
    /\ checkOwnership(FirstSend(m).to, FirstSend(m).kind)
    /\ LET busy == Locked(FirstSend(m).to, FirstSend(m).kind)
       IN  /\ busy \/ left.timeouts > 0
           /\ left' = IF busy THEN left ELSE [left EXCEPT !.timeouts = @ - 1]
    /\ Over(m, FALSE)
    /\ late' = late \cup {FirstSend(m)}
    /\ UNCHANGED <<up, members, data, tableVars, prim, back, acked, last, departed, syncVars>>

(* What it sent is still handled, or refused.                              *)
lateMove(x) ==
    /\ x \in late /\ late' = late \ {x}
    /\ x.to \in up /\ ~Locked(x.to, x.kind)
    /\ IF checkOwnership(x.to, x.kind)
       THEN prim' = Merged(prim, "prim", x) /\ back' = Merged(back, "back", x) /\ MarkReceived(x.to)
       ELSE UNCHANGED <<prim, back, syncVars>>
    /\ UNCHANGED <<clusterVars, tableVars, balancerVars>>

-----------------------------------------------------------------------------
(* A write: on the primary owner and its current backups that are up, see  *)
(* DMap for how it gets there.                                             *)
write(m) ==
    /\ Spend("writes")
    /\ m \in up /\ Owner(m) = m /\ ~Locked(m, "prim")
    /\ LET t == Cardinality(data) + 1
           on == Range(CurrentBackups(m)) \cap up
       IN  /\ data' = data \cup {t}
           /\ \A b \in on : ~Locked(b, "back")
           /\ prim' = [prim EXCEPT ![m] = @ \cup {t}]
           /\ back' = [b \in Member |-> IF b \in on THEN back[b] \cup {t} ELSE back[b]]
    /\ UNCHANGED <<up, members, tableVars, late, balancerVars, syncVars>>

awaitEnds(m) ==
    /\ Spend("escapes")
    /\ m \in up /\ scan[m] = "none" /\ Expire(m)
    /\ UNCHANGED <<up, members, data, tableVars, dataVars, balancerVars>>

Routes(m) == updateRouting(m) \/ installTable(m) \/ reconcileTable(m)
Balances(m) ==
    \/ balanceOnce(m) \/ restoreDue(m)
    \/ transfer(m) \/ transferDeparted(m) \/ transferRefused(m) \/ transferTimeout(m)

(* A member goes from one phase to the next at once.                       *)
Quiet == \A m \in Member : ~Between(m)

Next ==
    \/ \E m \in Member : nextPhase(m)
    \/ \E m \in Member : Quiet /\ Join(m)
    \/ \E m \in Member : Quiet /\ Crash(m)
    \/ \E m \in Member : Quiet /\ NodeLeave(m)
    \/ \E m \in Member : Quiet /\ write(m)
    \/ \E m \in Member : Quiet /\ awaitEnds(m)
    \/ \E m \in Member : Quiet /\ Routes(m)
    \/ \E m \in Member : Quiet /\ Balances(m)
    \/ \E x \in late : Quiet /\ lateMove(x)

Spec == Init /\ [][Next]_vars

(* The periodic updates and cycles go on, and memberlist notices.          *)
FairSpec ==
    /\ Spec
    /\ \A m \in Member : WF_vars(Routes(m)) /\ WF_vars(Balances(m) \/ nextPhase(m))
    /\ WF_vars(\E m \in Member : NodeLeave(m))
    /\ WF_vars(\E x \in late : lateMove(x))

-----------------------------------------------------------------------------
Held == UNION {prim[m] \cup back[m] : m \in up}

(* Moving, promoting, restoring and dropping tables never loses the last   *)
(* copy of anything: moveTable drops a table once every target has it.     *)
NoStepLosesData == [][left'.crashes = left.crashes => Held \subseteq Held']_vars

(* The rebalance is complete once every member acked the table, and then   *)
(* no primary copy is left with a previous owner.                          *)
CompleteMeansDrained ==
    (\A m \in members : m \in up /\ acked[m] /\ table[m] = committed) =>
        \A m \in members : prim[m] \subseteq prim[Last(committed.owners)]

(* Every member acks the last table in the end, without the escape         *)
(* deadline: partitionsAwaitingData and Reconcile leave it waiting only    *)
(* for data that somebody delivers.                                        *)
AcksUnaided == <>[](\A m \in members : acked[m] /\ table[m] = committed)

(* What survived ends up with the primary owner and, when data is pushed   *)
(* or there was no change, its backups; and the table lists just them.     *)
Settles ==
    <>[](/\ Content(committed) = Content(Settled(members))
         /\ prim[Designated[members]] = Held
         /\ Proactive => \A b \in Range(committed.backups) : back[b] = Held)

(* README: "a member that stays gone has its partitions back at            *)
(* ReplicaCount copies after the delay".                                   *)
CopiesRestored ==
    <>[](\A d \in Held : Cardinality({m \in up : d \in prim[m] \cup back[m]})
                             >= Min({ReplicaCount, Cardinality(members)}))
=============================================================================
