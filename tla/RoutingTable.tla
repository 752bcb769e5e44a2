---------------------------- MODULE RoutingTable ----------------------------
(***************************************************************************)
(* internal/cluster/routingtable: how a cluster agrees on the owners of    *)
(* its partitions.                                                         *)
(*                                                                         *)
(* memberlist tells every member who is in the cluster; the oldest member  *)
(* it lists is the coordinator.  The coordinator computes a routing table, *)
(* commits it, pushes it to every member and starts a rebalance epoch; the *)
(* members install the table, balance their fragments and ack; the epoch   *)
(* completes when every live member of its pending set has acked.  Pushes  *)
(* that fail are retried, a member without a table or without its          *)
(* coordinator pulls the committed one.                                    *)
(*                                                                         *)
(* Requests time out while they are still on their way: a push or an ack   *)
(* nobody waits for any more stays in flight as "late".                    *)
(***************************************************************************)
EXTENDS Integers, FiniteSets, Sequences

CONSTANTS
    Node,          \* member identities, ordered by birthdate: smaller is older
    NameOf,        \* the address of each identity; a restart keeps the address
    Initial,       \* the members that are there at the start
    Settled,       \* whether their first epoch is over at the start
    Variants,      \* what a table depends on besides the ring: who holds data
    Quorum,        \* config.MemberCountQuorum
    MaxTimeouts,   \* bound on requests that time out at a live member
    MaxCrashes,    \* bound on crashes
    MaxSuspicions, \* bound on live members memberlist takes for dead
    MaxTicks,      \* bound on periodic updates
    MaxChanges     \* bound on tables that differ only by who holds data

ASSUME NodeAssumption ==
    /\ Node \subseteq Nat \ {0}
    /\ Initial \subseteq Node
    /\ IsFiniteSet(Node)
    /\ Settled \in BOOLEAN
    /\ \E c \in Initial : \A m \in Initial : c <= m
ASSUME NameAssumption ==
    NameOf \in [Node -> Nat] /\ \A m, n \in Initial : NameOf[m] = NameOf[n] => m = n
ASSUME VariantsAssumption == Variants \subseteq Nat /\ 0 \in Variants
ASSUME BoundsAssumption ==
    /\ Quorum \in Nat
    /\ MaxTimeouts \in Nat
    /\ MaxCrashes \in Nat
    /\ MaxSuspicions \in Nat
    /\ MaxTicks \in Nat
    /\ MaxChanges \in Nat

VARIABLES
    up,        \* where a member is in its life: Start, running, gone
    view,      \* what memberlist lists on each member
    members,   \* RoutingTable.members and the ring, which change together
    num,       \* RoutingTable.numMembers
    version,   \* RoutingTable.version: the installed table
    tcoord,    \* RoutingTable.tableCoordinator
    inbox,     \* Discovery.ClusterEvents: the events memberlist reported
    todo,      \* the event listenClusterEvents is at work on
    job,       \* the update that holds the routing mutex
    committed, \* RoutingTable.committedPayload
    tableSeq,  \* RoutingTable.tableSequence
    epoch,     \* RoutingTable.rebalanceState
    early,     \* RoutingTable.earlyAcks
    retry,     \* the members retryRoutingTablePush has yet to reach
    chase,     \* the pullRoutingTableAfterCoordinatorChange at work
    cycle,     \* the version the balancer's current cycle works on
    lastAcked, \* Balancer.lastAckedGeneration
    pushes,    \* UPDATEROUTING requests in flight
    acks,      \* REBALANCEACK requests in flight
    pulls,     \* answers to FETCHROUTING in flight
    noted,     \* the last node-join or node-left event published per member
    hist,      \* history: the tables each member ever installed
    budget     \* what is left of the bounds

memberVars == <<up, view, members, num>>
tableVars == <<version, tcoord, hist>>
coordVars == <<job, committed, tableSeq, epoch, early, retry>>
localVars == <<inbox, todo, chase, cycle, lastAcked, noted>>
netVars == <<pushes, acks, pulls>>
vars == <<memberVars, tableVars, coordVars, localVars, netVars, budget>>
-----------------------------------------------------------------------------
(* A table is known by its content: the ring it was computed from (every   *)
(* member of the ring owns a partition) and which previous owners are      *)
(* still listed because they hold data.  Its signature is that content.    *)
NoTable == [ring |-> {}, left |-> 0]
Tables == [ring : SUBSET Node, left : Variants]

NoVersion == [sig |-> NoTable, gen |-> 0, coord |-> 0, seq |-> 0, num |-> 0]
NoCommit == [sig |-> NoTable, num |-> 0]
NoEpoch == [sig |-> NoTable, gen |-> 0, num |-> 0, members |-> {}, pending |-> {},
            acked |-> {}, completed |-> FALSE]
Idle == [st |-> "idle", by |-> "timer", snap |-> {}, sig |-> NoTable, seq |-> 0,
         changed |-> FALSE, prev |-> NoCommit, unreach |-> {}, failed |-> FALSE]
NoEvent == [kind |-> "none", node |-> 0]
Events == [kind : {"join", "leave", "update"}, node : Node]
Unnoted == [kind |-> "none", gen |-> 0]
NoCycle == [sig |-> NoTable, gen |-> 0]

Up(n) == up[n] \in {"starting", "booting", "running"}

\* discovery.GetCoordinator: the member of the oldest birthdate.
IsCoordinatorOf(c, n) == c \in view[n] /\ \A m \in view[n] : c <= m
IsCoordinator(n) == IsCoordinatorOf(n, n)

\* Members other than m that m replaces: the same address, an older identity.
SameName(S, m) == {k \in S : NameOf[k] = NameOf[m] /\ k # m}

Commits == [sig : Tables, num : Nat]
Versions == [sig : Tables, gen : Nat, coord : Node \cup {0}, seq : Nat, num : Nat]
Jobs == [st : {"idle", "snap", "push"}, by : {"timer", "event", "boot"},
         snap : SUBSET Node, sig : Tables, seq : Nat, changed : BOOLEAN, prev : Commits,
         unreach : SUBSET Node, failed : BOOLEAN]
Epochs == [sig : Tables, gen : Nat, num : Nat, members : SUBSET Node,
           pending : SUBSET Node, acked : SUBSET Node, completed : BOOLEAN]
Retrials == [sig : Tables, seq : Nat, to : Node, st : {"wait", "sent", "admit", "add"}]
Cycles == [sig : Tables, gen : Nat]
Pushes == [st : {"fan", "retry", "late"}, from : Node, to : Node, sig : Tables, seq : Nat]
Acks == [st : {"wait", "late"}, from : Node, to : Node, sig : Tables, gen : Nat]
Answers == [boot : BOOLEAN, from : Node, to : Node, sig : Tables, num : Nat, was : Tables,
            stale : BOOLEAN]
Notes == [kind : {"none", "join", "left"}, gen : Nat]
Budgets == [timeouts : Nat, crashes : Nat, suspicions : Nat, ticks : Nat, changes : Nat]

TypeOK ==
    /\ up \in [Node -> {"off", "starting", "booting", "running", "gone"}]
    /\ view \in [Node -> SUBSET Node]
    /\ members \in [Node -> SUBSET Node]
    /\ num \in [Node -> Nat]
    /\ version \in [Node -> Versions]
    /\ tcoord \in [Node -> Node \cup {0}]
    /\ inbox \in [Node -> Seq(Events)]
    /\ todo \in [Node -> Events \cup {NoEvent}]
    /\ job \in [Node -> Jobs]
    /\ committed \in [Node -> Commits]
    /\ tableSeq \in [Node -> Nat]
    /\ epoch \in [Node -> Epochs]
    /\ early \in [Node -> SUBSET (Tables \X Node)]
    /\ retry \in [Node -> SUBSET Retrials]
    /\ chase \in [Node -> SUBSET Tables]
    /\ cycle \in [Node -> Cycles]
    /\ lastAcked \in [Node -> Nat]
    /\ pushes \in SUBSET Pushes
    /\ acks \in SUBSET Acks
    /\ pulls \in SUBSET Answers
    /\ noted \in [Node -> [Node -> Notes]]
    /\ hist \in [Node -> SUBSET Tables]
    /\ budget \in Budgets

\* memberlist reports the members it finds on joining in some order.
Orders(S) == {f \in [1..Cardinality(S) -> S] : \A i, j \in DOMAIN f : f[i] = f[j] => i = j}
Joins(order) == [i \in DOMAIN order |-> [kind |-> "join", node |-> order[i]]]

\* The members either enter Start together, or hold the table the oldest of
\* them pushed when it bootstrapped, acked, and have nothing left to do.
First == [ring |-> Initial, left |-> 0]
Oldest == CHOOSE c \in Initial : \A m \in Initial : c <= m
Holds(n) == Settled /\ n \in Initial
Leads(n) == Settled /\ n = Oldest

Init ==
    /\ up = [n \in Node |-> IF n \notin Initial THEN "off"
                            ELSE IF Settled THEN "running" ELSE "starting"]
    /\ view = [n \in Node |-> IF n \in Initial THEN Initial ELSE {}]
    /\ members = [n \in Node |-> IF Holds(n) THEN Initial ELSE {}]
    /\ num = [n \in Node |-> IF n \in Initial THEN Cardinality(Initial) ELSE 0]
    /\ version = [n \in Node |-> IF Holds(n)
                    THEN [sig |-> First, gen |-> 1, coord |-> Oldest, seq |-> 1, num |-> 1]
                    ELSE NoVersion]
    /\ tcoord = [n \in Node |-> IF Holds(n) THEN Oldest ELSE 0]
    /\ inbox = [n \in Node |-> IF Holds(n) \/ n \notin Initial THEN <<>>
                               ELSE Joins(CHOOSE o \in Orders(Initial \ {n}) : TRUE)]
    /\ todo = [n \in Node |-> NoEvent]
    /\ job = [n \in Node |-> Idle]
    /\ committed = [n \in Node |-> IF Leads(n) THEN [sig |-> First, num |-> 1] ELSE NoCommit]
    /\ tableSeq = [n \in Node |-> IF Leads(n) THEN 1 ELSE 0]
    /\ epoch = [n \in Node |-> IF Leads(n)
                    THEN [sig |-> First, gen |-> 1, num |-> 1, members |-> Initial,
                          pending |-> Initial, acked |-> Initial, completed |-> TRUE]
                    ELSE NoEpoch]
    /\ early = [n \in Node |-> {}]
    /\ retry = [n \in Node |-> {}]
    /\ chase = [n \in Node |-> {}]
    /\ cycle = [n \in Node |-> NoCycle]
    /\ lastAcked = [n \in Node |-> IF Holds(n) THEN 1 ELSE 0]
    /\ pushes = {} /\ acks = {} /\ pulls = {}
    /\ noted = [n \in Node |-> [m \in Node |-> Unnoted]]
    /\ hist = [n \in Node |-> IF Holds(n) THEN {First} ELSE {}]
    /\ budget = [timeouts |-> MaxTimeouts, crashes |-> MaxCrashes,
                 suspicions |-> MaxSuspicions, ticks |-> MaxTicks,
                 changes |-> MaxChanges]
-----------------------------------------------------------------------------
(* Membership: memberlist (external) and the listener of its events.       *)

\* What memberlist on n makes of member m: a join, or an update when its
\* address is listed under another identity, which m replaces.
Arrival(n, m) ==
    [kind |-> IF SameName(view[n], m) = {} THEN "join" ELSE "update", node |-> m]
Added(S, m) == (S \ SameName(S, m)) \cup {m}

\* Join: the member exchanges member lists with contact p.  It is not in its
\* own RoutingTable.members before Start is past the quorum gate.
NodeUp(n, p) ==
    /\ up[n] = "off"
    /\ \A m \in Node : Up(m) => NameOf[m] # NameOf[n]
    /\ Up(p)
    /\ up' = [up EXCEPT ![n] = "starting"]
    /\ view' = [view EXCEPT ![n] = Added(view[p], n), ![p] = Added(@, n)]
    /\ num' = [num EXCEPT ![n] = Cardinality(Added(view[p], n))]
    /\ \E order \in Orders(Added(view[p], n) \ {n}) :
          inbox' = [inbox EXCEPT ![n] = Joins(order), ![p] = Append(@, Arrival(p, n))]
    /\ UNCHANGED <<members, tableVars, coordVars, todo, chase, cycle, lastAcked, noted,
                   netVars, budget>>

\* The memory of the process is lost.  Its own requests may still arrive;
\* requests to it wait for their timeout, or are forgotten if nobody waits.
Stopped(n) ==
    /\ up' = [up EXCEPT ![n] = "gone"]
    /\ view' = [view EXCEPT ![n] = {}]
    /\ members' = [members EXCEPT ![n] = {}]
    /\ num' = [num EXCEPT ![n] = 0]
    /\ version' = [version EXCEPT ![n] = NoVersion]
    /\ tcoord' = [tcoord EXCEPT ![n] = 0]
    /\ job' = [job EXCEPT ![n] = Idle]
    /\ committed' = [committed EXCEPT ![n] = NoCommit]
    /\ tableSeq' = [tableSeq EXCEPT ![n] = 0]
    /\ epoch' = [epoch EXCEPT ![n] = NoEpoch]
    /\ early' = [early EXCEPT ![n] = {}]
    /\ retry' = [retry EXCEPT ![n] = {}]
    /\ inbox' = [inbox EXCEPT ![n] = <<>>]
    /\ todo' = [todo EXCEPT ![n] = NoEvent]
    /\ chase' = [chase EXCEPT ![n] = {}]
    /\ cycle' = [cycle EXCEPT ![n] = NoCycle]
    /\ lastAcked' = [lastAcked EXCEPT ![n] = 0]
    /\ noted' = [noted EXCEPT ![n] = [m \in Node |-> Unnoted]]
    /\ pushes' = {IF p.from = n THEN [p EXCEPT !.st = "late"] ELSE p :
                    p \in {q \in pushes : q.to # n \/ (q.st # "late" /\ q.from # n)}}
    /\ acks' = {IF a.from = n THEN [a EXCEPT !.st = "late"] ELSE a :
                    a \in {b \in acks : b.to # n \/ (b.st # "late" /\ b.from # n)}}
    /\ pulls' = {p \in pulls : p.to # n}
    /\ UNCHANGED hist

Crash(n) ==
    /\ Up(n)
    /\ budget.crashes > 0
    /\ budget' = [budget EXCEPT !.crashes = @ - 1]
    /\ Stopped(n)

\* memberlist on n learns of m.
GossipAlive(n, m) ==
    /\ Up(n) /\ Up(m)
    /\ m \notin view[n]
    /\ view' = [view EXCEPT ![n] = Added(@, m)]
    /\ inbox' = [inbox EXCEPT ![n] = Append(@, Arrival(n, m))]
    /\ UNCHANGED <<up, members, num, tableVars, coordVars, todo, chase, cycle, lastAcked,
                   noted, netVars, budget>>

\* memberlist on n drops m: it is gone, or it did not answer probes in time.
GossipDead(n, m) ==
    /\ Up(n)
    /\ m \in view[n] \ {n}
    /\ \/ up[m] = "gone" /\ UNCHANGED budget
       \/ /\ Up(m)
          /\ budget.suspicions > 0
          /\ budget' = [budget EXCEPT !.suspicions = @ - 1]
    /\ view' = [view EXCEPT ![n] = @ \ {m}]
    /\ inbox' = [inbox EXCEPT ![n] = Append(@, [kind |-> "leave", node |-> m])]
    /\ UNCHANGED <<up, members, num, tableVars, coordVars, todo, chase, cycle, lastAcked,
                   noted, netVars>>

\* listenClusterEvents takes the next event; m is the member it is about.
Takes(n, kind, m) ==
    /\ Up(n) /\ todo[n] = NoEvent
    /\ inbox[n] # <<>>
    /\ Head(inbox[n]) = [kind |-> kind, node |-> m]
    /\ inbox' = [inbox EXCEPT ![n] = Tail(@)]
    /\ todo' = [todo EXCEPT ![n] = Head(inbox[n])]
    /\ UNCHANGED <<up, view, tableVars, coordVars, chase, cycle, lastAcked, netVars, budget>>

\* processClusterEvent, one action per kind of event.  numMembers is stored
\* after the change.
ProcessJoin(n, m) ==
    /\ Takes(n, "join", m)
    /\ members' = [members EXCEPT ![n] = @ \cup {m}]
    /\ noted' = [noted EXCEPT ![n][m] = [kind |-> "join", gen |-> version[n].gen]]
    /\ num' = [num EXCEPT ![n] = Cardinality(view[n])]

\* The leave of an unknown member changes nothing, but the routing table is
\* updated all the same.
ProcessLeave(n, m) ==
    /\ Takes(n, "leave", m)
    /\ members' = [members EXCEPT ![n] = @ \ {m}]
    /\ IF m \in members[n]
       THEN /\ noted' = [noted EXCEPT ![n][m] = [kind |-> "left", gen |-> version[n].gen]]
            /\ num' = [num EXCEPT ![n] = Cardinality(view[n])]
       ELSE UNCHANGED <<noted, num>>

\* A plausible slip: the old identity of the address stays.
ProcessUpdateKeepsOld(n, m) ==
    /\ Takes(n, "update", m)
    /\ members' = [members EXCEPT ![n] = @ \cup {m}]
    /\ num' = [num EXCEPT ![n] = Cardinality(view[n])]
    /\ UNCHANGED noted

\* NodeUpdate: the address came back under a new identity.
ProcessUpdate(n, m) ==
    /\ Takes(n, "update", m)
    /\ members' = [members EXCEPT ![n] = Added(@, m)]
    /\ num' = [num EXCEPT ![n] = Cardinality(view[n])]
    /\ UNCHANGED noted
-----------------------------------------------------------------------------
(* The coordinator: compute, commit, push, start the epoch.                *)

HasQuorum(n) == Quorum <= num[n]

\* Start, past the quorum gate: the member is one of its own members, and the
\* coordinator bootstraps.
Start(n) ==
    /\ up[n] = "starting"
    /\ HasQuorum(n)
    /\ up' = [up EXCEPT ![n] = IF IsCoordinator(n) THEN "booting" ELSE "running"]
    /\ members' = [members EXCEPT ![n] = @ \cup {n}]
    /\ UNCHANGED <<view, num, tableVars, coordVars, localVars, netVars, budget>>

\* The ticker of pushPeriodically fires.
TickDue == budget.ticks > 0

\* Who may take the routing mutex: Start's bootstrap, the listener, the timer.
MayUpdate(n, by) ==
    CASE by = "boot" -> up[n] = "booting"
      [] by = "event" -> todo[n] # NoEvent /\ IsCoordinator(n) /\ HasQuorum(n)
      [] by = "timer" -> /\ up[n] = "running" /\ IsCoordinator(n) /\ HasQuorum(n)
                         /\ TickDue

\* memberSnapshot, taken before the table is computed.
Snapshot(n, by) ==
    /\ Up(n)
    /\ job[n].st = "idle"
    /\ MayUpdate(n, by)
    /\ job' = [job EXCEPT ![n] = [Idle EXCEPT !.st = "snap", !.by = by, !.snap = members[n]]]
    /\ budget' = IF by = "timer" THEN [budget EXCEPT !.ticks = @ - 1] ELSE budget
    /\ UNCHANGED <<memberVars, tableVars, committed, tableSeq, epoch, early, retry,
                   localVars, netVars>>

\* A plausible slip: an empty ring makes a table without owners; and whether
\* the ring designates owners at all.
HasRingAlways(n) == TRUE
HasRing(n) == members[n] # {}

\* A plausible slip: an unchanged table is pushed to nobody; and whom
\* updateRoutingTableOnCluster pushes a table to.
TargetsOfChange(n, changed) == IF changed THEN members[n] ELSE {}
Targets(n, changed) == members[n]

\* fillRoutingTable from the ring of this moment, the commit of the payload and
\* the start of the fan-out.  A bootstrap numbers its table in any case.
Compute(n, v) ==
    LET cur == version[n].sig
        table == [ring |-> members[n], left |-> v]
        changed == job[n].by = "boot" \/ table # cur
        seq == tableSeq[n] + (IF changed THEN 1 ELSE 0)
    IN  /\ job[n].st = "snap"
        /\ HasRing(n)
        /\ \/ v = cur.left /\ UNCHANGED budget
           \/ /\ v # cur.left /\ budget.changes > 0
              /\ budget' = [budget EXCEPT !.changes = @ - 1]
        /\ tableSeq' = [tableSeq EXCEPT ![n] = seq]
        /\ committed' = [committed EXCEPT ![n] = [sig |-> table, num |-> seq]]
        /\ job' = [job EXCEPT ![n].st = "push", ![n].sig = table, ![n].seq = seq,
                              ![n].changed = changed, ![n].prev = committed[n]]
        /\ pushes' = pushes \cup {[st |-> "fan", from |-> n, to |-> m, sig |-> table,
                                   seq |-> seq] : m \in Targets(n, changed)}
        /\ UNCHANGED <<memberVars, tableVars, epoch, early, retry, localVars, acks, pulls>>

\* An empty ring designates no owner: placePrimaryOwner panics.
ComputePanics(n) ==
    /\ job[n].st = "snap"
    /\ ~HasRing(n)
    /\ Stopped(n)
    /\ UNCHANGED budget

\* The answer to a push that failed at member m, or that nobody gave in time.
PushFailed(n, m) ==
    IF m = n THEN [job EXCEPT ![n].failed = TRUE]
    ELSE [job EXCEPT ![n].unreach = @ \cup {m}]

RetryOf(p) == [sig |-> p.sig, seq |-> p.seq, to |-> p.to, st |-> "sent"]

\* What the sender of p does once it has an answer, or none.
Answered(p, ok) ==
    CASE p.st = "fan" ->
            /\ job' = IF ok THEN job ELSE PushFailed(p.from, p.to)
            /\ UNCHANGED retry
      [] p.st = "retry" ->
            /\ retry' = [retry EXCEPT ![p.from] = (@ \ {RetryOf(p)}) \cup
                            {[RetryOf(p) EXCEPT !.st = IF ok THEN "admit" ELSE "wait"]}]
            /\ UNCHANGED job
      [] p.st = "late" -> UNCHANGED <<job, retry>>

PushTimeout(p) ==
    /\ p.st # "late"
    /\ \/ up[p.to] = "gone" /\ pushes' = pushes \ {p} /\ UNCHANGED budget
       \/ /\ Up(p.to)
          /\ budget.timeouts > 0
          /\ budget' = [budget EXCEPT !.timeouts = @ - 1]
          /\ pushes' = (pushes \ {p}) \cup {[p EXCEPT !.st = "late"]}
    /\ Answered(p, FALSE)
    /\ UNCHANGED <<memberVars, tableVars, committed, tableSeq, epoch, early, localVars,
                   acks, pulls>>

CompleteNow(e, live) ==
    /\ e.sig # NoTable
    /\ e.pending \cap live # {}
    /\ e.pending \cap live \subseteq e.acked

\* checkRebalanceCompletionLocked, against the members known now.
Checked(e, live) == [e EXCEPT !.completed = e.completed \/ CompleteNow(e, live)]

\* Plausible slips: acks that came before are dropped; only the members the
\* push reached gate the epoch; the epoch is not checked when it starts.
NewEpochDropsAcks(n) ==
    Checked([sig |-> job[n].sig, gen |-> version[n].gen, num |-> job[n].seq,
             members |-> job[n].snap, pending |-> job[n].snap, acked |-> {},
             completed |-> FALSE], members[n])
NewEpochOfReached(n) ==
    Checked([sig |-> job[n].sig, gen |-> version[n].gen, num |-> job[n].seq,
             members |-> job[n].snap, pending |-> job[n].snap \ job[n].unreach,
             acked |-> {m \in Node : <<job[n].sig, m>> \in early[n]},
             completed |-> FALSE], members[n])
NewEpochUnchecked(n) ==
    [sig |-> job[n].sig, gen |-> version[n].gen, num |-> job[n].seq,
     members |-> job[n].snap, pending |-> job[n].snap,
     acked |-> {m \in Node : <<job[n].sig, m>> \in early[n]}, completed |-> FALSE]

\* startRebalanceEpoch: acks that came before it are harvested.
NewEpoch(n) ==
    Checked([sig |-> job[n].sig, gen |-> version[n].gen, num |-> job[n].seq,
             members |-> job[n].snap, pending |-> job[n].snap,
             acked |-> {m \in Node : <<job[n].sig, m>> \in early[n]},
             completed |-> FALSE], members[n])

\* tableCoordinatorGone, after the listener's update.
ListenerDone(n) ==
    /\ todo' = [todo EXCEPT ![n] = NoEvent]
    /\ chase' = IF /\ todo[n].kind \in {"leave", "update"}
                   /\ tcoord[n] # 0
                   /\ NameOf[tcoord[n]] = NameOf[todo[n].node]
                   /\ ~IsCoordinator(n)
                THEN [chase EXCEPT ![n] = @ \cup {version[n].sig}] ELSE chase

\* What the retries start from.
Unreached(n) ==
    {[sig |-> job[n].sig, seq |-> job[n].seq, to |-> m, st |-> "wait"] : m \in job[n].unreach}

\* The rest of updateRoutingWithReason and of bootstrapCoordinator, once every
\* push was answered or timed out.  A bootstrap that fails ends the member.
Finish(n) ==
    /\ Up(n)
    /\ job[n].st = "push"
    /\ \A p \in pushes : ~(p.from = n /\ p.st = "fan")
    /\ job' = [job EXCEPT ![n] = Idle]
    /\ IF job[n].failed
       THEN /\ committed' = [committed EXCEPT ![n] =
                                IF job[n].prev = NoCommit THEN @ ELSE job[n].prev]
            /\ UNCHANGED <<epoch, early, retry>>
       ELSE /\ IF job[n].changed /\ job[n].snap # {}
               THEN /\ epoch' = [epoch EXCEPT ![n] = NewEpoch(n)]
                    /\ early' = [early EXCEPT ![n] = {}]
               ELSE UNCHANGED <<epoch, early>>
            /\ retry' = [retry EXCEPT ![n] = @ \cup Unreached(n)]
            /\ UNCHANGED committed
    /\ up' = IF job[n].by = "boot"
             THEN [up EXCEPT ![n] = IF job[n].failed THEN "gone" ELSE "running"]
             ELSE up
    /\ IF job[n].by = "event" THEN ListenerDone(n) ELSE UNCHANGED <<todo, chase>>
    /\ UNCHANGED <<inbox, view, members, num, tableVars, tableSeq, cycle, lastAcked, noted,
                   netVars, budget>>

\* The listener's update on a member that is not the coordinator, or has no
\* quorum: it returns at once.
ListenerSkips(n) ==
    /\ Up(n)
    /\ todo[n] # NoEvent
    /\ job[n].st = "idle"
    /\ ~MayUpdate(n, "event")
    /\ ListenerDone(n)
    /\ UNCHANGED <<memberVars, tableVars, coordVars, inbox, cycle, lastAcked, noted, netVars,
                   budget>>

\* retryRoutingTablePush: one more attempt for a member still in the cluster,
\* while the table it carries is the installed one.
RetrySend(n, r) ==
    /\ Up(n)
    /\ r.st = "wait"
    /\ version[n].sig = r.sig
    /\ r.to \in members[n]
    /\ retry' = [retry EXCEPT ![n] = (@ \ {r}) \cup {[r EXCEPT !.st = "sent"]}]
    /\ pushes' = pushes \cup {[st |-> "retry", from |-> n, to |-> r.to, sig |-> r.sig,
                               seq |-> r.seq]}
    /\ UNCHANGED <<memberVars, tableVars, job, committed, tableSeq, epoch, early, localVars,
                   acks, pulls, budget>>

\* It gives up: another table is installed, the member left, or a periodic
\* push is due.
RetryEnds(n, r) ==
    /\ Up(n)
    /\ r.st = "wait"
    /\ version[n].sig # r.sig \/ r.to \notin members[n] \/ TickDue
    /\ retry' = [retry EXCEPT ![n] = @ \ {r}]
    /\ UNCHANGED <<memberVars, tableVars, job, committed, tableSeq, epoch, early, localVars,
                   netVars, budget>>

\* admitLatePush: first under the routing mutex, for the left-over report, then
\* under the rebalance mutex.
LatePushReported(n, r) ==
    /\ Up(n)
    /\ r.st = "admit"
    /\ job[n].st = "idle"
    /\ retry' = [retry EXCEPT ![n] = (@ \ {r}) \cup {[r EXCEPT !.st = "add"]}]
    /\ UNCHANGED <<memberVars, tableVars, job, committed, tableSeq, epoch, early, localVars,
                   netVars, budget>>

Awaiting(e, m) == [e EXCEPT !.pending = e.pending \cup {m}]

AdmitLatePush(n, r) ==
    /\ Up(n)
    /\ r.st = "add"
    /\ retry' = [retry EXCEPT ![n] = @ \ {r}]
    /\ epoch' = IF epoch[n].sig # r.sig \/ epoch[n].completed THEN epoch
                ELSE [epoch EXCEPT ![n] = Checked(Awaiting(epoch[n], r.to), members[n])]
    /\ UNCHANGED <<memberVars, tableVars, job, committed, tableSeq, early, localVars, netVars,
                   budget>>
-----------------------------------------------------------------------------
(* A member: install a table, balance, ack; pull a table.                  *)

\* verifyRoutingTable: the sender is the coordinator this member knows.
Verified(m, c) == IsCoordinatorOf(c, m)

\* A plausible slip: pushes are installed as they come.
OlderNever(m, c, seq) == FALSE

\* A push of a table its coordinator has replaced since the installed one.
Older(m, c, seq) ==
    /\ seq # 0
    /\ version[m].sig # NoTable
    /\ version[m].coord = c
    /\ seq < version[m].seq

\* Plausible slips: the generation goes by the content alone; it steps back.
SetVersionByContent(m, sig, c, seq, n) ==
    [sig |-> sig, gen |-> version[m].gen + (IF version[m].sig # sig THEN 1 ELSE 0),
     coord |-> c, seq |-> seq, num |-> n]
SetVersionStepsBack(m, sig, c, seq, n) ==
    [sig |-> sig, gen |-> version[m].gen - 1, coord |-> c, seq |-> seq, num |-> n]

\* setVersion.  The generation advances when the content changes, or when a
\* push numbers the same content differently; a pull that confirms the
\* installed table keeps the numbering.
SetVersion(m, sig, c, seq, n) ==
    LET cur == version[m]
        changed == \/ cur.sig # sig
                   \/ seq # 0 /\ (cur.coord # c \/ cur.seq # seq)
        keep == ~changed /\ seq = 0
    IN  [sig |-> sig,
         gen |-> IF changed THEN cur.gen + 1 ELSE cur.gen,
         coord |-> IF keep THEN cur.coord ELSE c,
         seq |-> IF keep THEN cur.seq ELSE seq,
         num |-> IF keep THEN cur.num ELSE n]

\* The rest of applyRoutingTablePayload: table sig of coordinator c, pushed as
\* seq or pulled as 0; n is the number its coordinator gave it.
Install(m, sig, c, seq, n) ==
    /\ version' = [version EXCEPT ![m] = SetVersion(m, sig, c, seq, n)]
    /\ tcoord' = [tcoord EXCEPT ![m] = c]
    /\ hist' = [hist EXCEPT ![m] = @ \cup {sig}]

\* Pulls in flight to m whose expected version an install replaces.
Outdated(m) == {IF p.to = m THEN [p EXCEPT !.stale = TRUE] ELSE p : p \in pulls}

\* updateRoutingCommandHandler.
HandlePush(p) ==
    LET m == p.to
        ok == Verified(m, p.from)
    IN  /\ Up(m)
        /\ pushes' = pushes \ {p}
        /\ Answered(p, ok)
        /\ IF ok /\ ~Older(m, p.from, p.seq)
           THEN Install(m, p.sig, p.from, p.seq, p.seq) /\ pulls' = Outdated(m)
           ELSE UNCHANGED <<tableVars, pulls>>
        /\ UNCHANGED <<memberVars, committed, tableSeq, epoch, early, localVars, acks, budget>>

\* balanceOnce reads the version its cycle works on.  A cycle for a generation
\* that is acked already changes nothing here.
CycleStart(m) ==
    /\ Up(m)
    /\ cycle[m] = NoCycle
    /\ version[m].sig # NoTable
    /\ version[m].gen # lastAcked[m]
    /\ cycle' = [cycle EXCEPT ![m] = [sig |-> version[m].sig, gen |-> version[m].gen]]
    /\ UNCHANGED <<memberVars, tableVars, coordVars, inbox, todo, chase, lastAcked, noted,
                   netVars, budget>>

AckWaits(m) == \E a \in acks : a.from = m /\ a.st = "wait"

\* breakLoop: the table changed under the cycle.
CycleAborts(m) ==
    /\ Up(m)
    /\ cycle[m] # NoCycle
    /\ ~AckWaits(m)
    /\ cycle[m].sig # version[m].sig
    /\ cycle' = [cycle EXCEPT ![m] = NoCycle]
    /\ UNCHANGED <<memberVars, tableVars, coordVars, inbox, todo, chase, lastAcked, noted,
                   netVars, budget>>

\* tryAckRebalance and SendRebalanceAck: the cycle moved nothing.
SendAck(m, c) ==
    /\ Up(m)
    /\ cycle[m] # NoCycle
    /\ ~AckWaits(m)
    /\ IsCoordinatorOf(c, m)
    /\ acks' = acks \cup {[st |-> "wait", from |-> m, to |-> c,
                           sig |-> cycle[m].sig, gen |-> cycle[m].gen]}
    /\ UNCHANGED <<memberVars, tableVars, coordVars, localVars, pushes, pulls, budget>>

AckTimeout(a) ==
    /\ a.st = "wait"
    /\ \/ up[a.to] = "gone" /\ acks' = acks \ {a} /\ UNCHANGED budget
       \/ /\ Up(a.to)
          /\ budget.timeouts > 0
          /\ budget' = [budget EXCEPT !.timeouts = @ - 1]
          /\ acks' = (acks \ {a}) \cup {[a EXCEPT !.st = "late"]}
    /\ cycle' = [cycle EXCEPT ![a.from] = NoCycle]
    /\ UNCHANGED <<memberVars, tableVars, coordVars, inbox, todo, chase, lastAcked, noted,
                   pushes, pulls>>

\* A plausible slip: an ack counts whatever table it is for.
AckStatusUnchecked(c, sig) ==
    IF ~IsCoordinator(c) THEN "error" ELSE "accepted"

AckStatus(c, sig) ==
    IF ~IsCoordinator(c) THEN "error"
    ELSE IF epoch[c].sig = sig THEN "accepted"
    ELSE IF sig \in {version[c].sig, committed[c].sig} THEN "early"
    ELSE "stale"

\* The answers that settle an ack.
SettledBy(status) == status \in {"accepted", "early"}

\* rebalanceAckCommandHandler and handleRebalanceAck, and what the answer does
\* to the sender if it still waits for it.
HandleAck(a) ==
    LET c == a.to
        m == a.from
        status == AckStatus(c, a.sig)
        marked == [epoch[c] EXCEPT !.acked = @ \cup {m}]
    IN  /\ Up(c)
        /\ acks' = acks \ {a}
        /\ early' = IF status = "early"
                    THEN [early EXCEPT ![c] = @ \cup {<<a.sig, m>>}] ELSE early
        /\ epoch' = IF status = "accepted" /\ ~epoch[c].completed /\ m \notin epoch[c].acked
                    THEN [epoch EXCEPT ![c] =
                            IF m \in marked.pending THEN Checked(marked, members[c])
                            ELSE marked]
                    ELSE epoch
        /\ IF a.st = "wait"
           THEN /\ cycle' = [cycle EXCEPT ![m] = NoCycle]
                /\ lastAcked' = IF SettledBy(status)
                                THEN [lastAcked EXCEPT ![m] = a.gen] ELSE lastAcked
           ELSE UNCHANGED <<cycle, lastAcked>>
        /\ UNCHANGED <<memberVars, tableVars, job, committed, tableSeq, retry, inbox, todo,
                       chase, noted, pushes, pulls, budget>>

\* fetchRoutingTableFromCoordinator, up to the answer of
\* fetchRoutingCommandHandler; was is the signature the puller started from.
Pull(m, c, boot, was) ==
    /\ c # m
    /\ IsCoordinatorOf(c, m)
    /\ Up(c) /\ IsCoordinator(c)
    /\ committed[c] # NoCommit
    /\ \A p \in pulls : ~(p.to = m /\ p.boot = boot /\ p.was = was)
    /\ pulls' = pulls \cup {[boot |-> boot, from |-> c, to |-> m,
                             sig |-> committed[c].sig, num |-> committed[c].num,
                             was |-> was, stale |-> FALSE]}
    /\ UNCHANGED <<memberVars, tableVars, coordVars, localVars, pushes, acks, budget>>

\* pullRoutingTableUntilBootstrapped.
BootPull(m, c) ==
    /\ up[m] = "running"
    /\ version[m].sig = NoTable
    /\ Pull(m, c, TRUE, NoTable)

\* pullRoutingTableAfterCoordinatorChange has nothing to do any more.
ChaseOver(m, was) ==
    \/ version[m].sig # was
    \/ IsCoordinator(m)
    \/ IsCoordinatorOf(version[m].coord, m)

ChasePull(m, c, was) ==
    /\ Up(m)
    /\ ~ChaseOver(m, was)
    /\ Pull(m, c, FALSE, was)

\* It ends by itself, or because a periodic push is due.
ChaseEnds(m, was) ==
    /\ Up(m)
    /\ ChaseOver(m, was) \/ TickDue
    /\ \A p \in pulls : ~(p.to = m /\ ~p.boot /\ p.was = was)
    /\ chase' = [chase EXCEPT ![m] = @ \ {was}]
    /\ UNCHANGED <<memberVars, tableVars, coordVars, inbox, todo, cycle, lastAcked, noted,
                   netVars, budget>>

\* The answer of a pull is applied, dropped because a push came first, or
\* rejected because the coordinator changed.
HandlePull(p) ==
    LET m == p.to
        dropped == IF p.boot THEN version[m].sig # NoTable ELSE p.stale
        ok == Verified(m, p.from)
    IN  /\ IF ~dropped /\ ok
           THEN /\ Install(m, p.sig, p.from, 0, p.num)
                /\ pulls' = Outdated(m) \ {p, [p EXCEPT !.stale = TRUE]}
           ELSE /\ UNCHANGED tableVars
                /\ pulls' = pulls \ {p}
        /\ chase' = IF ~p.boot /\ (dropped \/ ok)
                    THEN [chase EXCEPT ![m] = @ \ {p.was}] ELSE chase
        /\ UNCHANGED <<memberVars, coordVars, inbox, todo, cycle, lastAcked, noted, pushes,
                       acks, budget>>
-----------------------------------------------------------------------------
Process(n, m) ==
    ProcessJoin(n, m) \/ ProcessLeave(n, m) \/ ProcessUpdate(n, m)

Gossip ==
    \E n, m \in Node : NodeUp(n, m) \/ GossipAlive(n, m) \/ GossipDead(n, m)

Listen ==
    \E n \in Node :
        \/ \E m \in Node : Process(n, m)
        \/ ListenerSkips(n)

Coordinate ==
    \E n \in Node :
        \/ Start(n)
        \/ \E by \in {"boot", "event", "timer"} : Snapshot(n, by)
        \/ \E v \in Variants : Compute(n, v)
        \/ ComputePanics(n)
        \/ Finish(n)
        \/ \E r \in retry[n] :
              \/ RetrySend(n, r) \/ RetryEnds(n, r)
              \/ LatePushReported(n, r) \/ AdmitLatePush(n, r)

Balance ==
    \E m \in Node : CycleStart(m) \/ CycleAborts(m) \/ \E c \in Node : SendAck(m, c)

Deliver ==
    \/ \E p \in pushes : HandlePush(p) \/ PushTimeout(p)
    \/ \E a \in acks : HandleAck(a) \/ AckTimeout(a)
    \/ \E p \in pulls : HandlePull(p)

Fetch ==
    \E m \in Node :
        \/ \E c \in Node : BootPull(m, c) \/ \E was \in chase[m] : ChasePull(m, c, was)
        \/ \E was \in chase[m] : ChaseEnds(m, was)

Next ==
    \/ Gossip \/ Listen \/ Coordinate \/ Balance \/ Deliver \/ Fetch
    \/ \E n \in Node : Crash(n)

Spec == Init /\ [][Next]_vars

(* What runs on a member, each in goroutines of its own.  memberlist spreads *)
(* every join and failure; a handler returns; timers of the balancer, of the *)
(* retries and of the pulls fire again; a request to a dead member times out. *)
(* The periodic update, timeouts, crashes and suspicions are not fair.        *)
Learns(n) ==
    \E m \in Node : GossipAlive(n, m) \/ (up[m] = "gone" /\ GossipDead(n, m))
Listens(n) ==
    \/ \E m \in Node : Process(n, m)
    \/ ListenerSkips(n)
    \/ Snapshot(n, "event")
Updates(n) ==
    \/ Start(n) \/ Snapshot(n, "boot") \/ Finish(n)
    \/ (\E v \in Variants : Compute(n, v)) \/ ComputePanics(n)
Retries(n) ==
    \E r \in retry[n] : RetrySend(n, r) \/ LatePushReported(n, r) \/ AdmitLatePush(n, r)
Balances(n) == CycleStart(n) \/ CycleAborts(n) \/ \E c \in Node : SendAck(n, c)
Installs(n, c) == \E p \in pushes : p.to = n /\ p.from = c /\ HandlePush(p)
TakesAcks(n) == \E a \in acks : a.to = n /\ HandleAck(a)
GivesUp(n) ==
    \/ \E p \in pushes : p.from = n /\ up[p.to] = "gone" /\ PushTimeout(p)
    \/ \E a \in acks : a.from = n /\ up[a.to] = "gone" /\ AckTimeout(a)
Pulls(n) ==
    \/ \E c \in Node : BootPull(n, c) \/ \E was \in chase[n] : ChasePull(n, c, was)
    \/ \E was \in chase[n] : ChaseOver(n, was) /\ ChaseEnds(n, was)
    \/ \E p \in pulls : p.to = n /\ HandlePull(p)

Fairness ==
    \A n \in Node :
        /\ WF_vars(Learns(n)) /\ WF_vars(Listens(n)) /\ WF_vars(Updates(n))
        /\ WF_vars(Retries(n)) /\ WF_vars(Balances(n)) /\ WF_vars(TakesAcks(n))
        /\ WF_vars(GivesUp(n)) /\ WF_vars(Pulls(n))
        /\ \A c \in Node : WF_vars(Installs(n, c))

FairSpec == Spec /\ Fairness

\* And the ticker of pushPeriodically fires, as often as it is modelled.  The
\* routing mutex, a sync.Mutex, is handed to whoever waits too long for it.
TimerSpec ==
    /\ FairSpec
    /\ \A n \in Node : WF_vars(Snapshot(n, "timer"))
-----------------------------------------------------------------------------
\* The epoch of coordinator c completes in this step.
Completes(c) == epoch'[c].completed /\ ~(epoch[c].completed /\ epoch[c].num = epoch'[c].num)

\* An ack is counted for an epoch, or kept for one to come, only if its sender
\* installed the table it acks: handleRebalanceAck goes by the signature alone.
AckedInstalled ==
    \A c \in Node :
        /\ \A m \in epoch[c].acked : epoch[c].sig \in hist[m]
        /\ \A e \in early[c] : e[1] \in hist[e[2]]

\* "Harvest acks that raced the epoch start" (startRebalanceEpoch): a member that
\* acked the table of an epoch before the epoch started, and will not ack it
\* again, is among those the epoch counts as acked.  Unless the same content was
\* pushed twice in a row, as on a fresh start: then the first epoch has the ack.
EarlyAcksCount ==
    [][\A c, m \in Node :
        /\ up'[c] # "gone"
        /\ epoch'[c].sig # epoch[c].sig
        /\ version[m].coord = c /\ version[m].num = epoch'[c].num
        /\ lastAcked[m] = version[m].gen
        => m \in epoch'[c].acked]_vars

\* checkRebalanceCompletionLocked: "departed members don't block completion".
\* When a coordinator with its member quorum is done with an event and has
\* committed a table of the members it knows, the epoch of that table does not
\* stay open when its live members have all acked.  The epoch of a table before
\* may: a coordinator that could not push a table to itself starts no epoch for
\* it, not even if the push arrives late and the table is committed again; and
\* departures are only looked at when an ack arrives or an epoch starts.
NoMissedCompletion ==
    \A c \in Node :
        /\ up[c] = "running"
        /\ job[c].st = "idle" /\ todo[c] = NoEvent
        /\ HasQuorum(c)
        /\ committed[c].sig.ring = members[c] /\ epoch[c].sig = committed[c].sig
        /\ CompleteNow(epoch[c], members[c])
        => epoch[c].completed

\* Pushes of one coordinator are installed in the order it numbered them.
\* Number 0 is no number: pulls have it, and so has the push of a coordinator
\* that has not computed a new table yet.
PushesInOrder ==
    [][\A m \in Node :
        /\ up'[m] # "gone"
        /\ version'[m].coord = version[m].coord
        /\ version'[m].seq # 0
        => version'[m].seq >= version[m].seq]_vars

\* "generation never recurs on a given coordinator" (README): one generation
\* is one epoch, whose acks only grow and whose completion is final.  This is
\* about epochs of tables the coordinator is itself a member of.
GenerationIsOneEpoch ==
    [][\A c \in Node :
        /\ up'[c] # "gone"
        /\ c \in epoch'[c].pending
        => /\ epoch'[c].gen >= epoch[c].gen
           /\ epoch'[c].gen = epoch[c].gen =>
                 /\ epoch'[c].sig = epoch[c].sig
                 /\ epoch[c].acked \subseteq epoch'[c].acked
                 /\ epoch[c].completed => epoch'[c].completed]_vars

\* README: an epoch "completes only after all live members report that no
\* further fragment moves are required for that routing table epoch".  So no
\* live member it was started for still routes on a table pushed before.
CompletionReported ==
    [][\A c \in Node : Completes(c) =>
        \A m \in epoch'[c].members \cap members[c] :
            ~ /\ version[m].coord = c
              /\ version[m].num < epoch'[c].num
              /\ version[m].sig # epoch'[c].sig]_vars

Live == {n \in Node : Up(n)}

\* Every live member routes on one table, computed for the live members.
Agreed ==
    \A n, m \in Live :
        view[n] = Live /\ version[n].sig.ring = Live /\ version[n].sig = version[m].sig

\* And the epoch the coordinator runs for it is complete.
Converged ==
    /\ Agreed
    /\ \A c \in Live : IsCoordinator(c) =>
          epoch[c].sig = version[c].sig /\ epoch[c].completed

SelfPushFails == \E n \in Node : job[n].failed

\* Once members stop coming and going the cluster converges, and stays so:
\* retries, pulls after a coordinator change and repeated acks make up for
\* every push and ack that was lost, rejected or overtaken, as long as the
\* coordinator installs its own tables.
Converges == [](~SelfPushFails) => <>[]Converged

\* Members that took each other for dead and list each other again: the next
\* periodic push of the coordinator (pushPeriodically) brings them back to one
\* table, although no join or leave says that a member has to pull.  The epoch
\* of that table may stay open: a member that took itself for the coordinator
\* has acked to itself and does not ack the same table again.
Reunited ==
    /\ budget.suspicions = 0
    /\ \A n \in Live : view[n] = Live /\ members[n] = Live
    /\ \A n \in Live : inbox[n] = <<>> /\ todo[n] = NoEvent
Heals == <>(Reunited /\ TickDue) => <>[]Agreed
=============================================================================
