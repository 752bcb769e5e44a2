------------------------------- MODULE PubSub -------------------------------
(***************************************************************************)
(* internal/pubsub: the subscriptions of the connections of every member,  *)
(* and a publish that reaches the subscribers of the whole cluster.        *)
(*                                                                         *)
(* The handler of SUBSCRIBE registers one channel after the other.  The    *)
(* first one detaches the connection and starts the goroutine (bgrunner)   *)
(* that serves its later commands and cleans up when the connection ends,  *)
(* which may be before the handler is through: the next channel then       *)
(* registers the connection anew.                                          *)
(***************************************************************************)
EXTENDS Naturals, Sequences, FiniteSets, Bags

CONSTANTS Member, Conn,
          Home,      \* the member each connection is made to
          Keys,      \* what can be subscribed to: channels
          Patterns,  \* and, among them, patterns
          Matches,   \* Matches[k]: the messages that reach k's subscribers
          Messages,  \* the channels messages are published on
          Max        \* bounds: commands of each connection, publishes,
                     \* crashes, failed calls

ASSUME ConnAssumption == IsFiniteSet(Conn) /\ IsFiniteSet(Keys) /\ Home \in [Conn -> Member]

VARIABLES
    up,       \* the members that run,
    members,  \* and those memberlist lists
    chans,    \* PubSub.chans: what each connection's pubSubConn gets
    conns,    \* PubSub.conns: whether a pubSubConn is registered
    entries,  \* pubSubConn.entries: a bag, as a channel may be there twice
    runner,   \* whether its bgrunner runs
    open,     \* whether the client still holds the connection
    todo,     \* what the handler of SUBSCRIBE has still to register
    pub,      \* the publish under way
    left      \* what Max still allows

connVars == <<chans, conns, entries, runner, open, todo>>
vars == <<up, members, connVars, pub, left>>

NoPublish == [by |-> {}, on |-> "", rest |-> {}, got |-> {}, total |-> 0, failed |-> FALSE, due |-> {}]

Init ==
    /\ up = Member /\ members = Member
    /\ chans = [c \in Conn |-> {}]
    /\ conns = [c \in Conn |-> FALSE]
    /\ entries = [c \in Conn |-> EmptyBag]
    /\ runner = [c \in Conn |-> FALSE]
    /\ open = [c \in Conn |-> TRUE]
    /\ todo = [c \in Conn |-> <<>>]
    /\ pub = NoPublish
    /\ left = Max

Spend(what) == left[what] > 0 /\ left' = [left EXCEPT ![what] = @ - 1]
Command(c) == left.commands[c] > 0 /\ left' = [left EXCEPT !.commands[c] = @ - 1]

(* Those who lose a subscription need not get what is being published.     *)
Excused(c, lost) == [pub EXCEPT !.due = @ \ ({c} \X lost)]

-----------------------------------------------------------------------------
(* PubSub.subscribe: the tree holds a channel once, the entries as often   *)
(* as it was asked for.                                                    *)
subscribe(c, k) ==
    /\ chans' = [chans EXCEPT ![c] = @ \cup {k}]
    /\ entries' = [entries EXCEPT ![c] = @ (+) SetToBag({k})]
    /\ conns' = [conns EXCEPT ![c] = TRUE]
    /\ runner' = [runner EXCEPT ![c] = TRUE]

(* subscribeCommandHandler and psubscribeCommandHandler: a command comes   *)
(* in on a connection that is not detached,                                *)
subscribeCommand(c, ks) ==
    /\ Command(c)
    /\ open[c] /\ Home[c] \in up /\ ~conns[c] /\ todo[c] = <<>> /\ ~runner[c]
    /\ todo' = [todo EXCEPT ![c] = ks]
    /\ UNCHANGED <<up, members, chans, conns, entries, runner, open, pub>>

(* and is served channel by channel.                                       *)
subscribeCommandHandler(c) ==
    /\ todo[c] # <<>>
    /\ subscribe(c, Head(todo[c]))
    /\ todo' = [todo EXCEPT ![c] = Tail(@)]
    /\ UNCHANGED <<up, members, open, pub, left>>

-----------------------------------------------------------------------------
(* bgrunner serves the commands of the detached connection.                *)
Reads(c) == open[c] /\ runner[c]

bgSubscribe(c, k) ==
    /\ Reads(c) /\ Command(c)
    /\ subscribe(c, k)
    /\ UNCHANGED <<up, members, open, todo, pub>>

(* unsubscribe: one entry goes; the tree drops the channel with it.        *)
unsubscribe(c, k) ==
    /\ Reads(c) /\ Command(c)
    /\ IF BagIn(k, entries[c])
       THEN /\ chans' = [chans EXCEPT ![c] = @ \ {k}]
            /\ entries' = [entries EXCEPT ![c] = @ (-) SetToBag({k})]
            /\ pub' = Excused(c, {k})
       ELSE UNCHANGED <<chans, entries, pub>>
    /\ UNCHANGED <<up, members, conns, runner, open, todo>>

(* Without a name: all the channels go, or all the patterns.               *)
unsubscribeAll(c, ks) ==
    /\ Reads(c) /\ Command(c)
    /\ LET gone == ks \cap BagToSet(entries[c])
       IN  /\ chans' = [chans EXCEPT ![c] = @ \ gone]
           /\ entries' = [entries EXCEPT ![c] = [k \in DOMAIN @ \ gone |-> @[k]]]
           /\ pub' = Excused(c, gone)
    /\ UNCHANGED <<up, members, conns, runner, open, todo>>

(* QUIT, or the client goes away.                                          *)
quit(c) ==
    /\ open[c] /\ Home[c] \in up
    /\ open' = [open EXCEPT ![c] = FALSE]
    /\ pub' = Excused(c, chans[c])
    /\ UNCHANGED <<up, members, chans, conns, entries, runner, todo, left>>

(* A plausible slip: the connection is taken off, its channels are not.    *)
EndsQuietly(c) ==
    /\ ~open[c] /\ runner[c]
    /\ conns' = [conns EXCEPT ![c] = FALSE]
    /\ runner' = [runner EXCEPT ![c] = FALSE]
    /\ UNCHANGED <<up, members, chans, entries, open, todo, pub, left>>

(* bgrunner ends: a read failed.                                           *)
bgrunnerEnds(c) ==
    /\ ~open[c] /\ runner[c]
    /\ chans' = [chans EXCEPT ![c] = @ \ BagToSet(entries[c])]
    /\ conns' = [conns EXCEPT ![c] = FALSE]
    /\ entries' = [entries EXCEPT ![c] = EmptyBag]
    /\ runner' = [runner EXCEPT ![c] = FALSE]
    /\ UNCHANGED <<up, members, open, todo, pub, left>>

Crash(n) ==
    /\ Spend("crashes") /\ n \in up /\ up' = up \ {n}
    /\ LET Of(f, none) == [c \in Conn |-> IF Home[c] = n THEN none ELSE f[c]]
       IN  /\ chans' = Of(chans, {}) /\ conns' = Of(conns, FALSE)
           /\ entries' = Of(entries, EmptyBag) /\ runner' = Of(runner, FALSE)
           /\ open' = Of(open, FALSE) /\ todo' = Of(todo, <<>>)
    /\ pub' = IF pub.by = {n} THEN NoPublish
              ELSE [pub EXCEPT !.due = {d \in @ : Home[d[1]] # n}]
    /\ UNCHANGED members

NodeLeave(n) ==
    /\ n \in members \ up
    /\ members' = members \ {n}
    /\ UNCHANGED <<up, connVars, pub, left>>

-----------------------------------------------------------------------------
(* PubSub.Publish: one member's connections that have a channel or a       *)
(* pattern for the message, once for each.                                 *)
Publish(n, msg) ==
    {d \in Conn \X Keys : Home[d[1]] = n /\ d[2] \in chans[d[1]] /\ msg \in Matches[d[2]]}

(* publishToCluster: the member's own subscribers first,                   *)
publishToCluster(n, msg) ==
    /\ Spend("publishes")
    /\ pub.by = {} /\ n \in up
    /\ pub' = [NoPublish EXCEPT
                 !.by = {n}, !.on = msg, !.rest = members \ {n},
                 !.got = Publish(n, msg), !.total = Cardinality(Publish(n, msg)),
                 !.due = {d \in UNION {Publish(m, msg) : m \in members} : open[d[1]]}]
    /\ UNCHANGED <<up, members, connVars>>

(* then every other member; publishInternalCommandHandler delivers there.  *)
publishInternal(m) ==
    /\ m \in pub.rest \cap up
    /\ LET here == Publish(m, pub.on)
       IN  pub' = [pub EXCEPT !.rest = @ \ {m}, !.got = @ \cup here, !.total = @ + Cardinality(here)]
    /\ UNCHANGED <<up, members, connVars, left>>

(* A plausible slip: the first error ends it.                              *)
StopsAtError(m, here) == [pub EXCEPT !.rest = {}, !.failed = TRUE, !.got = @ \cup here]
Failed(m, here) ==
    [pub EXCEPT !.rest = @ \ {m}, !.failed = TRUE, !.got = @ \cup here]

(* A call that fails: the member is down, refuses, or its answer is lost.  *)
publishFails(m) ==
    /\ m \in pub.rest
    /\ \/ m \notin up /\ pub' = Failed(m, {}) /\ UNCHANGED left
       \/ m \in up /\ Spend("failures") /\ pub' = Failed(m, Publish(m, pub.on))
       \/ m \in up /\ Spend("failures")
          /\ pub' = [Failed(m, {}) EXCEPT !.due = {d \in @ : Home[d[1]] # m}]
    /\ UNCHANGED <<up, members, connVars>>

publishReturns ==
    /\ pub.by # {} /\ pub.rest = {}
    /\ pub' = NoPublish
    /\ UNCHANGED <<up, members, connVars, left>>

Serves(c) == subscribeCommandHandler(c) \/ bgrunnerEnds(c)
Next ==
    \/ \E c \in Conn, ks \in [1..2 -> Keys] : subscribeCommand(c, ks)
    \/ \E c \in Conn, k \in Keys : bgSubscribe(c, k) \/ unsubscribe(c, k)
    \/ \E c \in Conn : unsubscribeAll(c, Patterns) \/ unsubscribeAll(c, Keys \ Patterns)
    \/ \E c \in Conn : quit(c) \/ Serves(c)
    \/ \E n \in Member : Crash(n) \/ NodeLeave(n)
    \/ \E n \in Member, msg \in Messages : publishToCluster(n, msg)
    \/ \E n \in Member : publishInternal(n) \/ publishFails(n)
    \/ publishReturns

Spec == Init /\ [][Next]_vars

(* The goroutines of a member that runs go on.                             *)
FairSpec == Spec /\ \A c \in Conn : WF_vars(Serves(c))

-----------------------------------------------------------------------------
(* publishToCluster: when it returns, every subscription that was there    *)
(* all the while, on a member that answered, got the message, whoever else *)
(* failed; and without an error the total counts exactly those who got it. *)
PublishReaches ==
    [][pub.by # {} /\ pub'.by = {} /\ pub.by \subseteq up' =>
          pub.due \subseteq pub.got /\ (~pub.failed => pub.total = Cardinality(pub.got))]_vars

(* Nothing stays behind of a connection that ended, not even when it ends  *)
(* while SUBSCRIBE is still at work (bgrunner's deferred clean-up).        *)
SubscriptionsEnd ==
    \A c \in Conn : ~open[c] ~> (chans[c] = {} /\ ~conns[c] /\ todo[c] = <<>>)
=============================================================================
