---------------------------- MODULE PubSubProofs ----------------------------
(***************************************************************************)
(* A publish reaches everybody it is due to and counts them, for any       *)
(* members, connections, channels, crashes and failed calls.               *)
(***************************************************************************)
EXTENDS PubSub, FiniteSetTheorems, TLAPS

PubFields == {"by", "on", "rest", "got", "total", "failed", "due"}

Shape ==
    /\ DOMAIN chans = Conn /\ DOMAIN open = Conn /\ DOMAIN todo = Conn /\ DOMAIN runner = Conn
    /\ pub = [x \in PubFields |-> pub[x]]

\* Nothing is left of a connection to a member that crashed.
Down == \A c \in Conn : Home[c] \notin up => chans[c] = {} /\ todo[c] = <<>> /\ ~runner[c]

\* Whoever is due is still subscribed, and got the message or is to be asked.
Due(p) ==
    \A d \in p.due :
        /\ d \in Conn \X Keys
        /\ open[d[1]] /\ Home[d[1]] \in up
        /\ d[2] \in chans[d[1]] /\ p.on \in Matches[d[2]]
        /\ d \in p.got \/ Home[d[1]] \in p.rest

\* Nobody is counted twice: who got the message is not to be asked any more.
Counted(p) ==
    /\ p.got \subseteq Conn \X Keys
    /\ \A d \in p.got : Home[d[1]] \notin p.rest
    /\ ~p.failed => p.total = Cardinality(p.got)

PublishInv == Shape /\ Down /\ Due(pub) /\ Counted(pub)

-----------------------------------------------------------------------------
LEMMA PublishFinite == \A S \in SUBSET (Conn \X Keys) : IsFiniteSet(S)
<1>1. IsFiniteSet(Conn \X Keys)
  BY ConnAssumption, FS_Product
<1>2. QED
  BY <1>1, FS_Subset

LEMMA PublishInit == Init => PublishInv
<1> SUFFICES ASSUME Init PROVE PublishInv
  OBVIOUS
<1>1. Shape /\ Down
  BY DEF Init, Shape, Down, NoPublish, PubFields
<1>2. Due(pub) /\ Counted(pub)
  BY FS_EmptySet DEF Init, Due, Counted, NoPublish
<1>3. QED
  BY <1>1, <1>2 DEF PublishInv

\* A step of a connection: subscriptions come and go, the publish goes on but
\* for those who are excused.
ConnStep ==
    /\ up' = up /\ pub' = [pub EXCEPT !.due = pub'.due] /\ pub'.due \subseteq pub.due
    /\ \A d \in pub'.due : d[1] \in Conn =>
          (open[d[1]] => open'[d[1]]) /\ (d[2] \in chans[d[1]] => d[2] \in chans'[d[1]])

LEMMA ConnKeeps == PublishInv /\ ConnStep /\ Shape' /\ Down' => PublishInv'
<1> SUFFICES ASSUME PublishInv, ConnStep, Shape', Down' PROVE PublishInv'
  OBVIOUS
<1>1. /\ pub'.on = pub.on /\ pub'.rest = pub.rest /\ pub'.got = pub.got
      /\ pub'.total = pub.total /\ pub'.failed = pub.failed
  BY DEF PublishInv, Shape, PubFields, ConnStep
<1>2. Counted(pub)'
  BY <1>1 DEF PublishInv, Counted
<1>3. Due(pub)'
  <2> SUFFICES ASSUME NEW d \in pub'.due
               PROVE /\ d \in Conn \X Keys
                     /\ open'[d[1]] /\ Home[d[1]] \in up'
                     /\ d[2] \in chans'[d[1]] /\ pub'.on \in Matches[d[2]]
                     /\ d \in pub'.got \/ Home[d[1]] \in pub'.rest
    BY DEF Due
  <2>1. d \in pub.due
    BY DEF ConnStep
  <2>2. /\ d \in Conn \X Keys /\ d[1] \in Conn
        /\ open[d[1]] /\ Home[d[1]] \in up
        /\ d[2] \in chans[d[1]] /\ pub.on \in Matches[d[2]]
        /\ d \in pub.got \/ Home[d[1]] \in pub.rest
    BY <2>1 DEF PublishInv, Due
  <2>3. QED
    BY <1>1, <2>2 DEF ConnStep
<1>4. QED
  BY <1>2, <1>3 DEF PublishInv

LEMMA SubscribeKeeps ==
    ASSUME PublishInv, NEW c \in Conn, NEW k, subscribe(c, k), Home[c] \in up,
           UNCHANGED <<up, open, pub>>,
           todo' = todo \/ todo' = [todo EXCEPT ![c] = Tail(@)]
    PROVE  PublishInv'
<1>1. Shape' /\ Down'
  BY DEF PublishInv, Shape, Down, subscribe
<1>2. ConnStep
  BY DEF PublishInv, Shape, PubFields, ConnStep, subscribe
<1>3. QED
  BY <1>1, <1>2, ConnKeeps

LEMMA ConnectionKeeps ==
    ASSUME PublishInv, NEW c \in Conn,
           \/ \E ks : subscribeCommand(c, ks)
           \/ \E k \in Keys : bgSubscribe(c, k) \/ unsubscribe(c, k)
           \/ \E ks : unsubscribeAll(c, ks)
           \/ quit(c) \/ Serves(c)
    PROVE  PublishInv'
<1> USE DEF PublishInv
<1>0. Shape /\ Down /\ Due(pub)
  OBVIOUS
<1>1. CASE \E ks : subscribeCommand(c, ks)
  <2>1. Shape' /\ Down'
    BY <1>0, <1>1 DEF Shape, Down, subscribeCommand
  <2>2. ConnStep
    BY <1>0, <1>1 DEF Shape, PubFields, ConnStep, subscribeCommand
  <2>3. QED
    BY <2>1, <2>2, ConnKeeps
<1>2. CASE \E k \in Keys : bgSubscribe(c, k)
  <2>1. PICK k \in Keys : bgSubscribe(c, k)
    BY <1>2
  <2>2. Home[c] \in up
    BY <1>0, <2>1 DEF Down, bgSubscribe, Reads
  <2>3. QED
    BY <2>1, <2>2, SubscribeKeeps DEF bgSubscribe
<1>3. CASE \E k \in Keys : unsubscribe(c, k)
  <2>1. PICK k \in Keys : unsubscribe(c, k)
    BY <1>3
  <2>2. Shape' /\ Down'
    BY <1>0, <2>1 DEF Shape, PubFields, Down, unsubscribe, Excused
  <2>3. ConnStep
    <3>1. CASE UNCHANGED <<chans, entries, pub>>
      BY <1>0, <2>1, <3>1 DEF Shape, PubFields, ConnStep, unsubscribe
    <3>2. CASE chans' = [chans EXCEPT ![c] = @ \ {k}] /\ pub' = Excused(c, {k})
      <4>1. pub'.due = pub.due \ ({c} \X {k}) /\ pub' = [pub EXCEPT !.due = pub'.due]
        BY <1>0, <3>2 DEF Shape, PubFields, Excused
      <4>2. \A d \in pub'.due : d \in Conn \X Keys /\ (d[1] = c => d[2] # k)
        BY <1>0, <4>1 DEF Due
      <4>3. QED
        BY <1>0, <2>1, <3>2, <4>1, <4>2 DEF Shape, ConnStep, unsubscribe
    <3>3. QED
      BY <2>1, <3>1, <3>2 DEF unsubscribe
  <2>4. QED
    BY <2>2, <2>3, ConnKeeps
<1>4. CASE \E ks : unsubscribeAll(c, ks)
  <2>1. PICK ks : unsubscribeAll(c, ks)
    BY <1>4
  <2> DEFINE gone == ks \cap BagToSet(entries[c])
  <2>2. chans' = [chans EXCEPT ![c] = @ \ gone] /\ pub' = Excused(c, gone)
        /\ UNCHANGED <<up, open, todo, runner>>
    BY <2>1 DEF unsubscribeAll
  <2> HIDE DEF gone
  <2>3. Shape' /\ Down'
    BY <1>0, <2>2 DEF Shape, PubFields, Down, Excused
  <2>4. pub'.due = pub.due \ ({c} \X gone) /\ pub' = [pub EXCEPT !.due = pub'.due]
    BY <1>0, <2>2 DEF Shape, PubFields, Excused
  <2>5. \A d \in pub'.due : d \in Conn \X Keys /\ (d[1] = c => d[2] \notin gone)
    BY <1>0, <2>4 DEF Due
  <2>6. ConnStep
    BY <1>0, <2>2, <2>4, <2>5 DEF Shape, ConnStep
  <2>7. QED
    BY <2>3, <2>6, ConnKeeps
<1>5. CASE quit(c)
  <2>1. Shape' /\ Down'
    BY <1>0, <1>5 DEF Shape, PubFields, Down, Excused, quit
  <2>2. pub'.due = pub.due \ ({c} \X chans[c]) /\ pub' = [pub EXCEPT !.due = pub'.due]
    BY <1>0, <1>5 DEF Shape, PubFields, Excused, quit
  <2>3. \A d \in pub'.due : d \in Conn \X Keys /\ d[1] # c
    BY <1>0, <2>2 DEF Due
  <2>4. ConnStep
    BY <1>0, <1>5, <2>2, <2>3 DEF Shape, ConnStep, quit
  <2>5. QED
    BY <2>1, <2>4, ConnKeeps
<1>6. CASE subscribeCommandHandler(c)
  <2>1. Home[c] \in up
    BY <1>0, <1>6 DEF Down, subscribeCommandHandler
  <2>2. QED
    BY <1>6, <2>1, SubscribeKeeps DEF subscribeCommandHandler
<1>7. CASE bgrunnerEnds(c)
  <2> DEFINE gone == BagToSet(entries[c])
  <2>1. /\ ~open[c] /\ chans' = [chans EXCEPT ![c] = @ \ gone]
        /\ runner' = [runner EXCEPT ![c] = FALSE]
        /\ UNCHANGED <<up, open, todo, pub>>
    BY <1>7 DEF bgrunnerEnds
  <2> HIDE DEF gone
  <2>2. Shape' /\ Down'
    BY <1>0, <2>1 DEF Shape, PubFields, Down
  <2>3. \A d \in pub.due : d[1] # c
    BY <1>0, <2>1 DEF Due
  <2>4. ConnStep
    BY <1>0, <2>1, <2>3 DEF Shape, PubFields, ConnStep
  <2>5. QED
    BY <2>2, <2>4, ConnKeeps
<1>8. QED
  BY <1>1, <1>2, <1>3, <1>4, <1>5, <1>6, <1>7 DEF Serves

-----------------------------------------------------------------------------
LEMMA CrashKeeps == ASSUME PublishInv, NEW n \in Member, Crash(n) PROVE PublishInv'
<1> USE DEF PublishInv
<1>1. Shape'
  BY DEF Shape, PubFields, Crash, NoPublish
<1>2. Down'
  BY DEF Shape, Down, Crash
<1>3. CASE pub.by = {n}
  BY <1>1, <1>2, <1>3, FS_EmptySet DEF Crash, NoPublish, Due, Counted
<1>4. CASE pub.by # {n}
  <2>1. /\ pub'.on = pub.on /\ pub'.rest = pub.rest /\ pub'.got = pub.got
        /\ pub'.total = pub.total /\ pub'.failed = pub.failed
        /\ pub'.due = {d \in pub.due : Home[d[1]] # n}
    BY <1>4 DEF Shape, PubFields, Crash
  <2>2. Counted(pub)'
    BY <2>1 DEF Counted
  <2>3. Due(pub)'
    BY <2>1 DEF Due, Shape, Crash
  <2>4. QED
    BY <1>1, <1>2, <2>2, <2>3
<1>5. QED
  BY <1>3, <1>4

\* A step of the publish leaves the connections as they are.
LEMMA PubShape ==
    ASSUME PublishInv, UNCHANGED <<up, connVars>>, pub' = [x \in PubFields |-> pub'[x]]
    PROVE  Shape' /\ Down'
  BY DEF PublishInv, Shape, Down, connVars

LEMMA StartKeeps ==
    ASSUME PublishInv, NEW n \in Member, NEW msg \in Messages, publishToCluster(n, msg)
    PROVE  PublishInv'
<1> USE DEF PublishInv
<1> DEFINE here == Publish(n, msg)
<1>1. /\ pub' = [x \in PubFields |-> pub'[x]]
      /\ pub'.on = msg /\ pub'.rest = members \ {n} /\ pub'.got = here
      /\ pub'.total = Cardinality(here)
      /\ pub'.due = {d \in UNION {Publish(m, msg) : m \in members} : open[d[1]]}
  BY DEF publishToCluster, NoPublish, PubFields
<1>2. Shape' /\ Down'
  BY <1>1, PubShape DEF publishToCluster
<1>3. here \subseteq Conn \X Keys /\ \A d \in here : Home[d[1]] = n
  BY DEF Publish
<1>4. Counted(pub)'
  BY <1>1, <1>3 DEF Counted
<1>5. Due(pub)'
  <2> SUFFICES ASSUME NEW d \in pub'.due
               PROVE /\ d \in Conn \X Keys
                     /\ open'[d[1]] /\ Home[d[1]] \in up'
                     /\ d[2] \in chans'[d[1]] /\ pub'.on \in Matches[d[2]]
                     /\ d \in pub'.got \/ Home[d[1]] \in pub'.rest
    BY DEF Due
  <2>1. PICK m \in members : d \in Publish(m, msg)
    BY <1>1
  <2>2. /\ d \in Conn \X Keys /\ d[1] \in Conn /\ open[d[1]] /\ Home[d[1]] = m
        /\ d[2] \in chans[d[1]] /\ msg \in Matches[d[2]]
    BY <1>1, <2>1 DEF Publish
  <2>3. Home[d[1]] \in up
    BY <2>2 DEF Down
  <2>4. d \in here \/ m \in members \ {n}
    BY <2>1
  <2>5. QED
    BY <1>1, <2>2, <2>3, <2>4 DEF publishToCluster, connVars
<1>6. QED
  BY <1>2, <1>4, <1>5

\* What one member's connections get is new, and counts.
LEMMA HereCounts ==
    ASSUME PublishInv, NEW m \in pub.rest
    PROVE  /\ Publish(m, pub.on) \subseteq Conn \X Keys
           /\ \A d \in Publish(m, pub.on) : Home[d[1]] = m
           /\ ~pub.failed => pub.total + Cardinality(Publish(m, pub.on))
                               = Cardinality(pub.got \cup Publish(m, pub.on))
<1> DEFINE here == Publish(m, pub.on)
<1>1. here \subseteq Conn \X Keys /\ \A d \in here : Home[d[1]] = m
  BY DEF Publish
<1> HIDE DEF here
<1>2. IsFiniteSet(here) /\ IsFiniteSet(pub.got) /\ pub.got \cap here = {}
  BY <1>1, PublishFinite DEF PublishInv, Counted
<1>3. Cardinality(pub.got \cup here) = Cardinality(pub.got) + Cardinality(here)
  <2>1. Cardinality(pub.got \cup here)
          = Cardinality(pub.got) + Cardinality(here) - Cardinality(pub.got \cap here)
    BY <1>2, FS_Union
  <2>2. Cardinality(pub.got \cap here) = 0
    BY <1>2, FS_EmptySet
  <2>3. Cardinality(pub.got) \in Nat /\ Cardinality(here) \in Nat
    BY <1>2, FS_CardinalityType
  <2>4. QED
    BY <2>1, <2>2, <2>3
<1>4. QED
  BY <1>1, <1>3 DEF PublishInv, Counted, here

LEMMA AskedKeeps ==
    ASSUME PublishInv, NEW m \in pub.rest, UNCHANGED <<up, connVars>>,
           pub' = [x \in PubFields |-> pub'[x]],
           pub'.on = pub.on, pub'.rest = pub.rest \ {m},
           \/ pub'.got = pub.got \cup Publish(m, pub.on) /\ pub'.due = pub.due
           \/ /\ pub'.got = pub.got \cup {} /\ pub'.due \subseteq pub.due
              /\ \A d \in pub'.due : Home[d[1]] # m,
           ~pub'.failed => /\ ~pub.failed /\ pub'.got = pub.got \cup Publish(m, pub.on)
                           /\ pub'.total = pub.total + Cardinality(Publish(m, pub.on))
    PROVE  PublishInv'
<1> USE DEF PublishInv
<1> DEFINE here == Publish(m, pub.on)
<1>1. /\ here \subseteq Conn \X Keys /\ \A d \in here : Home[d[1]] = m
      /\ ~pub.failed => pub.total + Cardinality(here) = Cardinality(pub.got \cup here)
  BY HereCounts
<1>2. Shape' /\ Down'
  BY PubShape
<1>3. Counted(pub)'
  <2>1. pub'.got \subseteq pub.got \cup here
    OBVIOUS
  <2> HIDE DEF here
  <2>2. pub'.got \subseteq Conn \X Keys /\ \A d \in pub'.got : Home[d[1]] \notin pub'.rest
    BY <1>1, <2>1 DEF Counted
  <2>3. ~pub'.failed => pub'.total = Cardinality(pub'.got)
    BY <1>1 DEF here
  <2>4. QED
    BY <2>2, <2>3 DEF Counted
<1>4. Due(pub)'
  <2> SUFFICES ASSUME NEW d \in pub'.due
               PROVE /\ d \in Conn \X Keys
                     /\ open'[d[1]] /\ Home[d[1]] \in up'
                     /\ d[2] \in chans'[d[1]] /\ pub'.on \in Matches[d[2]]
                     /\ d \in pub'.got \/ Home[d[1]] \in pub'.rest
    BY DEF Due
  <2>1. d \in pub.due
    OBVIOUS
  <2>2. /\ d \in Conn \X Keys /\ open[d[1]] /\ Home[d[1]] \in up
        /\ d[2] \in chans[d[1]] /\ pub.on \in Matches[d[2]]
        /\ d \in pub.got \/ Home[d[1]] \in pub.rest
    BY <2>1 DEF Due
  <2>3. Home[d[1]] = m => d \in here
    BY <2>2 DEF Publish
  <2>4. d \in pub'.got \/ Home[d[1]] \in pub'.rest
    BY <2>2, <2>3
  <2>5. QED
    BY <2>2, <2>4 DEF connVars
<1>5. QED
  BY <1>2, <1>3, <1>4

LEMMA FailsKeeps == ASSUME PublishInv, NEW m \in Member, publishFails(m) PROVE PublishInv'
<1>1. /\ m \in pub.rest /\ UNCHANGED <<up, connVars>>
      /\ pub = [x \in PubFields |-> pub[x]]
  BY DEF PublishInv, Shape, publishFails
<1>2. CASE m \notin up /\ pub' = Failed(m, {})
  <2>1. \A d \in pub.due : Home[d[1]] # m
    BY <1>2 DEF PublishInv, Due
  <2>2. QED
    BY <1>1, <1>2, <2>1, AskedKeeps DEF Failed, PubFields
<1>3. CASE pub' = Failed(m, Publish(m, pub.on))
  <2> DEFINE here == Publish(m, pub.on)
  <2>1. pub' = Failed(m, here)
    BY <1>3
  <2> HIDE DEF here
  <2>2. /\ pub' = [x \in PubFields |-> pub'[x]] /\ pub'.on = pub.on /\ pub'.rest = pub.rest \ {m}
        /\ pub'.got = pub.got \cup here /\ pub'.due = pub.due /\ pub'.failed
    BY <1>1, <2>1 DEF Failed, PubFields
  <2>3. QED
    BY <1>1, <2>2, AskedKeeps DEF here
<1>4. CASE pub' = [Failed(m, {}) EXCEPT !.due = {d \in @ : Home[d[1]] # m}]
  <2>1. /\ pub' = [x \in PubFields |-> pub'[x]] /\ pub'.on = pub.on /\ pub'.rest = pub.rest \ {m}
        /\ pub'.got = pub.got \cup {} /\ pub'.failed
        /\ pub'.due = {d \in pub.due : Home[d[1]] # m}
    BY <1>1, <1>4 DEF Failed, PubFields
  <2>2. QED
    BY <1>1, <2>1, AskedKeeps
<1>5. QED
  BY <1>2, <1>3, <1>4 DEF publishFails

LEMMA InternalKeeps == ASSUME PublishInv, NEW m \in Member, publishInternal(m) PROVE PublishInv'
<1> DEFINE here == Publish(m, pub.on)
<1>1. /\ m \in pub.rest /\ UNCHANGED <<up, connVars>>
      /\ pub = [x \in PubFields |-> pub[x]]
      /\ pub' = [pub EXCEPT !.rest = @ \ {m}, !.got = @ \cup here, !.total = @ + Cardinality(here)]
  BY DEF PublishInv, Shape, publishInternal
<1> HIDE DEF here
<1>2. /\ pub' = [x \in PubFields |-> pub'[x]] /\ pub'.on = pub.on /\ pub'.rest = pub.rest \ {m}
      /\ pub'.got = pub.got \cup here /\ pub'.due = pub.due /\ pub'.failed = pub.failed
      /\ pub'.total = pub.total + Cardinality(here)
  BY <1>1 DEF PubFields
<1>3. QED
  BY <1>1, <1>2, AskedKeeps DEF here

LEMMA ReturnsKeeps == PublishInv /\ publishReturns => PublishInv'
<1> SUFFICES ASSUME PublishInv, publishReturns PROVE PublishInv'
  OBVIOUS
<1>1. Shape' /\ Down'
  BY PubShape DEF publishReturns, NoPublish, PubFields
<1>2. Due(pub)' /\ Counted(pub)'
  BY FS_EmptySet DEF publishReturns, NoPublish, Due, Counted
<1>3. QED
  BY <1>1, <1>2 DEF PublishInv

LEMMA PublishStep == PublishInv /\ [Next]_vars => PublishInv'
<1> SUFFICES ASSUME PublishInv, [Next]_vars PROVE PublishInv'
  OBVIOUS
<1>1. CASE \E c \in Conn, ks \in [1..2 -> Keys] : subscribeCommand(c, ks)
  BY <1>1, ConnectionKeeps
<1>2. CASE \E c \in Conn, k \in Keys : bgSubscribe(c, k) \/ unsubscribe(c, k)
  BY <1>2, ConnectionKeeps
<1>3. CASE \E c \in Conn : unsubscribeAll(c, Patterns) \/ unsubscribeAll(c, Keys \ Patterns)
  BY <1>3, ConnectionKeeps
<1>4. CASE \E c \in Conn : quit(c) \/ Serves(c)
  BY <1>4, ConnectionKeeps
<1>5. CASE \E n \in Member : Crash(n)
  BY <1>5, CrashKeeps
<1>6. CASE \E n \in Member : NodeLeave(n)
  BY <1>6 DEF PublishInv, Shape, Down, Due, Counted, NodeLeave, connVars
<1>7. CASE \E n \in Member, msg \in Messages : publishToCluster(n, msg)
  BY <1>7, StartKeeps
<1>8. CASE \E n \in Member : publishInternal(n) \/ publishFails(n)
  BY <1>8, InternalKeeps, FailsKeeps
<1>9. CASE publishReturns
  BY <1>9, ReturnsKeeps
<1>10. CASE UNCHANGED vars
  BY <1>10 DEF PublishInv, Shape, Down, Due, Counted, vars, connVars
<1>11. QED
  BY <1>1, <1>2, <1>3, <1>4, <1>5, <1>6, <1>7, <1>8, <1>9, <1>10 DEF Next

\* PubSub's bookkeeping of a publish (publishToCluster, PubSub.Publish): in
\* every reachable state whoever is due got the message or sits on a member
\* still to be asked, and nobody is counted twice.
THEOREM PublishInvariant == Spec => []PublishInv
<1>1. QED
  BY PublishInit, PublishStep, PTL DEF Spec

\* Only the return ends a publish, or the crash of the member that publishes.
LEMMA PublishEnds ==
    ASSUME PublishInv, Next, pub.by # {}, pub'.by = {}
    PROVE  publishReturns \/ \E n \in Member : pub.by = {n} /\ n \notin up'
<1>0. pub = [x \in PubFields |-> pub[x]]
  BY DEF PublishInv, Shape
<1>1. CASE \E c \in Conn, ks \in [1..2 -> Keys] : subscribeCommand(c, ks)
  BY <1>1 DEF subscribeCommand
<1>2. CASE \E c \in Conn, k \in Keys : bgSubscribe(c, k) \/ unsubscribe(c, k)
  BY <1>0, <1>2 DEF bgSubscribe, unsubscribe, Excused, PubFields
<1>3. CASE \E c \in Conn : unsubscribeAll(c, Patterns) \/ unsubscribeAll(c, Keys \ Patterns)
  BY <1>0, <1>3 DEF unsubscribeAll, Excused, PubFields
<1>4. CASE \E c \in Conn : quit(c) \/ Serves(c)
  BY <1>0, <1>4 DEF quit, Serves, subscribeCommandHandler, bgrunnerEnds, Excused, PubFields
<1>5. CASE \E n \in Member : Crash(n)
  BY <1>0, <1>5 DEF Crash, PubFields
<1>6. CASE \E n \in Member : NodeLeave(n)
  BY <1>6 DEF NodeLeave
<1>7. CASE \E n \in Member, msg \in Messages : publishToCluster(n, msg)
  BY <1>7 DEF publishToCluster
<1>8. CASE \E n \in Member : publishInternal(n)
  BY <1>0, <1>8 DEF publishInternal, PubFields
<1>9. CASE \E n \in Member : publishFails(n)
  BY <1>0, <1>9 DEF publishFails, Failed, PubFields
<1>10. CASE publishReturns
  BY <1>10
<1>11. QED
  BY <1>1, <1>2, <1>3, <1>4, <1>5, <1>6, <1>7, <1>8, <1>9, <1>10 DEF Next

\* publishToCluster: for any number of members, connections and channels, and
\* whatever crashes, fails or unsubscribes meanwhile, a publish that returns
\* reached every subscription that lasted on a member that answered, and its
\* total without an error is the number of those who got it.
THEOREM PublishReachesHolds == Spec => PublishReaches
<1> DEFINE Reached == pub.by # {} /\ pub'.by = {} /\ pub.by \subseteq up' =>
                        pub.due \subseteq pub.got /\ (~pub.failed => pub.total = Cardinality(pub.got))
<1>1. PublishInv /\ [Next]_vars => [Reached]_vars
  <2> SUFFICES ASSUME PublishInv, Next, pub.by # {}, pub'.by = {}, pub.by \subseteq up'
               PROVE pub.due \subseteq pub.got /\ (~pub.failed => pub.total = Cardinality(pub.got))
    OBVIOUS
  <2>1. publishReturns
    BY PublishEnds
  <2>2. QED
    BY <2>1 DEF publishReturns, PublishInv, Due, Counted
<1>2. QED
  BY <1>1, PublishInvariant, PTL DEF Spec, PublishReaches
=============================================================================
