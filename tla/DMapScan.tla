------------------------------ MODULE DMapScan ------------------------------
(***************************************************************************)
(* ClusterIterator and EmbeddedIterator: a client reads the keys of the    *)
(* partition page by page from every owner and every backup of its table,  *)
(* while entries move and owners die.  Partitions are read one after the   *)
(* other; this is one of them.                                             *)
(*                                                                         *)
(* The iterator keeps the owners of the table (routingTable) and those     *)
(* still to be read (route).  The second list starts as a slice of the     *)
(* array of the first: taking an owner off it shifts the others in both,   *)
(* and leaves the length of the first, until the table is fetched anew.    *)
(* A cursor is the set of keys read so far; that pages of one fragment are *)
(* complete is KVStore's ScanComplete.                                     *)
(***************************************************************************)
EXTENDS DMap, SequencesExt

VARIABLE it  \* the iterator, in the deployments that have one (conf.scan)

svars == <<vars, it>>

Listed(kind) == IF kind = "primary" THEN Append(conf.prevs, Owner) ELSE conf.backups
AllListed == [kind \in Kind |-> Listed(kind)]
ListedPlaces == {<<m, kind>> \in Place : m \in Range(Listed(kind))}
HeldCopies == {<<q, k>> \in ListedPlaces \X Key : q[1] \in up /\ Held(q, k) # None}

NoScan ==
    [on |-> FALSE, end |-> "no",   \* whether it runs, and how it ended
     table |-> [kind \in Kind |-> <<>>], route |-> [kind \in Kind |-> <<>>],
     shared |-> TRUE,              \* whether the two share their arrays
     kind |-> "primary", owners |-> <<>>, idx |-> 1,  \* the pass under way
     cursors |-> [q \in Place |-> {}],
     seen |-> {},                  \* partitionKeys
     page |-> FALSE,               \* whether the page got a key
     unreachable |-> {}, refreshed |-> FALSE,
     due |-> {}]                   \* history: the copies at the start

SInit == Init /\ it = NoScan

Pass(x, kind) == [x EXCEPT !.kind = kind, !.owners = x.table[kind], !.idx = 1]

loadRoute(x) == [x EXCEPT !.route = x.table]

Scan ==
    /\ conf.scan /\ it = NoScan
    /\ it' = Pass(loadRoute([NoScan EXCEPT !.on = TRUE, !.table = AllListed,
                                           !.due = HeldCopies]), "primary")
    /\ UNCHANGED vars

(* The fetch of the table, every second; the first one ends the sharing,   *)
(* and those after it change nothing.                                      *)
fetchRoutingTable ==
    /\ it.on /\ ~it.refreshed
    /\ it' = [it EXCEPT !.table = AllListed, !.shared = FALSE, !.refreshed = TRUE]
    /\ UNCHANGED vars

removeScannedOwner(x, i) ==
    LET kept == RemoveAt(x.route[x.kind], i)
    IN  IF i > Len(x.route[x.kind]) THEN x
        ELSE [x EXCEPT !.route[x.kind] = kept,
                       !.table[x.kind] = [j \in DOMAIN @ |-> IF x.shared /\ j \in DOMAIN kept
                                                             THEN kept[j] ELSE @[j]]]

Scanning == it.on /\ it.idx <= Len(it.owners)
Here(x) == <<x.owners[x.idx], x.kind>>
Onward(x) == [x EXCEPT !.idx = @ + 1]

(* A plausible slip: an owner that cannot be reached ends the scan.        *)
EndsSilently(x) == [x EXCEPT !.on = FALSE, !.end = "done"]

markUnreachable(x) ==
    Onward(removeScannedOwner([x EXCEPT !.unreachable = @ \cup {x.owners[x.idx]}], x.idx))

(* The next owner is dead, or was when it was asked last.  An embedded     *)
(* member that knows of the death does not dial, nor mark the owner.       *)
skipOwner ==
    /\ Scanning
    /\ LET m == it.owners[it.idx] IN m \notin up \/ m \in it.unreachable
    /\ it' = markUnreachable(it)
    /\ UNCHANGED vars

(* DMap.Scan on the owner: a page of one key; the cursor is 0 at the end.  *)
scanOnFragment(q, read) ==
    LET rest == IF part[q] = 0 THEN {} ELSE Has(At(q)) \ read
    IN  IF rest = {} THEN {[keys |-> {}, last |-> TRUE]}
        ELSE {[keys |-> {k}, last |-> rest = {k}] : k \in rest}

updateIterator(x, r) ==
    [x EXCEPT !.page = @ \/ ~(r.keys \subseteq x.seen),
              !.seen = @ \cup r.keys,
              !.cursors[Here(x)] = IF r.last THEN {} ELSE @ \cup r.keys]

scanOnOwners ==
    /\ Scanning
    /\ it.owners[it.idx] \in up \ it.unreachable
    /\ part[Here(it)] # 0 => At(Here(it)) \notin frozen
    /\ \E r \in scanOnFragment(Here(it), it.cursors[Here(it)]) :
          LET x == updateIterator(it, r)
          IN  it' = Onward(IF r.last THEN removeScannedOwner(x, it.idx) ELSE x)
    /\ UNCHANGED vars

(* Any other error ends the iteration.                                     *)
scanFails ==
    /\ Scanning
    /\ it' = [it EXCEPT !.on = FALSE, !.end = "error"]
    /\ UNCHANGED vars

(* fetchData reads the owners, then the backups.  A page goes to the       *)
(* caller; without one the iteration of the partition ends when nobody is  *)
(* left on the route.                                                      *)
next ==
    /\ it.on /\ ~Scanning
    /\ it' = IF it.kind = "primary" THEN Pass(it, "backup")
             ELSE IF ~it.page /\ \A kind \in Kind : it.route[kind] = <<>>
             THEN [it EXCEPT !.on = FALSE, !.end = "done"]
             ELSE Pass([it EXCEPT !.page = FALSE], "primary")
    /\ UNCHANGED vars

Iterates == skipOwner \/ scanOnOwners \/ scanFails \/ next

SNext ==
    \/ Next /\ UNCHANGED it
    \/ Scan \/ fetchRoutingTable \/ Iterates

SSpec == SInit /\ [][SNext]_svars

(* fetchRoutingTablePeriodically runs beside the iteration.                *)
SFairSpec == SSpec /\ Fairness /\ WF_svars(Iterates) /\ WF_svars(fetchRoutingTable)

-----------------------------------------------------------------------------
(* An iteration that ends without an error has returned every key that one *)
(* owner or backup held from its beginning to its end, although the others *)
(* died under it or handed their entries on, which shifts the owners that  *)
(* are left to read; as long as the table was not fetched anew, which puts *)
(* owners that were read back on the list.                                 *)
IterationComplete ==
    it.end = "done" /\ ~it.refreshed => \A x \in it.due \cap HeldCopies : x[2] \in it.seen

(* Every operation ends, and so does every iteration.  The iteration needs *)
(* the periodic fetch for it: the sharing can leave an owner listed twice, *)
(* read to its end only at the second place, which is past the route.      *)
EverythingEnds == OperationsEnd /\ (it.on ~> ~it.on)
=============================================================================
