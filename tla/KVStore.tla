------------------------------- MODULE KVStore -------------------------------
(***************************************************************************)
(* internal/kvstore: the storage engine of a fragment.  Entries are        *)
(* appended to the newest of a list of tables of fixed size; a delete or   *)
(* an overwrite leaves garbage behind; Compaction moves what is left of a  *)
(* wasteful table to the newest one and recycles it.  Tables carry         *)
(* coefficients, by which the cursor of a scan finds them again.           *)
(*                                                                         *)
(* Every operation runs under the lock of the fragment, so it is one step. *)
(* A scan and a copy to another member (fragment.Replicate) are many       *)
(* operations, with anything in between.                                   *)
(***************************************************************************)
EXTENDS Integers, Sequences, FiniteSets, SequencesExt

CONSTANTS
    Keys, Vals, Ttls,
    None,           \* no entry
    Sizes,          \* the sizes of entries, their metadata included
    TableSize,      \* Table.allocated
    MaxEvict,       \* evictTable goes on while it moved at most so many entries
    Counts,         \* how many entries a step of a scan may return
    MaxCoefficient, \* bound on the tables writes may ask for
    MovesCompacted  \* whether a compacted store may be moved away

ASSUME SizesAssumption ==
    /\ TableSize \in Nat \ {0}
    /\ Sizes \subseteq 1..(TableSize - 1)
    /\ MaxEvict \in Nat
    /\ Counts \subseteq Nat \ {0}
    /\ MaxCoefficient \in Nat
    /\ MovesCompacted \in BOOLEAN

VARIABLES
    tables,      \* KVStore.tables
    coefficient, \* KVStore.coefficient
    handed,      \* what the last operation handed over
    iter,        \* the scan or the copy under way
    compacted    \* history: a table was recycled

vars == <<tables, coefficient, handed, iter, compacted>>
-----------------------------------------------------------------------------
(* A table: hkeys maps a key to the offset of its entry, index holds the    *)
(* offsets of live entries, memory the entry at an offset.  The model       *)
(* erases garbage, which is never read again.  registered tells whether     *)
(* tablesByCoefficient finds the table under its coefficient, recycledAt    *)
(* orders the recycled tables by time; for others it is 0.                  *)
Offsets == 0..(TableSize - 1)
NoOffset == TableSize
Entries == [key : Keys, val : Vals, ttl : Ttls, size : Sizes]
States == {"ReadWrite", "ReadOnly", "Recycled"}
Tables == [cf : Nat, registered : BOOLEAN, state : States, offset : Offsets, inuse : Offsets,
           garbage : Offsets, hkeys : [Keys -> Offsets \cup {NoOffset}], index : SUBSET Offsets,
           memory : [Offsets -> Entries \cup {None}], recycledAt : Nat]

NewTable(cf) ==
    [cf |-> cf, registered |-> TRUE, state |-> "ReadWrite", offset |-> 0, inuse |-> 0,
     garbage |-> 0, hkeys |-> [k \in Keys |-> NoOffset], index |-> {},
     memory |-> [o \in Offsets |-> None], recycledAt |-> 0]

Has(t, k) == t.hkeys[k] # NoOffset
EntryOf(t, k) == t.memory[t.hkeys[k]]
KeysOf(t) == {k \in Keys : Has(t, k)}

\* Room in a table, which is never filled to the last byte; a plausible slip: it
\* is.
FitsExactly(t, e) == t.offset + e.size <= TableSize
Fits(t, e) == t.offset + e.size < TableSize

\* A plausible slip: the garbage is not accounted; and Table.Delete.
WithoutKept(t, k) ==
    IF ~Has(t, k) THEN t
    ELSE [t EXCEPT !.hkeys[k] = NoOffset, !.inuse = @ - EntryOf(t, k).size,
                   !.index = @ \ {t.hkeys[k]}, !.memory[t.hkeys[k]] = None]
Without(t, k) ==
    IF ~Has(t, k) THEN t
    ELSE [t EXCEPT !.hkeys[k] = NoOffset, !.inuse = @ - EntryOf(t, k).size,
                   !.garbage = @ + EntryOf(t, k).size,
                   !.index = @ \ {t.hkeys[k]}, !.memory[t.hkeys[k]] = None]

\* Table.Put and Table.PutRaw, once there is room.
With(t, e) ==
    LET d == Without(t, e.key)
    IN  [d EXCEPT !.hkeys[e.key] = d.offset, !.memory[d.offset] = e,
                  !.index = @ \cup {d.offset}, !.inuse = @ + e.size, !.offset = @ + e.size]

\* Table.Reset at a time: the coefficient is gone too.
Reset(t, now) ==
    [t EXCEPT !.state = "Recycled", !.hkeys = [k \in Keys |-> NoOffset], !.offset = 0,
              !.inuse = 0, !.garbage = 0, !.cf = 0, !.registered = FALSE, !.recycledAt = now]
-----------------------------------------------------------------------------
(* A store: its tables, the next coefficient, and the position of the      *)
(* table that is being evicted, if any, which moves with the table.        *)

\* delete(tablesByCoefficient, cf): whoever is registered there.
Unregister(ts, cf) ==
    [i \in DOMAIN ts |-> IF ts[i].cf = cf THEN [ts[i] EXCEPT !.registered = FALSE] ELSE ts[i]]

RecycledIn(ts) == {i \in DOMAIN ts : ts[i].state = "Recycled"}

\* makeTable: the head is closed, a recycled table is taken first.
MakeTable(s) ==
    LET n == Len(s.tables)
        closed == IF n = 0 THEN s.tables ELSE [s.tables EXCEPT ![n].state = "ReadOnly"]
        i == Min(RecycledIn(closed))
    IN  IF RecycledIn(closed) = {}
        THEN [s EXCEPT !.tables = Append(closed, NewTable(s.next)), !.next = @ + 1]
        ELSE [tables |-> Append(RemoveAt(closed, i),
                                [closed[i] EXCEPT !.cf = s.next, !.registered = TRUE,
                                                  !.state = "ReadWrite",
                                                  !.recycledAt = 0]),
              next |-> s.next + 1,
              evicted |-> IF i < s.evicted THEN s.evicted - 1 ELSE s.evicted]

\* The loop of Put and PutRaw: an entry that fits no table that is in use
\* fits a fresh one.
Room(s, e) ==
    IF s.tables # <<>> /\ Fits(Last(s.tables), e) THEN s ELSE MakeTable(s)

\* Plausible slips: older versions stay; and Put, PutRaw with
\* deleteFromOlderTables.
StoredKeepsOlder(s, e) ==
    LET r == Room(s, e) IN [r EXCEPT !.tables[Len(r.tables)] = With(@, e)]
Stored(s, e) ==
    LET r == Room(s, e)
    IN  [r EXCEPT !.tables = [i \in DOMAIN r.tables |->
            IF i = Len(r.tables) THEN With(r.tables[i], e) ELSE Without(r.tables[i], e.key)]]

Store == [tables |-> tables, next |-> coefficient, evicted |-> 0]

\* Get, GetRaw, GetTTL, Check: the newest table that has the key.
Holders(ts, k) == {i \in DOMAIN ts : Has(ts[i], k)}
Found(ts, k) ==
    IF Holders(ts, k) = {} THEN None
    ELSE LET e == EntryOf(ts[Max(Holders(ts, k))], k) IN [val |-> e.val, ttl |-> e.ttl]
Present(ts) == {k \in Keys : Holders(ts, k) # {}}
Nothing == [k \in Keys |-> None]
-----------------------------------------------------------------------------
NoIter ==
    [kind |-> "none", pos |-> 0, seen |-> {}, must |-> {}, shifted |-> FALSE, over |-> FALSE]

TypeOK ==
    /\ tables \in Seq(Tables)
    /\ coefficient \in Nat
    /\ handed \in [Keys -> [val : Vals, ttl : Ttls] \cup {None}]
    /\ iter \in [kind : {"none", "scan", "copy"}, pos : Nat, seen : SUBSET Keys,
                 must : SUBSET Keys, shifted : BOOLEAN, over : BOOLEAN]
    /\ compacted \in BOOLEAN

\* Fork: a store starts with one table.
Init ==
    /\ tables = <<NewTable(0)>>
    /\ coefficient = 1
    /\ handed = Nothing
    /\ iter = NoIter
    /\ compacted = FALSE

\* A live table changes its position between ts and us.
Shifts(ts, us) ==
    \/ Len(us) < Len(ts)
    \/ \E i \in DOMAIN ts : us[i].cf # ts[i].cf /\ us[i].state # "Recycled"

\* The operation leaves store s.  The keys an iteration has to meet are those
\* that were there all the time.
Leaves(s) ==
    /\ tables' = s.tables
    /\ coefficient' = s.next
    /\ iter' = IF iter.kind = "none" \/ iter.over THEN iter
               ELSE [iter EXCEPT !.must = @ \cap Present(s.tables),
                                 !.shifted = @ \/ Shifts(tables, s.tables)]

Put(e) ==
    /\ coefficient < MaxCoefficient
    /\ Leaves(Stored(Store, e))
    /\ handed' = Nothing
    /\ UNCHANGED compacted

\* KVStore.Delete stops at the newest table that has the key.
Delete(k) ==
    /\ Holders(tables, k) # {}
    /\ LET i == Max(Holders(tables, k))
       IN  Leaves([Store EXCEPT !.tables[i] = Without(@, k)])
    /\ handed' = Nothing
    /\ UNCHANGED compacted

UpdateTTL(k, ttl) ==
    /\ Holders(tables, k) # {}
    /\ LET i == Max(Holders(tables, k))
           o == tables[i].hkeys[k]
       IN  tables' = [tables EXCEPT ![i].memory[o].ttl = ttl]
    /\ handed' = Nothing
    /\ UNCHANGED <<coefficient, iter, compacted>>

\* isCompactionOK: garbage takes 40% of the table.
Wasteful(t) == t.garbage * 10 >= TableSize * 4
WastefulIn(ts) == {i \in DOMAIN ts : Wasteful(ts[i])}

Now(ts) == 1 + Max({t.recycledAt : t \in Range(ts)})

\* Plausible slips: the head is evicted into itself; an evicted table stays.
NewHeadNever(s) == s
RecycleNever(s) == s
NewHead(s) == IF s.evicted = Len(s.tables) THEN MakeTable(s) ELSE s
Recycle(s) ==
    LET i == s.evicted
    IN  IF s.tables[i].inuse # 0 THEN s
        ELSE [s EXCEPT !.tables = [Unregister(s.tables, s.tables[i].cf) EXCEPT
                                     ![i] = Reset(s.tables[i], Now(s.tables))]]

\* One entry of t.Range in evictTable: PutRaw, then Delete of what PutRaw left.
EvictKey(s, k) ==
    LET moved == Stored(s, EntryOf(s.tables[s.evicted], k))
    IN  [moved EXCEPT !.tables[moved.evicted] = Without(@, k)]

\* Compaction, when some table is wasteful: evictTable of the first one.  The
\* order of t.Range is the order of a Go map, and it stops after MaxEvict + 1
\* entries.
Compact ==
    /\ WastefulIn(tables) # {}
    /\ LET start == NewHead([Store EXCEPT !.evicted = Min(WastefulIn(tables))])
           live == KeysOf(start.tables[start.evicted])
       IN  \E order \in SetToSeqs(live) :
              LET batch == SubSeq(order, 1, IF Len(order) > MaxEvict THEN MaxEvict + 1
                                            ELSE Len(order))
              IN  Leaves(Recycle(FoldLeft(EvictKey, start, batch)))
    /\ handed' = Nothing
    /\ compacted' = TRUE

\* The tables at positions I, in order.
At(ts, I) == LET p == SetToSortSeq(I, <) IN [j \in DOMAIN p |-> ts[p[j]]]

\* Compaction, when none is: recycled tables, idle since some time or longer,
\* are given up, but the last table stays.  Their coefficient is 0 since Reset.
Expire(since) ==
    LET idle == {i \in RecycledIn(tables) : tables[i].recycledAt <= since}
        gone == IF idle = DOMAIN tables THEN idle \ {Len(tables)} ELSE idle
    IN  /\ WastefulIn(tables) = {}
        /\ gone # {}
        /\ Leaves([Store EXCEPT !.tables = At(Unregister(tables, 0), DOMAIN tables \ gone)])
        /\ handed' = Nothing
        /\ UNCHANGED compacted
-----------------------------------------------------------------------------
(* Transfers: fragment.moveTable and fragment.Replicate.                   *)

LiveFrom(ts, i) == {j \in DOMAIN ts : j >= i /\ ts[j].state # "Recycled"}

\* Drop of the table Export encoded.
Dropped(ts, i) == RemoveAt(Unregister(ts, ts[i].cf), i)

\* moveTable with drop: the first table that is not recycled goes to the new
\* owners, all of which accepted it.  A transfer that fails changes nothing.
\* The balancer moves and copies under its own lock, and nothing when the
\* fragment is empty.
Move ==
    /\ MovesCompacted \/ ~compacted
    /\ iter.kind # "copy" \/ iter.over
    /\ Present(tables) # {}
    /\ LiveFrom(tables, 1) # {}
    /\ LET i == Min(LiveFrom(tables, 1))
       IN  /\ Leaves([Store EXCEPT !.tables = Dropped(tables, i)])
           /\ handed' = [k \in Keys |->
                           IF Has(tables[i], k) THEN Found(<<tables[i]>>, k) ELSE None]
    /\ UNCHANGED compacted

Begin(kind) ==
    /\ iter.kind = "none" \/ iter.over
    /\ iter' = [NoIter EXCEPT !.kind = kind, !.must = Present(tables)]
    /\ handed' = Nothing
    /\ UNCHANGED <<tables, coefficient, compacted>>

\* Replicate: ExportFrom, from the position after the table sent last.  A
\* plausible slip: one position further.
CopyNextSkips ==
    LET live == LiveFrom(tables, iter.pos + 1)
    IN  /\ iter.kind = "copy" /\ ~iter.over
        /\ iter' = IF live = {} THEN [iter EXCEPT !.over = TRUE]
                   ELSE [iter EXCEPT !.pos = Min(live) + 1,
                                     !.seen = @ \cup KeysOf(tables[Min(live)])]
        /\ handed' = Nothing
        /\ UNCHANGED <<tables, coefficient, compacted>>
CopyNext ==
    LET live == LiveFrom(tables, iter.pos + 1)
    IN  /\ iter.kind = "copy" /\ ~iter.over
        /\ iter' = IF live = {} THEN [iter EXCEPT !.over = TRUE]
                   ELSE [iter EXCEPT !.pos = Min(live),
                                     !.seen = @ \cup KeysOf(tables[Min(live)])]
        /\ handed' = Nothing
        /\ UNCHANGED <<tables, coefficient, compacted>>
-----------------------------------------------------------------------------
(* Scans: a cursor is a position in the table of its coefficient.          *)

ByCoefficient(cf) == {i \in DOMAIN tables : tables[i].registered /\ tables[i].cf = cf}
Coefficients == {tables[i].cf : i \in {j \in DOMAIN tables : tables[j].registered}}
Above(cf) == {c \in Coefficients : c > cf}

\* The first n entries at or after an offset, and Table.Scan's cursor after
\* them; a plausible slip: a full step ends the scan of the table.
Ahead(t, from, n) ==
    LET p == SetToSortSeq({o \in t.index : o >= from}, <)
    IN  SubSeq(p, 1, IF Len(p) > n THEN n ELSE Len(p))
AfterAll(t, got) == 0
After(t, got) ==
    IF got = <<>> \/ \A o \in t.index : o <= Last(got) THEN 0 ELSE Last(got) + 1

\* scanCommon: the next cursor once the table of cf is at its end.
NextTable(cf) ==
    IF ByCoefficient(cf + 1) # {} THEN TableSize * (cf + 1)
    ELSE IF Above(cf) = {} THEN 0
    ELSE TableSize * (Min(Above(cf)) + 1)

\* Scan of n entries from the cursor; the iteration is over when the cursor
\* that comes back is 0.
ScanNext(n) ==
    LET asked == iter.pos \div TableSize
        known == ByCoefficient(asked) # {}
        cf == IF known THEN asked ELSE Min(Above(asked))
        from == IF known THEN iter.pos - TableSize * cf ELSE 0
        t == tables[CHOOSE i \in ByCoefficient(cf) : TRUE]
        got == Ahead(t, from, n)
        cursor == IF After(t, got) = 0 THEN NextTable(cf)
                  ELSE After(t, got) + TableSize * cf
    IN  /\ iter.kind = "scan" /\ ~iter.over
        /\ iter' = IF tables = <<>> \/ (~known /\ Above(asked) = {})
                   THEN [iter EXCEPT !.over = TRUE]
                   ELSE [iter EXCEPT !.pos = cursor, !.over = cursor = 0,
                                     !.seen = @ \cup {t.memory[o].key : o \in ToSet(got)}]
        /\ handed' = Nothing
        /\ UNCHANGED <<tables, coefficient, compacted>>
-----------------------------------------------------------------------------
Next ==
    \/ \E e \in Entries : Put(e)
    \/ \E k \in Keys : Delete(k) \/ \E ttl \in Ttls : UpdateTTL(k, ttl)
    \/ Compact
    \/ \E t \in Range(tables) : Expire(t.recycledAt)
    \/ Move
    \/ \E kind \in {"scan", "copy"} : Begin(kind)
    \/ CopyNext
    \/ \E n \in Counts : ScanNext(n)

Spec == Init /\ [][Next]_vars

\* compactionWorker calls Compaction again until nothing is wasteful.
FairSpec == Spec /\ WF_vars(Compact)
-----------------------------------------------------------------------------
\* "a key never has more than one live version" (deleteFromOlderTables): so a
\* delete, which stops at the newest one, brings no older one back.
OneVersion == \A k \in Keys : Cardinality(Holders(tables, k)) <= 1

\* What a table accounts for is what it holds: compaction is decided on garbage
\* and a table is recycled when nothing in it is in use.
Accounted ==
    \A i \in DOMAIN tables :
        LET t == tables[i]
        IN  /\ t.inuse + t.garbage = t.offset
            /\ t.index = {t.hkeys[k] : k \in KeysOf(t)}
            /\ t.inuse = MapThenSumSet(LAMBDA k : EntryOf(t, k).size, KeysOf(t))
            /\ \A k \in KeysOf(t) : EntryOf(t, k).key = k

\* The storage engine implements a map (pkg/storage): every operation does to
\* the map what its name says, reorganisation nothing at all.
Map == INSTANCE KVMap WITH map <- [k \in Keys |-> Found(tables, k)]
Refines == Map!Spec

\* An iteration with Scan, from cursor 0 until 0 comes back, returns every key
\* that was there all the time, overwritten or not, while nothing is compacted.
ScanComplete ==
    iter.kind = "scan" /\ iter.over /\ ~compacted => iter.must \subseteq iter.seen

\* A copy to other members goes table by table, with writes and compactions in
\* between: it reaches every key that was there all the time, as long as no
\* recycled table is reused or given up meanwhile.
CopyComplete ==
    iter.kind = "copy" /\ iter.over /\ ~iter.shifted => iter.must \subseteq iter.seen

\* "Compaction reorganizes storage tables and reclaims wasted resources", as the
\* interface of storage engines says: it loses no entry.
CompactionKeepsEntries ==
    [][Compact \/ (\E t \in Range(tables) : Expire(t.recycledAt))
       => \A k \in Keys : Found(tables', k) = Found(tables, k)]_vars

\* callCompactionOnFragment calls Compaction until it is done.  It comes to an
\* end because every call leaves fewer wasteful tables, or as many and fewer
\* entries in the first of them, although it may write to another of them.
CompactionAdvances ==
    [][Compact =>
         LET W == WastefulIn(tables)
             V == WastefulIn(tables')
         IN  \/ Cardinality(V) < Cardinality(W)
             \/ /\ Cardinality(V) = Cardinality(W)
                /\ Cardinality(KeysOf(tables'[Min(V)])) < Cardinality(KeysOf(tables[Min(W)]))
      ]_vars
=============================================================================
