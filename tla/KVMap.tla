-------------------------------- MODULE KVMap --------------------------------
(***************************************************************************)
(* What a storage engine promises (pkg/storage): a map from keys to their  *)
(* entries.  Reorganising the engine leaves the map alone, and what leaves *)
(* the map in a transfer is what the transfer hands over.                  *)
(***************************************************************************)
CONSTANTS Keys, Vals, Ttls, None

VARIABLES
    map,    \* the entry of each key, or None
    handed  \* what the last operation handed over to another member

vars == <<map, handed>>

Entries == [val : Vals, ttl : Ttls]
Nothing == [k \in Keys |-> None]

TypeOK ==
    /\ map \in [Keys -> Entries \cup {None}]
    /\ handed \in [Keys -> Entries \cup {None}]

Init == map = Nothing /\ handed = Nothing

Put(k, e) ==
    /\ map' = [map EXCEPT ![k] = e]
    /\ handed' = Nothing

Delete(k) ==
    /\ map' = [map EXCEPT ![k] = None]
    /\ handed' = Nothing

UpdateTTL(k, ttl) ==
    /\ map[k] # None
    /\ map' = [map EXCEPT ![k].ttl = ttl]
    /\ handed' = Nothing

Transfer(S) ==
    /\ handed' = [k \in Keys |-> IF k \in S THEN map[k] ELSE None]
    /\ map' = [k \in Keys |-> IF k \in S THEN None ELSE map[k]]

Reorganise == handed' = Nothing /\ UNCHANGED map

Next ==
    \/ \E k \in Keys : \/ \E e \in Entries : Put(k, e)
                       \/ Delete(k)
                       \/ \E ttl \in Ttls : UpdateTTL(k, ttl)
    \/ \E S \in SUBSET Keys : Transfer(S)
    \/ Reorganise

Spec == Init /\ [][Next]_vars
==============================================================================
