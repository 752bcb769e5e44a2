--------------------------- MODULE MCRoutingTable ---------------------------
(* Small clusters for the routing table: member 1 is the oldest.           *)
EXTENDS RoutingTableProofs

OwnName == [n \in Node |-> n]

\* Member 3 is member 1 restarted.
Restarted == [n \in Node |-> IF n = 3 THEN 1 ELSE n]
=============================================================================
