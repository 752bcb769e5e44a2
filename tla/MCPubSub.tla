------------------------------ MODULE MCPubSub ------------------------------
(* A connection to each of two members, a third member without any, a      *)
(* channel and a pattern that matches it too.                              *)
EXTENDS PubSub, TLC

CONSTANTS n1, n2, n3, c1, c2

MCHome == (c1 :> n1) @@ (c2 :> n2)
MCMatches == [k \in Keys |-> IF k = "news" THEN {"news"} ELSE {"news", "sport"}]
MCMax ==
    [commands |-> (c1 :> 2) @@ (c2 :> 1),
     publishes |-> 1, crashes |-> 1, failures |-> 1]
=============================================================================
