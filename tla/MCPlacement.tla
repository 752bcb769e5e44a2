---------------------------- MODULE MCPlacement ----------------------------
(* A second member takes the partition over, a third one its backup copy;  *)
(* the death of the owner leaves the partition to one that has no copy.    *)
EXTENDS Placement

OrderOf3 == <<2, 3, 1>>
OrderOf4 == <<2, 3, 1, 4>>
MCDesignated ==
    [S \in SUBSET Member \ {{}} |-> IF S = {2, 3} THEN 3 ELSE IF 2 \in S THEN 2 ELSE Min(S)]

Start(S, d, c, j, w, t, e) ==
    [members |-> S, data |-> d,
     left |-> [crashes |-> c, joins |-> j, writes |-> w, timeouts |-> t, escapes |-> e]]
MCStarts ==
    {Start({1}, {1, 2}, 1, 1, 0, 0, 1), Start({1}, {1}, 0, 1, 1, 0, 0),
     Start({1}, {1}, 0, 1, 0, 1, 0), Start({1, 2}, {1, 2}, 0, 1, 0, 0, 0),
     Start({1, 2, 3}, {1}, 2, 0, 0, 0, 0), Start({1, 2, 3}, {1}, 1, 0, 0, 1, 0)}
OwnerDies == {Start({1, 2, 3, 4}, {1}, 1, 0, 0, 0, 0)}
=============================================================================
