----------------------------- MODULE SyncState -----------------------------
(***************************************************************************)
(* internal/syncstate, for one partition: whether a member waits for the   *)
(* data of a partition it was given before it acks the table.              *)
(*                                                                         *)
(* A wait is over when data arrives (MarkReceived) or when the partition   *)
(* outlives its escape deadline; an expired wait stays expired, whatever   *)
(* Reconcile is told later, until the partition is no longer awaited.      *)
(* Reconcile works from a scan that is older than itself: a fragment that  *)
(* arrived after the scan must not be awaited.                             *)
(***************************************************************************)
EXTENDS Naturals

CONSTANT Member

VARIABLES
    pending,   \* State.pending: "no", "waiting", or "expired"
    received   \* State.receivedAt: whether data arrived since the last scan

syncVars == <<pending, received>>

SyncInit ==
    /\ pending = [m \in Member |-> "no"]
    /\ received = [m \in Member |-> FALSE]

PendingEmpty(m) == pending[m] # "waiting"

(* The time of the scan: older marks do not count for the Reconcile that   *)
(* follows.                                                                *)
Scan(m) == received' = [received EXCEPT ![m] = FALSE]

(* A plausible slip: the data that came after the scan is awaited.         *)
ReconcileForgets(m, awaited, arrived) ==
    /\ pending' = [pending EXCEPT ![m] =
                     IF ~awaited THEN "no" ELSE IF @ = "no" THEN "waiting" ELSE @]
    /\ received' = [received EXCEPT ![m] = FALSE]

Reconcile(m, awaited, arrived) ==
    /\ pending' = [pending EXCEPT ![m] =
                     IF ~awaited \/ arrived THEN "no"
                     ELSE IF @ = "no" THEN "waiting" ELSE @]
    /\ received' = [received EXCEPT ![m] = FALSE]

MarkReceived(m) ==
    /\ pending' = [pending EXCEPT ![m] = "no"]
    /\ received' = [received EXCEPT ![m] = TRUE]

(* The escape deadline passes: the backstop timer fires, or a poll of      *)
(* PendingEmpty or IsDone notices.                                         *)
Expire(m) ==
    /\ pending[m] = "waiting"
    /\ pending' = [pending EXCEPT ![m] = "expired"]
    /\ UNCHANGED received
=============================================================================
