---------------------------- MODULE EventDelivery ----------------------------
(***************************************************************************)
(* What the event transport of sysmondrv promises the service: a record    *)
(* that was queued reaches the service at most once, and while a worker    *)
(* is reading no queued record is lost.  Records are dropped only when     *)
(* the worker stops in the middle of a batch, and when the device is       *)
(* closed, which happens with no worker running.                           *)
(***************************************************************************)
CONSTANT Records

VARIABLES
    status,     \* "none", "queued", "delivered" or "discarded" for each record
    reading     \* a worker is running

vars == <<status, reading>>

\* The new status of every record when those of D reach the service and those
\* of X are dropped.
Resolved(D, X) ==
    [e \in Records |-> IF e \in D THEN "delivered"
                       ELSE IF e \in X THEN "discarded" ELSE status[e]]

Queued(S) == \A e \in S : status[e] = "queued"

Init == status = [e \in Records |-> "none"] /\ reading = FALSE

Raise(e) ==
    /\ status[e] = "none"
    /\ status' = [status EXCEPT ![e] = "queued"]
    /\ UNCHANGED reading

Start == ~reading /\ reading' = TRUE /\ UNCHANGED status

Deliver(D) ==
    /\ reading /\ Queued(D)
    /\ status' = Resolved(D, {})
    /\ UNCHANGED reading

Stop(D, X) ==
    /\ reading /\ Queued(D \cup X)
    /\ status' = Resolved(D, X)
    /\ reading' = FALSE

Purge(e) ==
    /\ ~reading /\ status[e] = "queued"
    /\ status' = [status EXCEPT ![e] = "discarded"]
    /\ UNCHANGED reading

Next ==
    \/ \E e \in Records : Raise(e) \/ Purge(e)
    \/ Start
    \/ \E D \in SUBSET Records : Deliver(D)
    \/ \E D, X \in SUBSET Records : Stop(D, X)

Spec == Init /\ [][Next]_vars
=============================================================================
