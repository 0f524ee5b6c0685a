----------------------------- MODULE TakeoverLedger -----------------------------
(***************************************************************************)
(* Who supervises one plan, without rows, fences, runtimes or crashes: an  *)
(* epoch is reserved for one session and is granted at most once, to that  *)
(* session, on a request that nobody has withdrawn; as long as the request *)
(* stands, no other session takes the reservation.                         *)
(***************************************************************************)
EXTENDS Naturals

CONSTANTS Session, None

VARIABLES owner,     \* the session of the last epoch
          epoch,
          phase,     \* "none" before the first, "stopping" reserved, "ready" granted
          requests   \* by session: "none", "stands", "withdrawn"

vars == <<owner, epoch, phase, requests>>

NoRequests == [s \in Session |-> "none"]

Init == owner = None /\ epoch = 0 /\ phase = "none" /\ requests = NoRequests

Contested(s) == phase = "stopping" /\ owner # s /\ requests[owner] = "stands"

\* the request waits for others to be stopped, or is granted at once
Asks(s) ==
    /\ requests[s] = "none"
    /\ \/ phase' = "stopping" /\ requests' = [requests EXCEPT ![s] = "stands"]
       \/ phase' = "ready" /\ UNCHANGED requests

\* a new epoch; the relay may die over it
Reserve(s) ==
    /\ owner # s /\ ~Contested(s)
    /\ owner' = s /\ epoch' = epoch + 1
    /\ \/ Asks(s)
       \/ phase' = "stopping" /\ requests' = NoRequests

\* the session asks again within its epoch
Renew(s) == owner = s /\ phase = "stopping" /\ Asks(s) /\ UNCHANGED <<owner, epoch>>

Grant(s) ==
    /\ phase = "stopping" /\ owner = s /\ requests[s] = "stands"
    /\ phase' = "ready" /\ requests' = [requests EXCEPT ![s] = "none"]
    /\ UNCHANGED <<owner, epoch>>

\* a turn ends, the human says Off, another session fences it, it is refused,
\* the relay dies
Withdraw ==
    /\ requests' \in [Session -> {"none", "stands", "withdrawn"}]
    /\ \A s \in Session :
        \/ requests'[s] \in {"none", requests[s]}
        \/ requests[s] = "stands" /\ requests'[s] = "withdrawn"
    /\ UNCHANGED <<owner, epoch, phase>>

Next == Withdraw \/ \E s \in Session : Reserve(s) \/ Renew(s) \/ Grant(s)

Spec == Init /\ [][Next]_vars
================================================================================
