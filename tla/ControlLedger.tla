--------------------------- MODULE ControlLedger ---------------------------
(***************************************************************************)
(* What the ledger of automatic controls promises to an auditor, without   *)
(* rows, timers, queues or crashes: a control is scheduled, then withdrawn *)
(* or issued, an issued one concludes once, no two wait at the same time,  *)
(* ids are used in order, and each control is worth at most one turn/start,*)
(* sent between its issue and its conclusion.                              *)
(***************************************************************************)
EXTENDS Naturals

CONSTANT MaxControls

Control == 1..MaxControls

VARIABLES status,   \* of each control
          sends     \* how many turn/start requests each control has sent

Init == /\ status = [k \in Control |-> "none"]
        /\ sends = [k \in Control |-> 0]

\* one event may withdraw, issue or conclude one control and schedule another
After(s) ==
    CASE s = "none" -> {"none", "scheduled", "cancelled"}
      [] s = "scheduled" -> {"scheduled", "cancelled", "issued"}
      [] s = "issued" -> {"issued", "started", "failed"}
      [] OTHER -> {s}

Move ==
    /\ status' \in [Control -> {"none", "scheduled", "issued", "started", "failed", "cancelled"}]
    /\ \A k \in Control : status'[k] \in After(status[k])
    /\ \A k, m \in Control : status'[k] = "scheduled" /\ status'[m] = "scheduled" => k = m
    /\ \A k, m \in Control : k < m /\ status'[m] # "none" => status'[k] # "none"
    /\ UNCHANGED sends

Send(k) ==
    /\ status[k] = "issued" /\ sends[k] = 0
    /\ sends' = [sends EXCEPT ![k] = 1]
    /\ UNCHANGED status

Next == Move \/ \E k \in Control : Send(k)

Spec == Init /\ [][Next]_<<status, sends>>
=============================================================================
