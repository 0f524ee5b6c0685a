------------------------- MODULE MCAutopilotControl -------------------------
(***************************************************************************)
(* Liveness of AutopilotControl.                                           *)
(***************************************************************************)
EXTENDS AutopilotControl

\* the model has no room for the next control or the next generations
AtBound == co.used = MaxControls \/ co.gen + 2 > MaxGen

(* An enabled autopilot without an active turn starts one, is turned off   *)
(* (by the human, or by a safety pause), or is left with an activity that  *)
(* could not be read: no timer, fence or queue loses its next action.      *)
Continues == (co.on /\ turn = 0) ~> (turn # 0 \/ ~co.on \/ act = "stale" \/ AtBound)

(* Every claimed control is concluded: however the start ends, the ledger  *)
(* says started or failed, unless a crash took the start.                  *)
Settles ==
    \A k \in Control : co.ctl[k] = "issued" ~>
        (co.ctl[k] \in {"started", "failed"} \/ k \in history.lost \/ AtBound)
=============================================================================
