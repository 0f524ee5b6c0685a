------------------------------ MODULE ForgetLedger ------------------------------
(***************************************************************************)
(* What forgetting a session promises, without relays, fences, leases or   *)
(* phases: once asked for, nothing starts for the session any more; its    *)
(* files go only when no process uses it; its entry is retired after both, *)
(* and nothing brings any of them back.                                    *)
(***************************************************************************)
VARIABLES status,   \* "kept", "forgetting" or "gone"
          used,     \* a process of the session may be running
          files     \* temporary files of the session exist

vars == <<status, used, files>>

Init == status = "kept" /\ ~used /\ ~files

\* the session lives: its processes come and go, its files stay
Live == status = "kept" /\ used' \in BOOLEAN /\ files' \in BOOLEAN /\ (files => files')
        /\ UNCHANGED status

Begin == status = "kept" /\ status' = "forgetting" /\ UNCHANGED <<used, files>>

StopWork == status = "forgetting" /\ used /\ ~used' /\ UNCHANGED <<status, files>>

Clean == status = "forgetting" /\ ~used /\ files /\ ~files' /\ UNCHANGED <<status, used>>

Retire == status = "forgetting" /\ ~used /\ ~files /\ status' = "gone" /\ UNCHANGED <<used, files>>

Next == Live \/ Begin \/ StopWork \/ Clean \/ Retire

Spec == Init /\ [][Next]_vars

TypeOK == status \in {"kept", "forgetting", "gone"} /\ used \in BOOLEAN /\ files \in BOOLEAN
================================================================================
