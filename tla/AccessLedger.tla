------------------------------ MODULE AccessLedger ------------------------------
(***************************************************************************)
(* Who may use the relay, without ceremonies, tickets, counters or clocks: *)
(* the first device claims it; every other device is let in by a session   *)
(* that was not closed; a session is one of an authorized device; a device *)
(* goes with all its sessions, and the last one never goes.                *)
(***************************************************************************)
CONSTANT Token   \* names of devices and of sessions

VARIABLES devices,   \* authorized devices
          opened     \* pairs <<session, device>> that were not closed

vars == <<devices, opened>>

Init == devices = {} /\ opened = {}

\* a device is authorized with its first session
Admit(t) == devices' = devices \cup {t} /\ opened' = opened \cup {<<t, t>>}

Claim == devices = {} /\ \E t \in Token : Admit(t)

Enroll == opened # {} /\ \E t \in Token \ devices : Admit(t)

Login == \E t \in Token, d \in devices : opened' = opened \cup {<<t, d>>} /\ UNCHANGED devices

Revoke ==
    \E d \in devices :
        /\ devices # {d} /\ devices' = devices \ {d}
        /\ opened' = {p \in opened : p[2] # d}

Logout == \E p \in opened : opened' = opened \ {p} /\ UNCHANGED devices

Next == Claim \/ Enroll \/ Login \/ Revoke \/ Logout

Spec == Init /\ [][Next]_vars
================================================================================
