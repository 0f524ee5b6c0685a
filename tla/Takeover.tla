-------------------------------- MODULE Takeover --------------------------------
(***************************************************************************)
(* Taking over the supervision of one plan: SupervisionTakeover.run, the   *)
(* durable reservation and the list of retired supervisors, and the code   *)
(* that asks supervisorOwnership before it acts for a session: On and a    *)
(* supervision request, the automatic start, the human's send.             *)
(*                                                                         *)
(* run() is synchronous up to its first await, so that the claim, the      *)
(* retirement and the fences are one step here, and a crash that tears     *)
(* them apart is a step of its own. Its next steps are the end of a stop   *)
(* and the marking of it, the last of which also completes or refuses.     *)
(*                                                                         *)
(* Not here: takeovers of other plans, the executor that is handed on, the *)
(* walk over the actor tree by which a stop is verified (it succeeds or    *)
(* fails), and what only refuses: policy admission, open interactions, an  *)
(* executor of the session's own, an edit of the plan. A boot detaches all *)
(* its sessions in one step; SessionWriter has the steps of a send and of  *)
(* the detachment.                                                         *)
(***************************************************************************)
EXTENDS Naturals

CONSTANTS Session,       \* Codex sessions of one workspace
          None,          \* no session
          MaxEpoch,      \* bound: reservations
          MaxEvents      \* budget of what comes in between: On, Off, provider
                         \* failures, plans opened and closed, Forget, crashes

ASSUME SessionAssumption == None \notin Session
ASSUME BoundsAssumption == MaxEpoch \in Nat /\ MaxEvents \in Nat

Plans == {"plan", "other"}

VARIABLES
    claim,     \* the row of org_plan_takeovers for "plan"
    retired,   \* org_plan_retired_supervisors for "plan": "no", "retired", "stopped"
    state,     \* relay_sessions: "down", "ready", "turn"; "gone" once forgotten
    follows,   \* SupervisedPlanRegistry, by session
    row,       \* autopilot_sessions: the plan and the mode
    send,      \* the session whose send has passed the gate and not started its turn
    op,        \* SupervisionTakeover.run, by session
    left,      \* what remains of MaxEvents
    regranted  \* ghost: granted the plan although marked as stopped

vars == <<claim, retired, state, follows, row, send, op, left, regranted>>
durable == <<claim, retired, regranted>>

\* "retry" is off with a provider retry pending, "manual" is the human's Off,
\* "off" every other way to be off
Modes == {"on", "retry", "off", "manual"}
NoRow == [plan |-> "none", mode |-> "off"]
Supervising == [plan |-> "plan", mode |-> "on"]

NoClaim == [owner |-> None, epoch |-> 0, phase |-> "none"]
\* turn, same: the turn of the request still runs, and in it the row's generation
\* is the same
Idle == [on |-> FALSE, epoch |-> 0, todo |-> {}, at |-> None, turn |-> FALSE, same |-> FALSE]

\* sessions on the plan, some of them supervising it; nobody has taken it over
Init ==
    /\ claim = NoClaim /\ retired = [s \in Session |-> "no"]
    /\ state = [s \in Session |-> "ready"] /\ follows = [s \in Session |-> "plan"]
    /\ row \in [Session -> {NoRow, Supervising}]
    /\ send = None /\ op = [s \in Session |-> Idle] /\ left = MaxEvents /\ regranted = {}

-----------------------------------------------------------------------------
(* ------------------------------ ownership ------------------------------ *)
\* supervisorOwnership of a session that follows this plan
Ownership(s, plan) ==
    LET identity == IF plan = "none" THEN row[s].plan ELSE plan
    IN IF identity # "plan" \/ claim.owner = None THEN "owned"
       ELSE IF claim.owner # s THEN IF retired[s] = "no" THEN "transferring" ELSE "replaced"
       ELSE IF claim.phase = "stopping" THEN "transferring" ELSE "owned"

\* the run goes on with this in its favour
Run(r, turn, same) ==
    [on |-> r.on, epoch |-> r.epoch, todo |-> r.todo, at |-> r.at, turn |-> turn, same |-> same]

\* it stops this session next, of those it has to stop
Stopping(r, at, todo) ==
    [on |-> r.on, epoch |-> r.epoch, todo |-> todo, at |-> at, turn |-> r.turn, same |-> r.same]

\* what a write of the row, and the end of a turn, do to a run under way
Written(s) == op' = [op EXCEPT ![s] = Run(@, @.turn, FALSE)]
Ended(s) == op' = [op EXCEPT ![s] = Run(@, FALSE, FALSE)]

InMode(r, mode) == [plan |-> r.plan, mode |-> mode]

\* faulty variant of Cancelled: the pending provider retry survives
CancelledButRetry(r) == IF r.mode = "retry" THEN r ELSE InMode(r, "off")

\* faulty variant of Cancelled: the reason lands in the mode
CancelledByReason(r) == InMode(r, "sessionEnded")

\* cancel: off, whatever it was, and a new generation
Cancelled(r) == InMode(r, "off")

\* a pending provider retry is off, after a boot and by a send
Withdrawn(r) == IF r.mode = "retry" THEN InMode(r, "off") ELSE r

Spend == left > 0 /\ left' = left - 1
There(s) == state[s] # "gone"

-----------------------------------------------------------------------------
(* ------------------------------- Autopilot ----------------------------- *)
\* enable, from a live session that owns the plan it follows
Enable(s) ==
    /\ state[s] \in {"ready", "turn"} /\ follows[s] # "none"
    /\ Ownership(s, follows[s]) = "owned"
    /\ row[s] # [plan |-> follows[s], mode |-> "on"]
    /\ row' = [row EXCEPT ![s] = [plan |-> follows[s], mode |-> "on"]]
    /\ Written(s) /\ Spend /\ UNCHANGED <<durable, state, follows, send>>

\* disable; an Off on this plan again, and often a row that is off otherwise,
\* is not written
Disable(s) ==
    /\ There(s)
    /\ row[s].mode = "manual" => follows[s] \notin {"none", row[s].plan}
    /\ row' = [row EXCEPT ![s] = [plan |-> IF follows[s] = "none" THEN @.plan ELSE follows[s],
                                  mode |-> "manual"]]
    /\ Written(s) /\ Spend /\ UNCHANGED <<durable, state, follows, send>>

\* evaluate, reports: completed, attention, safety pause, or no longer the owner
Pauses(s) ==
    /\ row[s].mode = "on"
    /\ row' = [row EXCEPT ![s] = InMode(@, "off")]
    /\ Written(s) /\ UNCHANGED <<durable, state, follows, send, left>>

\* providerFailed: a transient failure of the root turn is retried after a while
ProviderFails(s) ==
    /\ row[s].mode = "on" /\ state[s] = "turn"
    /\ row' = [row EXCEPT ![s] = InMode(@, "retry")]
    /\ Written(s) /\ Spend /\ UNCHANGED <<durable, state, follows, send>>

\* retryProvider: on again, by the generation it was armed for; it asks no
\* ownership. Or it is abandoned.
Retries(s) ==
    /\ row[s].mode = "retry"
    /\ \/ /\ state[s] = "ready" /\ follows[s] = row[s].plan
          /\ row' = [row EXCEPT ![s] = InMode(@, "on")]
       \/ row' = [row EXCEPT ![s] = InMode(@, "off")]
    /\ UNCHANGED <<durable, state, follows, send, op, left>>

\* acceptPlanUpdate: the session follows the plan, a supervision request turns
\* its Autopilot on, and an enabled row of another plan is cancelled
Follow(s, plan, start) ==
    LET asked == /\ start /\ Ownership(s, plan) = "owned"
                 /\ row[s].plan = plan => row[s].mode \notin {"on", "manual"}
        leaves == row[s].mode = "on" /\ row[s].plan # plan
    IN /\ There(s)
       /\ follows' = [follows EXCEPT ![s] = plan]
       /\ row' = [row EXCEPT ![s] = IF asked THEN [plan |-> plan, mode |-> "on"]
                                    ELSE IF leaves THEN Cancelled(@) ELSE @]
       /\ op' = [op EXCEPT ![s] = Run(@, @.turn, @.same /\ ~asked /\ ~leaves)]
       /\ UNCHANGED <<durable, state, send>>

\* the plan is opened, or its status file is read again after a boot
Attach(s) ==
    \E plan \in Plans, start \in BOOLEAN :
        /\ follows[s] # plan \/ start
        /\ Follow(s, plan, start)
        /\ IF follows[s] = "none" THEN UNCHANGED left ELSE Spend

\* close-plan: clear, then cancel
Close(s) ==
    /\ follows[s] # "none" /\ follows' = [follows EXCEPT ![s] = "none"]
    /\ row' = [row EXCEPT ![s] = Cancelled(@)]
    /\ Written(s) /\ Spend /\ UNCHANGED <<durable, state, send>>

-----------------------------------------------------------------------------
(* ------------------------------- sessions ------------------------------ *)
\* the gate of a send is passed before the policy of an old session is read
Send(s) ==
    /\ state[s] \in {"down", "ready"} /\ send = None
    /\ Ownership(s, follows[s]) # "replaced"
    /\ send' = s
    /\ UNCHANGED <<durable, state, follows, row, op, left>>

\* the writer is there (again): manualSend withdraws a retry, the turn starts
SendStarts(s) ==
    /\ send = s /\ state[s] \in {"down", "ready"}
    /\ send' = None /\ state' = [state EXCEPT ![s] = "turn"]
    /\ row' = [row EXCEPT ![s] = Withdrawn(@)]
    /\ Written(s) /\ UNCHANGED <<durable, follows, left>>

SendFails(s) ==
    /\ send = s /\ send' = None
    /\ UNCHANGED <<durable, state, follows, row, op, left>>

\* turnStarter: it acquires a writer where there is none
AutoStarts(s) ==
    /\ row[s].mode = "on" /\ row[s].plan = follows[s] /\ Ownership(s, follows[s]) = "owned"
    /\ state[s] \in {"down", "ready"} /\ state' = [state EXCEPT ![s] = "turn"]
    /\ UNCHANGED <<durable, follows, row, send, op, left>>

TurnEnds(s) ==
    /\ state[s] = "turn" /\ state' = [state EXCEPT ![s] = "ready"]
    /\ Ended(s) /\ UNCHANGED <<durable, follows, row, send, left>>

\* restore asks no ownership
Open(s) ==
    /\ state[s] = "down" /\ state' = [state EXCEPT ![s] = "ready"]
    /\ UNCHANGED <<durable, follows, row, send, op, left>>

\* Stop, Release, an exit: the session goes down and its Autopilot is cancelled
Leaves(s) ==
    /\ state[s] \in {"ready", "turn"} /\ state' = [state EXCEPT ![s] = "down"]
    /\ row' = [row EXCEPT ![s] = Cancelled(@)]
    /\ Ended(s) /\ UNCHANGED <<durable, follows, send, left>>

\* the rows of the session go; the claim and the retired supervisors stay
Forget(s) ==
    /\ There(s) /\ state' = [state EXCEPT ![s] = "gone"]
    /\ follows' = [follows EXCEPT ![s] = "none"] /\ row' = [row EXCEPT ![s] = NoRow]
    /\ send' = IF send = s THEN None ELSE send
    /\ Ended(s) /\ Spend /\ UNCHANGED durable

-----------------------------------------------------------------------------
(* ------------------------------- takeover ------------------------------ *)
Predecessors(s) == {p \in Session \ {s} : There(p) /\ row[p].plan = "plan"}

\* claim: another session holds the reservation and its turn still runs
Contested(s) == claim.phase = "stopping" /\ claim.owner # s /\ state[claim.owner] = "turn"

\* claim: the epoch goes up with the owner
Reserved(s) ==
    IF claim.owner = s THEN claim
    ELSE [owner |-> s, epoch |-> claim.epoch + 1, phase |-> "stopping"]

Retired(gone) ==
    [p \in Session |-> IF p \in gone /\ retired[p] = "no" THEN "retired" ELSE retired[p]]

\* the predecessors no earlier takeover has stopped
Running(s) == {p \in Predecessors(s) : retired[p] # "stopped"}

\* the current root of a session without a finished takeover; a predecessor
\* exists, and the last owner is the session or one of them
Admitted(s) ==
    /\ state[s] = "turn" /\ follows[s] = "plan" /\ ~op[s].on
    /\ ~(claim.owner = s /\ claim.phase = "ready")
    /\ Predecessors(s) # {} /\ claim.owner \in {None, s} \cup Predecessors(s)
    /\ ~Contested(s) /\ Reserved(s).epoch <= MaxEpoch

\* complete: the row is on for the plan and the reservation is granted
Granted(s, c) ==
    /\ claim' = [owner |-> c.owner, epoch |-> c.epoch, phase |-> "ready"]
    /\ row' = [row EXCEPT ![s] = Supervising]
    /\ regranted' = IF retired[s] = "stopped" THEN regranted \cup {s} ELSE regranted

\* every predecessor that was not stopped is fenced before the first await
Fenced(s) == Running(s)

\* claim, retire, fence, and the first stop begins
TakeOver(s) ==
    /\ Admitted(s) /\ Running(s) # {}
    /\ claim' = Reserved(s) /\ retired' = Retired(Predecessors(s))
    /\ row' = [p \in Session |-> IF p \in Fenced(s) THEN Cancelled(row[p]) ELSE row[p]]
    /\ op' = [p \in Session |->
                IF p = s THEN [on |-> TRUE, epoch |-> Reserved(s).epoch, todo |-> Running(s),
                               at |-> None, turn |-> TRUE, same |-> TRUE]
                ELSE IF p \in Fenced(s) THEN Run(op[p], op[p].turn, FALSE) ELSE op[p]]
    /\ UNCHANGED <<state, follows, send, left, regranted>>

\* nobody is left to stop: it completes before it ever awaits
TakeOverAtOnce(s) ==
    /\ Admitted(s) /\ Running(s) = {}
    /\ Granted(s, Reserved(s))
    /\ UNCHANGED <<retired, state, follows, send, op, left>>

\* stop: quiesceForTakeover has verified the actors idle and disposed of the
\* process, and the session is saved as released
StopOk(s) ==
    /\ op[s].on /\ op[s].at = None
    /\ \E p \in op[s].todo :
        /\ There(p) /\ state' = [state EXCEPT ![p] = "down"]
        /\ op' = [op EXCEPT ![s] = Stopping(@, p, @.todo), ![p] = Run(@, FALSE, FALSE)]
    /\ UNCHANGED <<durable, follows, row, send, left>>

\* an actor cannot be verified, the 30 seconds are over, the runtime failed
StopFails(s) ==
    /\ op[s].on /\ op[s].at = None
    /\ op' = [op EXCEPT ![s] = Idle]
    /\ UNCHANGED <<durable, state, follows, row, send, left>>

\* markStopped, complete: the reservation is still this one
Current(s) == claim.phase = "stopping" /\ claim.owner = s /\ claim.epoch = op[s].epoch

\* faulty variant of Stands: the generation of the row is not compared
StandsByTurn(s) == op[s].turn /\ follows[s] = "plan"

\* the turn of the request runs, the generation and the plan are what they were
Stands(s) == op[s].turn /\ op[s].same /\ follows[s] = "plan"

MarkFails(s) ==
    /\ op[s].at # None /\ ~Current(s)
    /\ op' = [op EXCEPT ![s] = Idle]
    /\ UNCHANGED <<durable, state, follows, row, send, left>>

\* markStopped, and the next stop begins
MarkNext(s) ==
    /\ op[s].at # None /\ Current(s) /\ op[s].todo # {op[s].at}
    /\ retired' = [retired EXCEPT ![op[s].at] = "stopped"]
    /\ op' = [op EXCEPT ![s] = Stopping(@, None, @.todo \ {@.at})]
    /\ UNCHANGED <<claim, regranted, state, follows, row, send, left>>

\* markStopped, and the takeover is granted
MarkLast(s) ==
    /\ op[s].at # None /\ Current(s) /\ op[s].todo = {op[s].at} /\ Stands(s)
    /\ retired' = [retired EXCEPT ![op[s].at] = "stopped"]
    /\ Granted(s, claim)
    /\ op' = [op EXCEPT ![s] = Idle]
    /\ UNCHANGED <<state, follows, send, left>>

\* markStopped, and it is refused: what was checked at the start has changed,
\* or there is an executor, an interaction or no admission by now
MarkRefused(s) ==
    /\ op[s].at # None /\ Current(s) /\ op[s].todo = {op[s].at}
    /\ retired' = [retired EXCEPT ![op[s].at] = "stopped"]
    /\ op' = [op EXCEPT ![s] = Idle]
    /\ UNCHANGED <<claim, regranted, state, follows, row, send, left>>

-----------------------------------------------------------------------------
(* ------------------------------- restart ------------------------------- *)
\* detachActiveSessions and restore, over the rows the crash has left
Reboot(rows) ==
    /\ state' = [s \in Session |-> IF There(s) THEN "down" ELSE "gone"]
    /\ follows' = [s \in Session |-> "none"] /\ send' = None
    /\ row' = [s \in Session |-> Withdrawn(rows[s])]
    /\ op' = [s \in Session |-> Idle]

Restart == Spend /\ Reboot(row) /\ UNCHANGED durable

\* the relay dies between the claim, the retirement and the fences
TornTakeOver(s) ==
    /\ Admitted(s) /\ Spend /\ claim' = Reserved(s) /\ UNCHANGED regranted
    /\ \/ UNCHANGED retired /\ Reboot(row)
       \/ /\ retired' = Retired(Predecessors(s))
          /\ \E done \in SUBSET Fenced(s) :
                Reboot([p \in Session |-> IF p \in done THEN Cancelled(row[p]) ELSE row[p]])

Next ==
    \/ Restart
    \/ \E s \in Session :
        \/ Enable(s) \/ Disable(s) \/ Pauses(s) \/ ProviderFails(s) \/ Retries(s)
        \/ Attach(s) \/ Close(s)
        \/ Send(s) \/ SendStarts(s) \/ SendFails(s) \/ AutoStarts(s)
        \/ TurnEnds(s) \/ Open(s) \/ Leaves(s) \/ Forget(s)
        \/ TakeOver(s) \/ TakeOverAtOnce(s) \/ TornTakeOver(s)
        \/ StopOk(s) \/ StopFails(s)
        \/ MarkFails(s) \/ MarkNext(s) \/ MarkLast(s) \/ MarkRefused(s)

Spec == Init /\ [][Next]_vars

-----------------------------------------------------------------------------
(* ------------------------------ properties ----------------------------- *)
\* every variable holds a value of its kind
TypeOK ==
    /\ claim \in [owner : Session \cup {None}, epoch : Nat, phase : {"none", "stopping", "ready"}]
    /\ retired \in [Session -> {"no", "retired", "stopped"}]
    /\ state \in [Session -> {"down", "ready", "turn", "gone"}]
    /\ follows \in [Session -> Plans \cup {"none"}]
    /\ row \in [Session -> [plan : Plans \cup {"none"}, mode : Modes]]
    /\ send \in Session \cup {None}
    /\ op \in [Session -> [on : BOOLEAN, epoch : Nat, todo : SUBSET Session,
                           at : Session \cup {None}, turn : BOOLEAN, same : BOOLEAN]]
    /\ left \in Nat /\ regranted \in SUBSET Session

\* The Autopilot of this session drives the plan, or a retry will have it do so.
Drives(s) == row[s].plan = "plan" /\ row[s].mode \in {"on", "retry"}

(* Once a takeover is granted no other session's Autopilot drives the plan, *)
(* however On, retries, plan switches, sends, stops and restarts interleave *)
(* with it, but for one that had been granted the plan although it was      *)
(* marked as stopped: the mark is never taken back, and every later         *)
(* takeover passes the session over (takeover-supervision.ts:148).          *)
OneSupervisor ==
    claim.phase = "ready" =>
        \A s \in Session : s # claim.owner /\ Drives(s) => s \in regranted

\* TakeoverLedger, of which a request stands while its run may still be granted
Requests ==
    [s \in Session |-> IF ~op[s].on THEN "none"
                       ELSE IF op[s].turn /\ op[s].same THEN "stands" ELSE "withdrawn"]

Ledger == INSTANCE TakeoverLedger WITH
    owner <- claim.owner, epoch <- claim.epoch, phase <- claim.phase, requests <- Requests

(* An epoch is granted once, to the session it was reserved for, in the     *)
(* turn that asked for it and not over an Off that was written meanwhile;   *)
(* a reservation whose request stands is not taken from its session.        *)
LedgerSpec == Ledger!Spec

-----------------------------------------------------------------------------
(* ------------------------- the inductive invariant --------------------- *)
\* a run is of a turn that still runs, it never stops its own session, and one
\* that may be granted has the reservation
RunOK(s) ==
    /\ op[s].turn => state[s] = "turn"
    /\ op[s].at # None => op[s].on /\ op[s].at \in op[s].todo
    /\ s \notin op[s].todo
    /\ op[s].on /\ op[s].turn /\ op[s].same => Current(s)

\* the session has been granted the plan, or its takeover has fenced the others
Holds(s) == claim.owner = s /\ (claim.phase = "ready" \/ (op[s].on /\ Current(s)))

ClaimOK ==
    /\ (claim.owner = None) <=> (claim.phase = "none")
    /\ claim.owner = None => \A s \in Session : retired[s] = "no"

GoneOK == \A s \in Session : state[s] = "gone" => row[s].plan # "plan"

FencedOK ==
    \A o \in Session : Holds(o) => \A s \in Session \ {o} : Drives(s) => s \in regranted

StoppedOK ==
    \A s \in Session : retired[s] = "stopped" =>
        /\ Drives(s) => s \in regranted
        /\ claim.owner = s /\ claim.phase = "ready" => s \in regranted

IInv == TypeOK /\ ClaimOK /\ GoneOK /\ (\A s \in Session : RunOK(s)) /\ FencedOK /\ StoppedOK
================================================================================
