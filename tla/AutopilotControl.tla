-------------------------- MODULE AutopilotControl --------------------------
(***************************************************************************)
(* The autopilot coordinator of one relay session: the durable row, the    *)
(* control ledger, the timers, the per-session operation queue, and what   *)
(* they race with - the human's own turns, On/Off, the activity registry's *)
(* reads, the app-server, writer loss and relay restarts.                  *)
(*                                                                         *)
(* One action is one run of the JavaScript event loop up to the next real  *)
(* await; Quiet keeps every other event out while a queued operation is    *)
(* due to run in the microtasks of the event that released it.             *)
(*                                                                         *)
(* Scope: the Org plan is incomplete and unchanged, no executor child and  *)
(* no held interaction exists (the root-only path of the coordinator).     *)
(***************************************************************************)
EXTENDS Naturals, Sequences, FiniteSets

CONSTANTS MaxControls,   \* bound: control ids the coordinator may allocate
          MaxGen,        \* bound: generations of the autopilot row
          MaxQueue,      \* bound: operations queued before a timer is held back
          MaxToggles,    \* budget of On/Off requests
          MaxSends,      \* budget of turns the human posts
          MaxCrashes,    \* budget of relay crashes and writer exits
          MaxRefreshes   \* budget of activity reads asked for by a client

ASSUME BoundsAssumption ==
    /\ MaxControls \in Nat \ {0} /\ MaxGen \in Nat \ {0} /\ MaxQueue \in Nat \ {0}
    /\ MaxToggles \in Nat /\ MaxSends \in Nat
    /\ MaxCrashes \in Nat /\ MaxRefreshes \in Nat

Control == 1..MaxControls
UserTurn == MaxControls + 1 .. MaxControls + MaxSends
Turn == Control \cup UserTurn     \* an automatic turn carries its control's id
Gen == Nat                        \* WithinBounds keeps it at most MaxGen
Mode == {"disabled", "monitoring", "backoff", "safetyPaused"}
Status == {"none", "scheduled", "issued", "started", "failed", "cancelled"}
Fresh == {"idle", "working"}
Activity == Fresh \cup {"reconciling", "stale"}
OpKind == {"fire", "watch", "settled", "reconcile"}
Op == [kind : OpKind, gen : Gen, mode : Mode]
Watch == [gen : Gen, mode : Mode]
Unarmed == [gen |-> 0, mode |-> "disabled"]
NoFlight == [ctl |-> 0, gen |-> 0, ready |-> FALSE]

VARIABLES
    co,          \* the coordinator: its row, ledger, timers and queue
    phase,       \* how far the operation at the head of the queue has come
    flight,      \* the start under way: its control, fence and session snapshot
    turn,        \* session.activeTurnId, 0 when null
    up,          \* session.state is ready or turnActive
    writer,      \* this relay owns the session's app-server process
    running,     \* external: turns the app-server has accepted and not ended
    send,        \* the human's POST /turns request
    act,         \* the activity registry's projection of the root
    refresh,     \* the registry's shared read in flight
    retired,     \* live evidence has superseded that read
    staleTimer,  \* the registry's staleness timer is armed
    alive,       \* the relay process runs
    left,        \* what remains of the environment's budgets
    history      \* ghost: what was sent, accepted, revoked, lost

env == <<turn, up, writer, running, send, act, refresh, retired, staleTimer>>
vars == <<co, phase, flight, env, alive, left, history>>

(* ----------------------------- the row and ledger ---------------------- *)
LastIs(c, status) == c.last \in Control /\ c.ctl[c.last] = status

Scheduled(c) == LastIs(c, "scheduled")

\* faulty variants of CancelControl: the cancellation is not stored; an issued
\* control is cancelled too
CancelControlUnstored(c) == IF Scheduled(c) THEN [c EXCEPT !.last = 0] ELSE c
CancelControlIssued(c) ==
    IF c.last \in Control THEN [c EXCEPT !.ctl[c.last] = "cancelled", !.last = 0] ELSE c

CancelControl(c) ==
    IF Scheduled(c) THEN [c EXCEPT !.ctl[c.last] = "cancelled", !.last = 0] ELSE c

\* activityChanged() and fire() withdraw a control and fence whoever holds it
WithdrawControl(c) ==
    [CancelControl(c) EXCEPT !.mode = "monitoring",
                             !.gen = IF Scheduled(c) THEN @ + 1 ELSE @]

CancelTimer(c) == [c EXCEPT !.timer = 0, !.settle = FALSE, !.watch = Unarmed]

\* faulty variant of Arm: the old timer is cancelled and no new one is set
ArmNothing(c) == CancelTimer(c)

Arm(c) == [CancelTimer(c) EXCEPT !.timer = c.gen]

ArmRefresh(c, t) ==
    IF c.watch # Unarmed \/ t # 0 THEN c
    ELSE [c EXCEPT !.watch = [gen |-> c.gen, mode |-> c.mode]]

SqlAllows(old, new) ==
    \/ old = new
    \/ old = "scheduled" /\ new \in {"issued", "cancelled"}
    \/ old = "issued" /\ new \in {"started", "failed"}

UpdateControl(c, k, status, t) ==
    IF SqlAllows(c.ctl[k], status)
    THEN [c EXCEPT !.ctl[k] = status, !.ctlTurn[k] = IF t # 0 THEN t ELSE @]
    ELSE c

ControlIssuable(c) == c.on /\ c.mode = "backoff" /\ Scheduled(c)

ClaimControl(c) == [c EXCEPT !.ctl[c.last] = "issued", !.mode = "monitoring"]

(* ------------------------- decisions of the coordinator ---------------- *)
Enqueue(c, kind, g, m) ==
    [c EXCEPT !.queue = Append(@, [kind |-> kind, gen |-> g, mode |-> m])]

Off(c) ==
    CancelTimer([CancelControl(c) EXCEPT !.mode = "disabled", !.on = FALSE, !.gen = @ + 1])

\* faulty variant of RequestReconcile: no guard against a second request
RequestReconcileAgain(c) ==
    [Enqueue([c EXCEPT !.mode = "monitoring"], "reconcile", c.gen, "monitoring")
        EXCEPT !.reconciling = TRUE]

RequestReconcile(c) ==
    LET m == [c EXCEPT !.mode = "monitoring"]
    IN  IF c.reconciling THEN m
        ELSE [Enqueue(m, "reconcile", c.gen, "monitoring") EXCEPT !.reconciling = TRUE]

Schedule(c) ==
    IF Scheduled(c) THEN Arm([c EXCEPT !.mode = "backoff"])
    ELSE Arm([c EXCEPT !.mode = "backoff", !.last = c.used + 1, !.used = @ + 1,
                       !.ctl = [k \in Control |-> IF k = c.used + 1 THEN "scheduled"
                                                  ELSE c.ctl[k]]])

Evaluate(c, a, t) ==
    IF c.mode = "safetyPaused" THEN c
    ELSE IF ~c.on THEN Off(c)
    ELSE IF a \notin Fresh THEN RequestReconcile(c)
    ELSE IF a = "working" \/ t # 0 THEN c
    ELSE Schedule(c)

ActivitySettled(c) ==
    IF c.on /\ c.mode = "monitoring" THEN [c EXCEPT !.settle = TRUE] ELSE c

ActivityChanged(c, a, t) ==
    IF ~c.on THEN c
    ELSE IF a \notin Fresh THEN Evaluate(c, a, t)
    ELSE IF a = c.seen THEN c
    ELSE LET d == [c EXCEPT !.seen = a]
         IN  IF a = "working" THEN WithdrawControl(CancelTimer(d)) ELSE ActivitySettled(d)

ManualSend(c) ==
    LET d == CancelTimer(c)
    IN  IF ~d.on THEN d
        ELSE [CancelControl(d) EXCEPT !.mode = "monitoring", !.gen = @ + 1, !.last = 0]

\* faulty variant of Restore: a row found in backoff is left to its lost timer
RestoreUnarmed(c, a, t) ==
    IF ~c.on \/ c.mode \in {"disabled", "safetyPaused"} THEN c
    ELSE IF LastIs(c, "issued")
    THEN ArmRefresh([c EXCEPT !.mode = "monitoring", !.gen = @ + 1], t)
    ELSE IF c.mode = "backoff" THEN c
    ELSE Evaluate(c, a, t)

Restore(c, a, t) ==
    IF ~c.on \/ c.mode \in {"disabled", "safetyPaused"} THEN c
    ELSE IF LastIs(c, "issued")
    THEN IF t # 0 THEN UpdateControl(c, c.last, "started", t)
         ELSE ArmRefresh([c EXCEPT !.mode = "monitoring", !.gen = @ + 1], t)
    ELSE IF c.mode = "backoff" THEN Arm(c)
    ELSE Evaluate(c, a, t)

Finish(c) == [c EXCEPT !.queue = Tail(@)]

(* ------------------------------ the event loop ------------------------- *)
Awaiting == {"writer", "prepare", "rpc", "refresh", "orphaned"}
Quiet == alive /\ send # "acquired" /\ (co.queue = <<>> \/ phase \in Awaiting)
Due(kind) == alive /\ co.queue # <<>> /\ phase = "none" /\ Head(co.queue).kind = kind
Resumes(kind) == alive /\ phase = "resume" /\ Head(co.queue).kind = kind

WithinBounds == co'.gen <= MaxGen /\ co'.used <= MaxControls
EndOp == phase' = "none" /\ flight' = NoFlight
Waiting == IF phase = "refresh" THEN "resume" ELSE phase

\* refresh() shares the read in flight; a new one publishes "reconciling"
BeginRefresh(c) ==
    /\ co' = IF refresh = "none" THEN ActivityChanged(c, "reconciling", turn) ELSE c
    /\ act' = IF refresh = "none" THEN "reconciling" ELSE act
    /\ refresh' = IF refresh = "none" THEN "reading" ELSE refresh
    /\ retired' = IF refresh = "none" THEN FALSE ELSE retired

\* the registry publishes a projection that differs from the last one
Publish(c, a, t) == IF a = act THEN c ELSE ActivityChanged(c, a, t)

\* early: turn/completed came in the same read as the turn/start reply, ahead of it
PublishStarted(early, t) ==
    IF early THEN ActivityChanged(Publish(co, "idle", turn), "working", t)
    ELSE Publish(co, "working", t)

\* observe() keeps fresh evidence, retires a read and re-arms staleness
Observe(a) ==
    /\ act' = a
    /\ retired' = (refresh # "none")
    /\ staleTimer' = TRUE

\* a human's or a process's withdrawal reaches a start not yet on the wire
Revoked == IF phase \in {"writer", "prepare"} THEN history.revoked \cup {flight.ctl}
           ELSE history.revoked

(* ------------------------------- human requests ------------------------ *)
Enable ==
    /\ Quiet /\ up /\ left.toggles > 0 /\ ~co.on
    /\ co' = Evaluate([co EXCEPT !.mode = "monitoring", !.on = TRUE, !.gen = @ + 1], act, turn)
    /\ left' = [left EXCEPT !.toggles = @ - 1]
    /\ UNCHANGED <<phase, flight, env, alive, history>>
    /\ WithinBounds

Disable ==
    /\ Quiet /\ left.toggles > 0
    /\ co.on \/ co.mode # "disabled" \/ Scheduled(co)
    /\ co' = Off(co)
    /\ left' = [left EXCEPT !.toggles = @ - 1]
    /\ history' = [history EXCEPT !.revoked = Revoked]
    /\ UNCHANGED <<phase, flight, env, alive>>
    /\ WithinBounds

ClientRefresh ==
    /\ Quiet /\ left.refreshes > 0
    /\ BeginRefresh(co)
    /\ left' = [left EXCEPT !.refreshes = @ - 1]
    /\ UNCHANGED <<phase, flight, turn, up, writer, running, send, staleTimer, alive, history>>

\* POST /turns: 409 while a turn is active; a missing writer is acquired first
SendBegin ==
    /\ Quiet /\ send = "idle" /\ turn = 0 /\ left.sends > 0
    /\ left' = [left EXCEPT !.sends = @ - 1]
    /\ IF writer
       THEN /\ send' = IF up THEN "sent" ELSE "sentStopped"
            /\ co' = ManualSend(co)
            /\ history' = [history EXCEPT !.revoked = Revoked]
       ELSE send' = "acquiring" /\ UNCHANGED <<co, history>>
    /\ UNCHANGED <<phase, flight, turn, up, writer, running, act, refresh, retired,
                   staleTimer, alive>>
    /\ WithinBounds

\* ensureWriter() shares one acquisition between the human's and the automatic start
WriterReady ==
    /\ Quiet /\ (phase = "writer" \/ send = "acquiring")
    /\ writer' = TRUE
    /\ phase' = IF phase = "writer" THEN "prepare" ELSE phase
    /\ send' = IF send = "acquiring" THEN "acquired" ELSE send
    /\ UNCHANGED <<co, flight, turn, up, running, act, refresh, retired, staleTimer,
                   alive, left, history>>

\* the acquired row is saved (refresh, restore), then the turn is posted
SendSaves ==
    /\ alive /\ send = "acquired"
    /\ send' = "sentFresh" /\ up' = TRUE /\ turn' = 0
    /\ LET begins == ~up /\ refresh = "none"
           a == IF begins THEN "reconciling" ELSE act
           c == IF begins THEN ActivityChanged(co, a, 0) ELSE co
       IN  /\ co' = ManualSend(IF up THEN c ELSE Restore(c, a, 0))
           /\ act' = a
           /\ refresh' = IF begins THEN "reading" ELSE refresh
           /\ retired' = IF begins THEN FALSE ELSE retired
    /\ history' = [history EXCEPT !.revoked = Revoked]
    /\ UNCHANGED <<phase, flight, writer, running, staleTimer, alive, left>>
    /\ WithinBounds

NextUserTurn == MaxControls + MaxSends - left.sends

SendAccepted(early) ==
    /\ Quiet /\ send \in {"sent", "sentFresh"} /\ writer
    /\ send' = "idle" /\ turn' = NextUserTurn /\ up' = TRUE
    /\ running' = IF early THEN running ELSE running \cup {NextUserTurn}
    /\ Observe("working")
    /\ co' = PublishStarted(early, NextUserTurn)
    /\ UNCHANGED <<phase, flight, writer, refresh, alive, left, history>>
    /\ WithinBounds

\* the app-server accepts, but the row posted with was stopped: startTurn() throws
SendStopped ==
    /\ Quiet /\ send = "sentStopped" /\ writer
    /\ send' = "idle" /\ running' = running \cup {NextUserTurn}
    /\ UNCHANGED <<co, phase, flight, turn, up, writer, act, refresh, retired,
                   staleTimer, alive, left, history>>

SendRejected ==
    /\ Quiet /\ send # "idle"
    /\ send' = "idle"
    /\ IF send = "sentFresh"
       THEN writer' = FALSE /\ up' = FALSE /\ turn' = 0 /\ running' = {}
       ELSE UNCHANGED <<writer, up, turn, running>>
    /\ UNCHANGED <<co, phase, flight, act, refresh, retired, staleTimer, alive, left, history>>

(* ---------------------------------- timers ----------------------------- *)
TimerFires ==
    /\ Quiet /\ co.timer # 0 /\ Len(co.queue) < MaxQueue
    /\ co' = Enqueue([co EXCEPT !.timer = 0], "fire", co.timer, "backoff")
    /\ UNCHANGED <<phase, flight, env, alive, left, history>>

StrayFires ==
    /\ Quiet /\ Len(co.queue) < MaxQueue
    /\ \E g \in co.stray :
          co' = Enqueue([co EXCEPT !.stray = @ \ {g}], "fire", g, "backoff")
    /\ UNCHANGED <<phase, flight, env, alive, left, history>>

WatchFires ==
    /\ Quiet /\ co.watch # Unarmed /\ Len(co.queue) < MaxQueue
    /\ co' = Enqueue([co EXCEPT !.watch = Unarmed], "watch", co.watch.gen, co.watch.mode)
    /\ UNCHANGED <<phase, flight, env, alive, left, history>>

SettleFires ==
    /\ Quiet /\ co.settle /\ Len(co.queue) < MaxQueue
    /\ co' = Enqueue([co EXCEPT !.settle = FALSE], "settled", 0, "monitoring")
    /\ UNCHANGED <<phase, flight, env, alive, left, history>>

StaleTimerFires ==
    /\ Quiet /\ staleTimer
    /\ staleTimer' = FALSE
    /\ BeginRefresh(co)
    /\ UNCHANGED <<phase, flight, turn, up, writer, running, send, alive, left, history>>

(* --------------------------- the queued operations --------------------- *)
\* fire() forgets whatever handle the timer map holds, a newer one included
Delivered(c) ==
    [c EXCEPT !.timer = 0, !.stray = IF c.timer # 0 THEN @ \cup {c.timer} ELSE @]

RunFire ==
    /\ Due("fire")
    /\ LET g == Head(co.queue).gen
           c == Delivered(co)
       IN  IF c.gen # g \/ ~c.on
           THEN co' = Finish(c) /\ EndOp
           ELSE IF turn # 0 \/ act = "working"
           THEN co' = Evaluate(WithdrawControl(Finish(c)), act, turn) /\ EndOp
           ELSE IF act \notin Fresh
           THEN co' = Evaluate(Finish(c), act, turn) /\ EndOp
           ELSE \/ /\ ControlIssuable(c)
                   /\ co' = ClaimControl(c)
                   /\ phase' = IF writer THEN "prepare" ELSE "writer"
                   /\ flight' = [ctl |-> c.last, gen |-> g, ready |-> up \/ ~writer]
                \/ ~ControlIssuable(c) /\ co' = Finish(c) /\ EndOp
                \* the supervision protocol's retry budget is spent
                \/ /\ co' = Finish([WithdrawControl(c) EXCEPT !.mode = "safetyPaused",
                                                             !.on = FALSE])
                   /\ EndOp
    /\ UNCHANGED <<env, alive, left, history>>
    /\ WithinBounds

\* faulty variant of Current: the generation is not compared
CurrentAnyGeneration == co.on /\ co.last = flight.ctl

Current == co.on /\ co.gen = flight.gen /\ co.last = flight.ctl

MaySend == Current /\ turn = 0

StartSends ==
    /\ alive /\ phase = "prepare" /\ MaySend /\ writer
    /\ phase' = "rpc"
    /\ history' = [history EXCEPT !.sent[flight.ctl] = @ + 1]
    /\ UNCHANGED <<co, flight, env, alive, left>>

\* turn/start succeeded: the turn is saved and observed ...
StartAccepted(early) ==
    /\ Quiet /\ phase = "rpc" /\ writer /\ flight.ready
    /\ turn' = flight.ctl /\ up' = TRUE
    /\ running' = IF early THEN running ELSE running \cup {flight.ctl}
    /\ Observe("working")
    /\ co' = PublishStarted(early, flight.ctl)
    /\ phase' = "accepted"
    /\ history' = [history EXCEPT !.accepted = @ \cup {flight.ctl}]
    /\ UNCHANGED <<flight, writer, send, refresh, alive, left>>
    /\ WithinBounds

\* ... and then fire() resumes and records the control; a crash may come between
StartRecorded ==
    /\ alive /\ phase = "accepted"
    /\ co' = Finish(UpdateControl(co, flight.ctl, "started", turn))
    /\ EndOp
    /\ UNCHANGED <<env, alive, left, history>>

\* fire()'s catch: a turn on the row counts as this start's; otherwise the
\* control failed, and an unavailable start waits for the watchdog
\* faulty variant of StartCatch: an unavailable start is not recorded as failed
StartCatchUnrecorded(c, unavailable) ==
    IF turn # 0 THEN Finish(UpdateControl(c, flight.ctl, "started", turn))
    ELSE IF unavailable THEN ArmRefresh(Finish(c), turn)
    ELSE Evaluate(Finish(UpdateControl(c, flight.ctl, "failed", 0)), act, turn)

StartCatch(c, unavailable) ==
    IF turn # 0 THEN Finish(UpdateControl(c, flight.ctl, "started", turn))
    ELSE LET d == Finish(UpdateControl(c, flight.ctl, "failed", 0))
             e == IF d.on THEN [d EXCEPT !.mode = "monitoring", !.gen = @ + 1] ELSE d
         IN  IF unavailable THEN ArmRefresh(e, turn) ELSE Evaluate(d, act, turn)

StartFenced ==
    /\ alive /\ phase = "prepare" /\ ~(MaySend /\ writer)
    /\ co' = StartCatch(co, TRUE)
    /\ EndOp
    /\ UNCHANGED <<env, alive, left, history>>
    /\ WithinBounds

StartRejected ==
    /\ Quiet /\ phase \in {"writer", "prepare", "rpc"}
    /\ \E unavailable \in BOOLEAN : co' = StartCatch(co, unavailable)
    /\ EndOp
    /\ UNCHANGED <<env, alive, left, history>>
    /\ WithinBounds

\* the row sent with was stopped: the app-server accepts, startTurn() throws
StartStopped ==
    /\ Quiet /\ phase = "rpc" /\ writer /\ ~flight.ready
    /\ running' = running \cup {flight.ctl}
    /\ co' = StartCatch(co, FALSE)
    /\ history' = [history EXCEPT !.accepted = @ \cup {flight.ctl}]
    /\ EndOp
    /\ UNCHANGED <<turn, up, writer, send, act, refresh, retired, staleTimer, alive, left>>
    /\ WithinBounds

RunReconcile ==
    /\ Due("reconcile")
    /\ BeginRefresh(co)
    /\ phase' = "refresh"
    /\ UNCHANGED <<flight, turn, up, writer, running, send, staleTimer, alive, left, history>>

ReconcileResumes ==
    /\ Resumes("reconcile")
    /\ LET c == [Finish(co) EXCEPT !.reconciling = FALSE]
       IN  co' = IF co.gen # Head(co.queue).gen THEN c
                 ELSE IF act \in Fresh THEN Evaluate(c, act, turn)
                 ELSE ArmRefresh([c EXCEPT !.mode = "monitoring", !.gen = @ + 1], turn)
    /\ EndOp
    /\ UNCHANGED <<env, alive, left, history>>
    /\ WithinBounds

WatchFresh(op) == co.on /\ co.gen = op.gen /\ co.mode = op.mode /\ turn = 0

RunWatch ==
    /\ Due("watch")
    /\ IF WatchFresh(Head(co.queue))
       THEN BeginRefresh(co) /\ phase' = "refresh" /\ UNCHANGED flight
       ELSE co' = Finish(co) /\ EndOp /\ UNCHANGED <<act, refresh, retired>>
    /\ UNCHANGED <<turn, up, writer, running, send, staleTimer, alive, left, history>>

WatchResumes ==
    /\ Resumes("watch")
    /\ co' = Evaluate(Finish(co), act, turn)
    /\ EndOp
    /\ UNCHANGED <<env, alive, left, history>>
    /\ WithinBounds

RunSettled ==
    /\ Due("settled")
    /\ co' = IF co.on /\ co.mode = "monitoring" THEN Evaluate(Finish(co), act, turn)
             ELSE Finish(co)
    /\ EndOp
    /\ UNCHANGED <<env, alive, left, history>>
    /\ WithinBounds

(* ------------------------ the registry and the app-server -------------- *)
RefreshReads ==
    /\ Quiet /\ refresh = "reading"
    /\ refresh' = IF running = {} THEN "idle" ELSE "working"
    /\ UNCHANGED <<co, phase, flight, turn, up, writer, running, send, act, retired,
                   staleTimer, alive, left, history>>

\* the read publishes what it saw, even when newer evidence has retired it
RefreshOk ==
    /\ Quiet /\ refresh \in Fresh
    /\ act' = refresh /\ refresh' = "none" /\ retired' = FALSE /\ staleTimer' = TRUE
    /\ co' = ActivityChanged(co, refresh, turn)
    /\ phase' = Waiting
    /\ UNCHANGED <<flight, turn, up, writer, running, send, alive, left, history>>
    /\ WithinBounds

\* every retry failed: disconnected, with no registry timer left for this read
RefreshFails ==
    /\ Quiet /\ refresh # "none"
    /\ refresh' = "none" /\ retired' = FALSE
    /\ IF retired THEN UNCHANGED <<co, act>>
       ELSE act' = "stale" /\ co' = ActivityChanged(co, "stale", turn)
    /\ phase' = Waiting
    /\ UNCHANGED <<flight, turn, up, writer, running, send, staleTimer, alive, left, history>>

OrphanEnds ==
    /\ Quiet /\ phase = "orphaned"
    /\ phase' = "resume"
    /\ UNCHANGED <<co, flight, env, alive, left, history>>

TurnCompletes ==
    /\ Quiet
    /\ \E t \in running :
          /\ running' = running \ {t}
          /\ turn' = IF turn = t THEN 0 ELSE turn
          /\ LET c == IF turn = t THEN ActivitySettled(co) ELSE co
                 d == Publish(c, "idle", turn')
             IN  co' = IF turn = t THEN Evaluate(d, "idle", 0) ELSE d
    /\ Observe("idle")
    /\ UNCHANGED <<phase, flight, up, writer, send, refresh, alive, left, history>>
    /\ WithinBounds

\* turn/started and item notifications of a running turn
TurnReports ==
    /\ Quiet /\ running # {} /\ act # "working"
    /\ Observe("working")
    /\ co' = Publish(co, "working", turn)
    /\ UNCHANGED <<phase, flight, turn, up, writer, running, send, refresh, alive, left, history>>
    /\ WithinBounds

(* ------------------------------- process loss -------------------------- *)
\* recoverExitedSession(): disconnected, cancel("sessionEnded"), stop()
WriterExits ==
    /\ Quiet /\ writer /\ left.crashes > 0
    /\ left' = [left EXCEPT !.crashes = @ - 1]
    /\ writer' = FALSE /\ up' = FALSE /\ turn' = 0 /\ running' = {}
    /\ act' = "stale" /\ refresh' = "none" /\ retired' = FALSE
    /\ staleTimer' \in IF refresh = "none" THEN {FALSE} ELSE {FALSE, staleTimer}
    /\ co' = Off(Publish(co, "stale", turn))
    /\ phase' = IF phase = "refresh" THEN "orphaned" ELSE phase
    /\ history' = [history EXCEPT !.revoked = Revoked]
    /\ UNCHANGED <<flight, send, alive>>
    /\ WithinBounds

Crash ==
    /\ alive /\ left.crashes > 0
    /\ alive' = FALSE
    /\ left' = [left EXCEPT !.crashes = @ - 1]
    /\ co' = [co EXCEPT !.timer = 0, !.stray = {}, !.watch = Unarmed, !.settle = FALSE,
                        !.queue = <<>>, !.reconciling = FALSE, !.seen = "stale"]
    /\ history' = [history EXCEPT !.lost = IF flight.ctl = 0 THEN @ ELSE @ \cup {flight.ctl}]
    /\ EndOp
    /\ writer' = FALSE /\ running' = {} /\ send' = "idle"
    /\ act' = "stale" /\ refresh' = "none" /\ retired' = FALSE /\ staleTimer' = FALSE
    /\ UNCHANGED <<turn, up>>

\* onListen: the plan watcher may evaluate first; active sessions are detached
\* (stop() clears the active turn) and then restored
Restart ==
    /\ ~alive
    /\ alive' = TRUE /\ turn' = 0 /\ up' = FALSE
    /\ \E planFirst \in BOOLEAN :
          co' = Restore(IF planFirst /\ co.on THEN Evaluate(co, act, turn) ELSE co, act, 0)
    /\ UNCHANGED <<phase, flight, writer, running, send, act, refresh, retired, staleTimer,
                   left, history>>
    /\ WithinBounds

-----------------------------------------------------------------------------
Init ==
    /\ co = [on |-> FALSE, mode |-> "disabled", gen |-> 1, last |-> 0, used |-> 0,
             ctl |-> [k \in Control |-> "none"], ctlTurn |-> [k \in Control |-> 0],
             timer |-> 0, stray |-> {}, watch |-> Unarmed, settle |-> FALSE,
             queue |-> <<>>, reconciling |-> FALSE, seen |-> "stale"]
    /\ phase = "none" /\ flight = NoFlight
    /\ turn = 0 /\ up = TRUE /\ writer = TRUE /\ running = {} /\ send = "idle"
    /\ act = "idle" /\ refresh = "none" /\ retired = FALSE /\ staleTimer = TRUE
    /\ alive = TRUE
    /\ left = [toggles |-> MaxToggles, sends |-> MaxSends, crashes |-> MaxCrashes,
               refreshes |-> MaxRefreshes]
    /\ history = [sent |-> [k \in Control |-> 0], accepted |-> {}, revoked |-> {}, lost |-> {}]

Human == Enable \/ Disable \/ ClientRefresh \/ SendBegin
Sending == WriterReady \/ SendSaves \/ SendRejected \/ SendStopped
           \/ \E early \in BOOLEAN : SendAccepted(early)
Timers == TimerFires \/ StrayFires \/ WatchFires \/ SettleFires \/ StaleTimerFires
Starting == StartSends \/ StartFenced \/ StartRejected \/ StartStopped \/ StartRecorded
            \/ \E early \in BOOLEAN : StartAccepted(early)
Operations == RunFire \/ RunReconcile \/ ReconcileResumes \/ RunWatch \/ WatchResumes
              \/ RunSettled
Runtime == RefreshReads \/ RefreshOk \/ RefreshFails \/ OrphanEnds \/ TurnCompletes
           \/ TurnReports
Losses == WriterExits \/ Crash \/ Restart

Next == Human \/ Sending \/ Timers \/ Starting \/ Operations \/ Runtime \/ Losses

Spec == Init /\ [][Next]_vars

(***************************************************************************)
(* Every due timer callback eventually gets its turn of the event loop,    *)
(* every microtask runs, every read of the registry ends (its retries are  *)
(* finite), and the app-server answers or is lost.                         *)
(***************************************************************************)
Fairness ==
    /\ SF_vars(TimerFires) /\ SF_vars(WatchFires) /\ SF_vars(SettleFires)
    /\ SF_vars(StaleTimerFires)
    /\ WF_vars(Operations) /\ WF_vars(OrphanEnds) /\ WF_vars(RefreshReads)
    /\ WF_vars(RefreshOk \/ RefreshFails)
    /\ WF_vars(Starting) /\ WF_vars(Sending)
    /\ WF_vars(Restart)

FairSpec == Spec /\ Fairness

-----------------------------------------------------------------------------
(* Types of every variable, and the queue's bound: the timers and one      *)
(* reconcile request at a time.                                            *)
CoType ==
    [on : BOOLEAN, mode : Mode, gen : Gen, last : Nat, used : Nat,
     ctl : [Control -> Status], ctlTurn : [Control -> Turn \cup {0}],
     timer : Gen, stray : SUBSET Gen, watch : Watch, settle : BOOLEAN,
     queue : Seq(Op), reconciling : BOOLEAN, seen : Activity]

Budget == [toggles : Nat, sends : 0..MaxSends, crashes : Nat, refreshes : Nat]

History == [sent : [Control -> Nat], accepted : SUBSET Control,
            revoked : SUBSET Control, lost : SUBSET Control]

EnvType ==
    /\ phase \in Awaiting \cup {"none", "resume", "accepted"}
    /\ flight \in [ctl : Control \cup {0}, gen : Gen, ready : BOOLEAN]
    /\ turn \in Turn \cup {0} /\ up \in BOOLEAN /\ writer \in BOOLEAN /\ running \subseteq Turn
    /\ send \in {"idle", "acquiring", "acquired", "sent", "sentFresh", "sentStopped"}
    /\ act \in Activity /\ refresh \in Fresh \cup {"none", "reading"}
    /\ retired \in BOOLEAN /\ staleTimer \in BOOLEAN /\ alive \in BOOLEAN
    /\ left \in Budget /\ history \in History

TypeOK == co \in CoType /\ Len(co.queue) <= MaxQueue + 1 /\ EnvType

(* A scheduled control is the row's last control and the row is On: no     *)
(* evaluation, cancellation, human turn or restart leaves behind a control *)
(* that a later fire() could claim, or schedules a second one beside it.   *)
ScheduledIsLast ==
    \A k \in Control : co.ctl[k] = "scheduled" => co.on /\ co.last = k

(* A row in backoff always has a wake of its generation under way - the    *)
(* timer of arm(), a timer fire() forgot, or a queued fire(): whatever     *)
(* cancels the timer also leaves backoff.                                  *)
BackoffArmed ==
    alive /\ co.mode = "backoff" =>
        \/ co.timer = co.gen \/ co.gen \in co.stray
        \/ \E i \in DOMAIN co.queue : co.queue[i].kind = "fire" /\ co.queue[i].gen = co.gen

(* No replay: one control sends at most one turn/start, whatever crashes,  *)
(* restarts, rejections or late timers come between (the durable claim of  *)
(* claimControlIssued() precedes the send).                                *)
NoReplay == \A k \in Control : history.sent[k] <= 1

(* A start that Off, a human's turn or a process exit withdrew before it   *)
(* reached the wire is never sent, although it was already issued and was  *)
(* waiting for its writer or its policy checks (mayStart's fence).         *)
RevokedNeverSent == \A k \in history.revoked : history.sent[k] = 0

(* An issued control is being started, or a crash took its start: every    *)
(* way out of fire() concludes the control it claimed.                     *)
IssuedInFlight ==
    \A k \in Control : co.ctl[k] = "issued" => flight.ctl = k \/ k \in history.lost

(* The inductive strengthening of the ledger's invariants. LedgerOK and     *)
(* QueueOK are about the row alone, FlightOK about the start under way: its *)
(* control stays issued, and whatever withdraws it moves the generation on. *)
LedgerOK(c) ==
    /\ \A k \in Control : c.ctl[k] = "scheduled" => c.on /\ c.last = k
    /\ \A k \in Control : c.ctl[k] = "none" <=> k > c.used

QueueOK(c) == Len(c.queue) <= MaxQueue + (IF c.reconciling THEN 1 ELSE 0)

Unsent == {"writer", "prepare"}
Starts == Unsent \cup {"rpc", "accepted"}

FlightOK ==
    /\ phase # "none" => co.queue # <<>>
    /\ phase \notin Starts => flight.ctl = 0
    /\ phase \in Starts => flight.ctl \in Control /\ co.ctl[flight.ctl] = "issued"
    /\ phase \in Unsent =>
          /\ history.sent[flight.ctl] = 0 /\ co.gen >= flight.gen
          /\ ~co.on \/ flight.ctl \in history.revoked => co.gen > flight.gen

SentOK ==
    \A k \in Control :
        /\ history.sent[k] <= 1
        /\ history.sent[k] > 0 \/ k \in history.revoked =>
              co.ctl[k] \in {"issued", "started", "failed"}
        /\ k \in history.revoked => history.sent[k] = 0

IInv == TypeOK /\ LedgerOK(co) /\ QueueOK(co) /\ FlightOK /\ SentOK /\ IssuedInFlight

(* The ledger of controls the coordinator keeps implements ControlLedger.  *)
Ledger == INSTANCE ControlLedger WITH status <- co.ctl, sends <- history.sent

LedgerSpec == Ledger!Spec
=============================================================================
