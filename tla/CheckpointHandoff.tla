-------------------------- MODULE CheckpointHandoff ----------------------------
(***************************************************************************)
(* The hand-off of an Org plan's checkpoints in one Codex session: the     *)
(* root reports a boundary of its plan (a child step done, the milestone   *)
(* reviewed, the terminal review), CheckpointCoordination refreshes the    *)
(* plan, expands and validates the report, AutopilotService records it in  *)
(* the session's durable row, and the boundary stays pending until the     *)
(* final of the turn that reported it, or the recovery of a writer that    *)
(* could not take the answer.                                              *)
(*                                                                         *)
(* A request id is the app-server's JSON-RPC id: each process counts its   *)
(* own. Between two awaits the relay is one thread: coordinate.ts awaits   *)
(* only the plan's refresh and the writer's recycle, so accept() and       *)
(* fail() are single steps, except that the process may die between two of *)
(* their transactions.                                                     *)
(*                                                                         *)
(* The plan has one milestone with the child steps Step; its edits and the *)
(* app-server are external. The limits on retained epochs and keys (640,   *)
(* 768) are not reached by a plan of this size.                            *)
(***************************************************************************)
EXTENDS Naturals, FiniteSets

CONSTANTS Step,           \* the child steps of the milestone
          MaxPlans,       \* bound: identities the session's plan takes
          MaxEpoch,       \* bound: completion epochs of a target
          MaxRequests,    \* bound: requests one app-server process makes
          MaxProcs,       \* bound: app-server processes of the session
          MaxTurns,       \* bound: root turns
          MaxCrashes      \* budget of relay crashes and shutdowns

ASSUME StepAssumption ==
    Step # {} /\ IsFiniteSet(Step) /\ Step \cap {"milestone", "terminal", "none", "step"} = {}
ASSUME BoundsAssumption ==
    /\ {MaxPlans, MaxRequests, MaxProcs, MaxTurns} \subseteq Nat \ {0}
    /\ MaxEpoch \in Nat /\ MaxCrashes \in Nat

Request == 1 .. MaxRequests
Target == Step \cup {"milestone", "terminal"}

\* the kinds of a compact report
Ask == {"l2Completed", "l1Accepted", "terminal"}

Epochs == [Target -> [epoch : 0 .. MaxEpoch, reopened : BOOLEAN, completed : BOOLEAN]]

VARIABLES
    plan,        \* the projection: identity, known, done, l1, the published reason
    ctl,         \* the durable checkpoints of the autopilot row
    session,     \* the durable session row: its state and its active turn
    proc,        \* the app-server: its number, next id, running turn, what is held
    rows,        \* pending_interactions of kind orgPlanCheckpoint, by request id
    calls,       \* request handlers that await the plan's refresh
    armed,       \* requests with a deadline
    recoveries,  \* writers being recycled: the request and its turn
    relay,       \* "up", "booting" until it has recovered the session, or "down"
    left,        \* what remains of MaxCrashes
    turns,       \* ghost: turns begun
    reopened     \* ghost: targets seen incomplete (or refined) since they were last recorded

vars == <<plan, ctl, session, proc, rows, calls, armed, recoveries, relay, left, turns, reopened>>

NoTurn == 0
NoRow == [state |-> "none", turn |-> NoTurn]
Fresh == [epoch |-> 0, reopened |-> FALSE, completed |-> FALSE]
Nothing == [r \in Request |-> "none"]

Up == relay # "down"

-----------------------------------------------------------------------------
(* ------------------------------- the plan ------------------------------ *)
\* what a boundary's validation asks of the plan and of the executors
Eligible(p, t) ==
    CASE t \in Step -> t \in p.done /\ p.l1 # "reviewed"
      [] OTHER -> p.l1 = "reviewed" /\ p.done = Step

\* hasActiveL1Writer refuses the milestone and the terminal review
Valid(p, t, busy) == Eligible(p, t) /\ (busy => t \in Step)

\* what keeps a recorded boundary completed
Completed(p, t) ==
    CASE t \in Step -> t \in p.done
      [] t = "milestone" -> p.l1 = "reviewed"
      [] OTHER -> p.l1 = "reviewed" /\ p.done = Step

Reported == {t \in Target : ctl.epochs[t].completed /\ ~ctl.epochs[t].reopened}

\* resolveOrgPlanCheckpointSignal: the steps a compact l2Completed may mean
Candidates ==
    LET open == IF plan.l1 = "reviewed" THEN {} ELSE plan.done
        named == IF ctl.target \in Step THEN ctl.target ELSE plan.published
        meant == IF named \in Step THEN open \cap {named} ELSE open
    IN  IF named \in Step \/ meant \subseteq Reported THEN meant ELSE meant \ Reported

\* the boundary a report means; none when it is ambiguous
Expanded(ask) ==
    CASE ask = "terminal" -> ask
      [] ask = "l1Accepted" -> IF plan.l1 = "reviewed" THEN "milestone" ELSE "none"
      [] OTHER -> IF Cardinality(Candidates) = 1 THEN CHOOSE s \in Candidates : TRUE ELSE "none"

(* ------------------------- the durable checkpoints --------------------- *)
Key(t) == <<t, ctl.epochs[t].epoch>>

\* faulty variant of Outcome: a boundary that is pending is overwritten
OutcomeOverwrites(t) ==
    CASE ctl.identity \notin {0, plan.identity} -> "failed"
      [] Key(t) \in ctl.accepted -> "alreadyRecorded"
      [] OTHER -> "recorded"

\* checkpointAccepted: what becomes of a valid report
Outcome(t) ==
    CASE ctl.identity \notin {0, plan.identity} -> "failed"
      [] \/ Key(t) \in ctl.accepted
         \/ t = "terminal" /\ ctl.terminal
         \/ ctl.epochs[t].completed /\ ~ctl.epochs[t].reopened -> "alreadyRecorded"
      [] OTHER -> IF ctl.pending # NoTurn THEN "failed" ELSE "recorded"

Accepted(t, turn) ==
    [ctl EXCEPT !.identity = plan.identity,
                !.epochs[t] = [@ EXCEPT !.reopened = FALSE, !.completed = TRUE],
                !.accepted = @ \cup {Key(t)},
                !.pending = turn, !.target = t, !.failed = FALSE,
                !.terminal = @ \/ t = "terminal"]

\* checkpointHandoffFailed: flagged once, never released
Flagged(c, turn) ==
    IF c.pending # NoTurn /\ c.pending = turn THEN [c EXCEPT !.failed = TRUE] ELSE c

\* faulty variant of Released: the final of any turn releases the boundary
ReleasedByAny(c, turn) ==
    IF c.pending # NoTurn /\ plan.known /\ c.identity = plan.identity
    THEN [c EXCEPT !.pending = NoTurn, !.target = "none", !.failed = FALSE]
    ELSE c

\* turnCompleted: the final of the boundary's own turn, or of no turn (a
\* recovery), releases it while the plan is still the one it was recorded in
Released(c, turn) ==
    IF turn \in {NoTurn, c.pending} THEN ReleasedByAny(c, turn) ELSE c

\* faulty variant of Recovered: a boundary that cannot be released is not flagged
RecoveredQuietly(c) == IF c.pending = NoTurn THEN c ELSE Released(c, NoTurn)

\* recoverCheckpointHandoff
Recovered(c) == IF c.pending = NoTurn THEN c ELSE Released(Flagged(c, c.pending), NoTurn)

\* faulty variant of Reopened: the epoch stays the one that was accepted
ReopenedInPlace(p) ==
    [t \in Target |->
        LET e == ctl.epochs[t]
        IN  IF e.completed /\ ~e.reopened /\ ~Completed(p, t)
            THEN [e EXCEPT !.reopened = TRUE, !.completed = FALSE] ELSE e]

\* faulty variant of Reopened: any refinement of the plan is a new completion
ReopenedByRefinement(p) ==
    [t \in Target |->
        LET e == ctl.epochs[t]
        IN  IF e.completed /\ ~e.reopened
            THEN [epoch |-> e.epoch + 1, reopened |-> TRUE, completed |-> FALSE] ELSE e]

\* reopenCheckpointEpochs: only a completed target that is no longer eligible
Reopened(p) ==
    [t \in Target |->
        LET e == ctl.epochs[t]
        IN  IF e.completed /\ ~e.reopened /\ ~Completed(p, t)
            THEN [epoch |-> e.epoch + 1, reopened |-> TRUE, completed |-> FALSE] ELSE e]

\* a terminal review accepted for another content of the plan is stale; the
\* plan may be refined without a change of its states
StaleReview(p, refined) == ctl.terminal /\ (refined \/ ~Completed(p, "terminal"))

\* ghost: what a new report of would be of another completion
Incomplete(p, refined) ==
    {t \in Target : ~Completed(p, t) \/ (t = "terminal" /\ StaleReview(p, refined))}

\* applyPlanStatusChanged for the plan that the autopilot supervises
Observed(p, refined) ==
    LET epochs == Reopened(p)
        last == epochs["terminal"]
    IN  IF StaleReview(p, refined)
        THEN [ctl EXCEPT !.terminal = FALSE,
                         !.epochs = [epochs EXCEPT !["terminal"] =
                             IF last.completed /\ ~last.reopened
                             THEN [epoch |-> last.epoch + 1, reopened |-> TRUE, completed |-> FALSE]
                             ELSE last]]
        ELSE [ctl EXCEPT !.epochs = epochs]

(* ------------------------------ the writer ----------------------------- *)
\* faulty variant of Started: the requests of the old process stay held
StartedHolding(p) == [gen |-> p.gen + 1, up |-> TRUE, next |-> 0, turn |-> NoTurn, held |-> p.held]

Started(p) == [gen |-> p.gen + 1, up |-> TRUE, next |-> 1, turn |-> NoTurn, held |-> Nothing]
Stopped(p) == [p EXCEPT !.up = FALSE, !.turn = NoTurn, !.held = Nothing]
Stop == [state |-> "stopped", turn |-> NoTurn]
Ready == [state |-> "ready", turn |-> NoTurn]

\* resolveServerRequest and rejectServerRequest of whatever process runs now
Takes(p, r) == p.up /\ p.held[r] = "held"
Replied(p, r, reply) == IF Takes(p, r) THEN [p EXCEPT !.held[r] = reply] ELSE p

\* a handler that does not settle its request has it refused, by its own process
Unsettled(p, c) == IF p.gen = c.gen THEN [p EXCEPT !.held[c.req] = "none"] ELSE p

ReplyFailure(c) ==
    proc' = IF Takes(proc, c.req) THEN Replied(proc, c.req, "refused") ELSE Unsettled(proc, c)

(* --------------------------- settling a hand-off ----------------------- *)
\* what fail() reads and writes
Now == [rows |-> rows, ctl |-> ctl, armed |-> armed, proc |-> proc, recoveries |-> recoveries]

Becomes(s) ==
    /\ rows' = s.rows /\ ctl' = s.ctl /\ armed' = s.armed
    /\ proc' = s.proc /\ recoveries' = s.recoveries

IsOpen(s, r) == s.rows[r].state = "open"

\* only the writer of the turn that is still active is recycled, once
Recycles(s, r, turn) ==
    /\ ~Takes(s.proc, r)
    /\ session.turn = turn
    /\ \A v \in s.recoveries : v.req # r

\* fail(): settle the row, flag the boundary, reject the request or, when the
\* writer no longer holds it, recycle the writer
Failed(s, r, turn) ==
    LET quiet == [s EXCEPT !.armed = @ \ {r}]
        recycle == Recycles(s, r, turn)
    IN  IF ~IsOpen(s, r) THEN quiet
        ELSE [quiet EXCEPT !.rows[r].state = "failed",
                           !.ctl = Flagged(@, turn),
                           !.proc = IF recycle THEN Stopped(@) ELSE Replied(@, r, "error"),
                           !.recoveries = IF recycle THEN @ \cup {[req |-> r, turn |-> turn]}
                                                     ELSE @]

\* failPending(): every open row, in the order of the list; once a row has the
\* writer recycled, the writer holds none of the requests that follow
AllFailed(s) ==
    LET open == {r \in Request : IsOpen(s, r)}
        lost == {r \in open : Recycles(s, r, s.rows[r].turn)}
        then == {r \in open : /\ \E q \in lost : q <= r
                              /\ Recycles([s EXCEPT !.proc = Stopped(@)], r, s.rows[r].turn)}
    IN  [rows |-> [r \in Request |-> IF r \in open THEN [s.rows[r] EXCEPT !.state = "failed"]
                                                   ELSE s.rows[r]],
         ctl |-> IF \E r \in open : s.rows[r].turn = s.ctl.pending THEN Flagged(s.ctl, s.ctl.pending)
                                                                   ELSE s.ctl,
         armed |-> s.armed \ open,
         proc |-> IF lost # {} THEN Stopped(s.proc)
                  ELSE [s.proc EXCEPT !.held = [r \in Request |-> IF r \in open /\ Takes(s.proc, r)
                                                                  THEN "error" ELSE @[r]]],
         recoveries |-> s.recoveries \cup {[req |-> r, turn |-> s.rows[r].turn] : r \in then}]

\* dismissPendingInteractions
Dismissed(rs) == [r \in Request |-> IF rs[r].state = "open" THEN [rs[r] EXCEPT !.state = "dismissed"]
                                                            ELSE rs[r]]

\* add() overwrites a row of an earlier process
Held(rs, r, turn) == [rs EXCEPT ![r] = [state |-> "open", turn |-> turn]]

-----------------------------------------------------------------------------
(* ----------------------------- the app-server -------------------------- *)
\* the root of the running turn makes a report
Report(ask) ==
    /\ Up /\ proc.up /\ proc.next \in Request
    /\ calls' = calls \cup {[gen |-> proc.gen, req |-> proc.next, turn |-> proc.turn, ask |-> ask]}
    /\ proc' = [proc EXCEPT !.next = @ + 1, !.held[proc.next] = "held"]
    /\ UNCHANGED <<plan, ctl, session, rows, armed, recoveries, relay, left, turns, reopened>>

\* the answer of an open hand-off was written
Answered(s, r) ==
    IF IsOpen(s, r) THEN [s EXCEPT !.armed = @ \ {r}, !.rows[r].state = "answered"] ELSE s

\* responseSettled, after the process forgot the request
Settles(r) ==
    /\ proc.held[r] \in {"recorded", "alreadyRecorded", "refused", "error"}
    /\ LET s == [Now EXCEPT !.proc.held[r] = "none"]
       IN  \/ proc.held[r] # "error" /\ Becomes(Answered(s, r))
           \/ Becomes(IF IsOpen(s, r) THEN Failed(s, r, rows[r].turn) ELSE s)
    /\ UNCHANGED <<plan, session, calls, relay, left, turns, reopened>>

\* serverRequest/resolved: the app-server no longer waits for the answer
RequestCleared(r) ==
    /\ Up /\ proc.held[r] # "none"
    /\ proc' = [proc EXCEPT !.held[r] = "none"]
    /\ rows' = IF rows[r].state = "open" THEN [rows EXCEPT ![r].state = "dismissed"] ELSE rows
    /\ UNCHANGED <<plan, ctl, session, calls, armed, recoveries, relay, left, turns, reopened>>

\* turn/completed of the running turn
TurnCompletes ==
    /\ Up /\ proc.turn # NoTurn
    /\ proc' = [proc EXCEPT !.turn = NoTurn]
    /\ IF session.turn = proc.turn
       THEN session' = Ready /\ ctl' = Released(ctl, proc.turn)
       ELSE UNCHANGED <<session, ctl>>
    /\ UNCHANGED <<plan, rows, calls, armed, recoveries, relay, left, turns, reopened>>

\* an unexpected exit fails what is open and stops the session; the requests
\* the process held are gone before
WriterExits ==
    /\ Up /\ proc.up
    /\ Becomes(AllFailed([Now EXCEPT !.proc = Stopped(@)]))
    /\ session' = Stop
    /\ UNCHANGED <<plan, calls, relay, left, turns, reopened>>

(* ------------------------------- handlers ------------------------------ *)
Returns(c) == calls' = calls \ {c}

\* the refresh of the plan failed, or what it read does not name one boundary
RefreshFails(c) ==
    /\ Returns(c) /\ ReplyFailure(c)
    /\ UNCHANGED <<plan, ctl, session, rows, armed, recoveries, relay, left, turns, reopened>>

\* after the refresh: a projection, and the root of the turn still active
Owned(c) == plan.known /\ session.turn # NoTurn /\ c.turn = session.turn

Passes(c, busy) == Owned(c) /\ Expanded(c.ask) # "none" /\ Valid(plan, Expanded(c.ask), busy)

\* the identity, the ownership, the validation or the durable row refuses it
Refuse(c) ==
    /\ \E busy \in BOOLEAN : ~(Passes(c, busy) /\ Outcome(Expanded(c.ask)) # "failed")
    /\ Returns(c) /\ ReplyFailure(c)
    /\ UNCHANGED <<plan, ctl, session, rows, armed, recoveries, relay, left, turns, reopened>>

\* a retry is answered again, and opens nothing
AnswerAgain(c) ==
    /\ Passes(c, FALSE) /\ Outcome(Expanded(c.ask)) = "alreadyRecorded"
    /\ Returns(c)
    /\ proc' = IF Takes(proc, c.req) THEN Replied(proc, c.req, "alreadyRecorded")
                                     ELSE Unsettled(proc, c)
    /\ UNCHANGED <<plan, ctl, session, rows, armed, recoveries, relay, left, turns, reopened>>

\* faulty variant of Hold: the deadline is left to the write of the answer
HoldUnwatched(c) ==
    /\ rows' = Held(rows, c.req, session.turn)
    /\ armed' = armed \ {c.req}
    /\ proc' = Replied(proc, c.req, "recorded")
    /\ UNCHANGED recoveries

\* the row, its deadline, then the answer
Hold(c) ==
    /\ rows' = Held(rows, c.req, session.turn)
    /\ armed' = armed \cup {c.req}
    /\ proc' = Replied(proc, c.req, "recorded")
    /\ UNCHANGED recoveries

RecordedNow(c) == Passes(c, FALSE) /\ Outcome(Expanded(c.ask)) = "recorded"

Accept(c) ==
    /\ RecordedNow(c) /\ Returns(c)
    /\ ctl' = Accepted(Expanded(c.ask), session.turn)
    /\ reopened' = reopened \ {Expanded(c.ask)}
    /\ Hold(c)
    /\ UNCHANGED <<plan, session, relay, left, turns>>

\* an exception after the row was persisted: a hand-off that has failed
AcceptThrows(c) ==
    /\ RecordedNow(c) /\ Returns(c)
    /\ reopened' = reopened \ {Expanded(c.ask)}
    /\ LET accepted == Flagged(Accepted(Expanded(c.ask), session.turn), session.turn)
           s == [Now EXCEPT !.ctl = accepted, !.rows = Held(@, c.req, session.turn)]
       IN  Becomes(Failed(s, c.req, session.turn))
    /\ UNCHANGED <<plan, session, relay, left, turns>>

\* the deadline of a hand-off whose answer nobody took
Deadline(r) ==
    /\ r \in armed
    /\ Becomes(Failed(Now, r, rows[r].turn))
    /\ UNCHANGED <<plan, session, calls, relay, left, turns, reopened>>

\* the recycled writer resumed its thread: the session captured before is
\* saved, whatever was saved meanwhile, and the boundary is released
RecycleDone(v) ==
    /\ Up /\ v \in recoveries
    /\ recoveries' = recoveries \ {v}
    /\ proc' = Started(proc) /\ session' = Ready /\ ctl' = Recovered(ctl)
    /\ proc'.gen <= MaxProcs
    /\ UNCHANGED <<plan, rows, calls, armed, relay, left, turns, reopened>>

\* the durable failure stays
RecycleFails(v) ==
    /\ Up /\ v \in recoveries
    /\ recoveries' = recoveries \ {v}
    /\ UNCHANGED <<plan, ctl, session, proc, rows, calls, armed, relay, left, turns, reopened>>

(* --------------------------- the session's owner ----------------------- *)
\* a turn of an idle session acquires the writer; a human's dismisses first
StartTurn ==
    /\ Up /\ session.turn = NoTurn /\ proc.turn = NoTurn /\ turns < MaxTurns
    /\ \E human \in BOOLEAN : rows' = IF human THEN Dismissed(rows) ELSE rows
    /\ turns' = turns + 1
    /\ proc' = [IF proc.up THEN proc ELSE Started(proc) EXCEPT !.turn = turns + 1]
    /\ proc'.gen <= MaxProcs
    /\ session' = [state |-> "ready", turn |-> turns + 1]
    /\ UNCHANGED <<plan, ctl, calls, armed, recoveries, relay, left, reopened>>

\* stop or release
Release ==
    /\ Up /\ (proc.up \/ session.state = "ready")
    /\ rows' = Dismissed(rows) /\ proc' = Stopped(proc) /\ session' = Stop
    /\ UNCHANGED <<plan, ctl, calls, armed, recoveries, relay, left, turns, reopened>>

Published(p, done, l1, published) ==
    [p EXCEPT !.known = TRUE, !.done = done, !.l1 = l1, !.published = published]

\* the plans one edit away: a step is done or taken back, the milestone moves,
\* or the projection is only opened again, perhaps with a refined text
Edits ==
    {Published(plan, plan.done \cup {s}, plan.l1, s) : s \in Step \ plan.done}
    \cup {Published(plan, plan.done \ {s}, plan.l1, "none") : s \in plan.done}
    \cup {Published(plan, plan.done, l1, "none") : l1 \in {"open", "done", "reviewed"}}

\* an edit of the plan reaches the projection
PlanChanges ==
    /\ Up
    /\ \E p \in Edits, refined \in BOOLEAN :
          /\ plan' = p
          /\ IF ctl.supervised = plan.identity
             THEN /\ ctl' = Observed(p, refined)
                  /\ reopened' = reopened \cup Incomplete(p, refined)
             ELSE UNCHANGED <<ctl, reopened>>
    /\ \A t \in Target : ctl'.epochs[t].epoch <= MaxEpoch
    /\ UNCHANGED <<session, proc, rows, calls, armed, recoveries, relay, left, turns>>

\* the session attaches another plan; the epochs of the old one are kept
PlanReplaced ==
    /\ Up /\ plan.identity < MaxPlans
    /\ plan' = [identity |-> plan.identity + 1, known |-> TRUE, done |-> {}, l1 |-> "open",
                published |-> "none"]
    /\ UNCHANGED <<ctl, session, proc, rows, calls, armed, recoveries, relay, left, turns, reopened>>

\* enable() or supervisionStarted() of the plan that is attached now
Supervise ==
    /\ Up /\ plan.known /\ ctl.supervised # plan.identity
    /\ ctl' = [ctl EXCEPT !.supervised = plan.identity]
    /\ UNCHANGED <<plan, session, proc, rows, calls, armed, recoveries, relay, left, turns, reopened>>

(* -------------------------- crashes and restarts ----------------------- *)
Dies ==
    /\ Up /\ left > 0
    /\ left' = left - 1 /\ relay' = "down"
    /\ proc' = Stopped(proc) /\ calls' = {} /\ armed' = {} /\ recoveries' = {}
    /\ plan' = [plan EXCEPT !.known = FALSE]

\* a crash, or a shutdown: checkpoint rows are left to the next relay
Crash == Dies /\ UNCHANGED <<ctl, session, rows, turns, reopened>>

\* between the autopilot's transaction and the row of the request
CrashAfterAccept(c) ==
    /\ RecordedNow(c) /\ Dies
    /\ ctl' = Accepted(Expanded(c.ask), session.turn)
    /\ reopened' = reopened \ {Expanded(c.ask)}
    /\ UNCHANGED <<session, rows, turns>>

\* between the row's settlement and the autopilot's transaction
CrashInFail(r) ==
    /\ r \in armed /\ rows[r].state = "open" /\ Dies
    /\ rows' = [rows EXCEPT ![r].state = "failed"]
    /\ UNCHANGED <<ctl, session, turns, reopened>>

\* the next relay stops what was active; the plan's watch is still to open
Restart ==
    /\ relay = "down" /\ relay' = "booting"
    /\ session' = Stop
    /\ UNCHANGED <<plan, ctl, proc, rows, calls, armed, recoveries, left, turns, reopened>>

\* the watch is open, with a projection or without one: the old requests
\* fail and their boundary is recovered
Booted ==
    /\ relay = "booting" /\ relay' = "up"
    /\ LET s == AllFailed(Now) IN Becomes([s EXCEPT !.ctl = Recovered(@)])
    /\ UNCHANGED <<plan, session, calls, left, turns, reopened>>

-----------------------------------------------------------------------------
Init ==
    /\ plan = [identity |-> 1, known |-> TRUE, done |-> {}, l1 |-> "open", published |-> "none"]
    /\ ctl = [identity |-> 0, supervised |-> 1, pending |-> NoTurn, target |-> "none",
              failed |-> FALSE, terminal |-> FALSE, epochs |-> [t \in Target |-> Fresh], accepted |-> {}]
    /\ session = Stop
    /\ proc = [gen |-> 0, up |-> FALSE, next |-> 1, turn |-> NoTurn, held |-> Nothing]
    /\ rows = [r \in Request |-> NoRow]
    /\ calls = {} /\ armed = {} /\ recoveries = {}
    /\ relay = "up" /\ left = MaxCrashes /\ turns = 0 /\ reopened = Target

Handler(c) ==
    \/ RefreshFails(c) \/ Refuse(c) \/ AnswerAgain(c) \/ Accept(c) \/ AcceptThrows(c)

Recovering(v) == RecycleDone(v) \/ RecycleFails(v)

Next ==
    \/ \E ask \in Ask : Report(ask)
    \/ \E r \in Request : Settles(r) \/ RequestCleared(r) \/ Deadline(r)
                          \/ CrashInFail(r)
    \/ \E c \in calls : Handler(c) \/ CrashAfterAccept(c)
    \/ \E v \in recoveries : Recovering(v)
    \/ TurnCompletes \/ WriterExits \/ StartTurn \/ Release
    \/ PlanChanges \/ PlanReplaced \/ Supervise
    \/ Crash \/ Restart \/ Booted

Spec == Init /\ [][Next]_vars

\* timers fire, the plan's watch opens or gives up, a resume ends or times out
FairSpec ==
    /\ Spec
    /\ \A r \in Request : WF_vars(Deadline(r))
    /\ WF_vars(Booted)

-----------------------------------------------------------------------------
(* ------------------------------ properties ----------------------------- *)
Plans == [identity : 1 .. MaxPlans, known : BOOLEAN, done : SUBSET Step,
          l1 : {"open", "done", "reviewed"}, published : Step \cup {"none"}]
Controls == [identity : 0 .. MaxPlans, supervised : 1 .. MaxPlans, pending : 0 .. MaxTurns,
             target : Target \cup {"none"}, failed : BOOLEAN, terminal : BOOLEAN,
             epochs : Epochs, accepted : SUBSET (Target \X (0 .. MaxEpoch))]
Sessions == [state : {"stopped", "ready"}, turn : 0 .. MaxTurns]
Holdings == {"none", "held", "recorded", "alreadyRecorded", "refused", "error"}
Procs == [gen : 0 .. MaxProcs, up : BOOLEAN, next : 1 .. MaxRequests + 1, turn : 0 .. MaxTurns,
          held : [Request -> Holdings]]
Rows == [state : {"none", "open", "answered", "failed", "dismissed"}, turn : 0 .. MaxTurns]
Calls == [gen : 1 .. MaxProcs, req : Request, turn : 0 .. MaxTurns, ask : Ask]
Recoveries == [req : Request, turn : 0 .. MaxTurns]

TypeOK ==
    /\ plan \in Plans /\ ctl \in Controls /\ session \in Sessions /\ proc \in Procs
    /\ rows \in [Request -> Rows] /\ calls \subseteq Calls /\ armed \subseteq Request
    /\ recoveries \subseteq Recoveries
    /\ relay \in {"up", "booting", "down"} /\ left \in 0 .. MaxCrashes
    /\ turns \in 0 .. MaxTurns /\ reopened \subseteq Target

Accounted(c, rs) ==
    c.pending # NoTurn =>
        \/ c.failed
        \/ \E r \in Request : rs[r].turn = c.pending
                              /\ rs[r].state \in {"open", "answered", "dismissed"}

\* A boundary that holds up the next checkpoint can be accounted for by the
\* request that made it or by the failure the health report shows, after a
\* crash between the two transactions of accept() or of fail() as well.
BoundaryAccounted == relay = "up" => Accounted(ctl, rows)

\* A target that was seen incomplete since it was last recorded, and is done
\* again, can be reported again: its epoch moved on.
NewCompletionReportable ==
    \A t \in Target :
        Eligible(plan, t) /\ t \in reopened /\ ctl.identity \in {0, plan.identity}
        => Outcome(t) # "alreadyRecorded"

\* A DONE-to-WIP-to-DONE cycle opens a new epoch only after the plan was seen
\* to reopen the target: one completion is recorded once.
OncePerCompletion ==
    [][\A t \in Target :
            ctl'.accepted # ctl.accepted /\ ctl'.target = t => t \in reopened]_vars

\* Another turn's completion does not release a boundary: its own final does,
\* or the recovery of a writer or of the relay.
ReleasedByItsFinal ==
    [][ctl.pending # NoTurn /\ ctl'.pending = NoTurn =>
            \/ session.turn = ctl.pending
            \/ recoveries' # recoveries
            \/ relay = "booting"]_vars

\* A boundary is recorded once, occupies the hand-off alone and is released
\* before the next (refinement of CheckpointLedger).
NoBoundary == <<"none", 0>>
Latest(b) == b[1] = ctl.target /\ \A o \in ctl.accepted : o[1] = b[1] => o[2] <= b[2]
Ledger == INSTANCE CheckpointLedger WITH
    Boundary <- Target \X (0 .. MaxEpoch), NoBoundary <- NoBoundary,
    recorded <- ctl.accepted,
    pending <- IF ctl.pending = NoTurn THEN NoBoundary ELSE CHOOSE b \in ctl.accepted : Latest(b)

LedgerSpec == Ledger!Spec

\* A hand-off is settled while the relay runs: answered, failed or dismissed.
HandoffConcludes ==
    \A r \in Request : rows[r].state = "open" ~> (rows[r].state # "open" \/ relay = "down")

-----------------------------------------------------------------------------
(* ------------------------- the inductive invariant --------------------- *)
\* an epoch is completed exactly when its boundary was accepted and its target
\* has not been seen incomplete since; no later epoch was ever accepted
EpochsOK ==
    /\ \A t \in Target :
        /\ ctl.epochs[t].completed => ~ctl.epochs[t].reopened
        /\ Key(t) \in ctl.accepted => ctl.epochs[t].completed
        /\ t \in reopened <=> ~ctl.epochs[t].completed
    /\ \A b \in ctl.accepted : b[2] <= ctl.epochs[b[1]].epoch
    /\ "terminal" \in reopened => ~ctl.terminal

\* a pending boundary is the latest that was accepted of its target
PendingOK == ctl.pending # NoTurn => \E b \in ctl.accepted : Latest(b)

IInv ==
    /\ TypeOK /\ EpochsOK /\ PendingOK /\ BoundaryAccounted
    /\ proc.up => proc.gen # 0
================================================================================
