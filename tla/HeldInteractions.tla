-------------------------- MODULE HeldInteractions --------------------------
(***************************************************************************)
(* The questions one session's app-server puts to the human, from the      *)
(* request it makes to the answer it gets: the rows of                     *)
(* SqlitePendingInteractionStore, the requests CodexSessionRuntime holds   *)
(* for its process, AttentionAcknowledgement's deadlines, and the          *)
(* operations AttentionResolution has in flight. Two kinds: an attention   *)
(* request of an Org plan's supervisor (acknowledged at once, answered     *)
(* under an operation key, its guidance sent as supervisor input), and an  *)
(* approval (held until it is answered).                                   *)
(*                                                                         *)
(* A request id is the app-server's JSON-RPC id: each process counts its   *)
(* own, so the ids of two processes collide.                               *)
(*                                                                         *)
(* Scope: the Codex runtime; quizzes, checkpoints and the Kimi provider    *)
(* are not modelled. An answer a joined retry shares is one answer.        *)
(***************************************************************************)
EXTENDS Naturals, FiniteSets

CONSTANTS Key, NoKey,     \* operation keys of the clients
          MaxRequests,    \* bound: requests one app-server process makes
          MaxProcs,       \* bound: app-server processes of the session
          MaxCrashes      \* budget of relay crashes and shutdowns

ASSUME KeyAssumption == NoKey \notin Key
ASSUME BoundsAssumption ==
    MaxRequests \in Nat \ {0} /\ MaxProcs \in Nat \ {0} /\ MaxCrashes \in Nat

Request == 1 .. MaxRequests
Kind == {"attention", "approval"}
State == {"active", "acknowledged", "delivering", "resolved", "failed"}
Closed == {"answered", "failed", "dismissed"}
Absent == [kind |-> "none", state |-> "active", key |-> NoKey, outcome |-> "none", by |-> 0]
NoReply == [req |-> 0, key |-> NoKey, kind |-> "none"]

VARIABLES
    rows,     \* pending_interactions, by request id; by is a ghost: the process that asked
    proc,     \* the app-server process: its number, the next id, what is held for it,
              \* and (external) the requests it has not yet reported resolved
    armed,    \* requests with an acknowledgement deadline
    ops,      \* AttentionResolution.operations that await their guidance
    saved,    \* the idempotency replays of accepted operations
    reply,    \* the answer the step just gave to a client's operation
    alive,    \* the relay process runs
    left,     \* what remains of MaxCrashes
    history   \* ghost: how often each decision was carried out, what a crash tore

vars == <<rows, proc, armed, ops, saved, reply, alive, left, history>>

-----------------------------------------------------------------------------
IsOpen(r) == rows[r].outcome = "open"
IsClosed(r) == rows[r].outcome \in Closed
OpenAttention(r) == rows[r].kind = "attention" /\ IsOpen(r)

Answered(r) == rows[r].kind = "attention" /\ rows[r].outcome = "answered"

\* claimOperation: the first key, or a retry of the same one
Claims(r, k) == rows[r].key \in {NoKey, k}

InFlight(r, k) == \E op \in ops : op.req = r /\ op.key = k

\* the row survives a writer's end while nobody is delivering its answer
Acknowledged(row) == row.kind = "attention" /\ row.state = "acknowledged"

\* dismissPendingInteractions
Dismissed(rs, outcome) ==
    [r \in Request |->
        IF rs[r].outcome = "open" /\ ~Acknowledged(rs[r])
        THEN [rs[r] EXCEPT !.outcome = outcome] ELSE rs[r]]

\* a process starts with nothing held and counts its requests from 1
Started(p) == [gen |-> p.gen + 1, up |-> TRUE, next |-> 1,
               held |-> [r \in Request |-> "none"], unresolved |-> {}]

Stopped(p) == [p EXCEPT !.up = FALSE, !.held = [r \in Request |-> "none"], !.unresolved = {}]

\* what was sent to a process that ended is not answered by it any more
Orphaned(os) == {[op EXCEPT !.stage = IF @ = "sent" THEN "lost" ELSE @] : op \in os}

EnsureWriter == proc' = IF proc.up THEN proc ELSE Started(proc)

Says(r, k, kind) == reply' = [req |-> r, key |-> k, kind |-> kind]
Silent == reply' = NoReply

WithinBounds == proc'.gen <= MaxProcs

(* ----------------------------- the app-server -------------------------- *)
\* interactions.add: an attention row is never overwritten
Added(r, kind, state) ==
    IF rows[r].kind = "attention" THEN rows
    ELSE [rows EXCEPT ![r] = [kind |-> kind, state |-> state, key |-> NoKey,
                              outcome |-> "open", by |-> proc.gen]]

\* the acknowledgement (or the refusal) is written, and its deadline armed
Asked(saves) ==
    /\ armed' = armed \cup {proc.next}
    /\ proc' = [proc EXCEPT !.next = @ + 1, !.held[proc.next] = "acking",
                            !.unresolved = @ \cup {proc.next}]

\* a duplicate pending id fails in requestInteraction(), after the row was
\* written: for attention that is only a diagnostic
RaiseAttention ==
    /\ alive /\ proc.up /\ proc.next \in Request
    /\ \E saves \in BOOLEAN :
          /\ rows' = IF saves THEN Added(proc.next, "attention", "acknowledged") ELSE rows
          /\ Asked(saves)
    /\ Silent
    /\ UNCHANGED <<ops, saved, alive, left, history>>

\* faulty variant of Holds: requestInteraction() does not refuse a pending id
HoldsAlways(published) == published

Holds(published) == published /\ ~IsOpen(proc.next)

\* an approval that cannot be published is refused with an error; its row,
\* written first, stays
RaiseApproval ==
    /\ alive /\ proc.up /\ proc.next \in Request
    /\ \E saves, published \in BOOLEAN :
          /\ published => saves
          /\ rows' = IF saves THEN Added(proc.next, "approval", "active") ELSE rows
          /\ proc' = [proc EXCEPT !.next = @ + 1,
                                  !.held[proc.next] = IF Holds(published) THEN "held" ELSE "none",
                                  !.unresolved = @ \cup {proc.next}]
    /\ Silent
    /\ UNCHANGED <<armed, ops, saved, alive, left, history>>

\* the response was written, or its write failed: both release the deadline
ResponseSettles(r) ==
    /\ proc.held[r] \in {"acking", "settling"}
    /\ proc' = [proc EXCEPT !.held[r] = "none"]
    /\ armed' = armed \ {r}
    /\ Silent
    /\ UNCHANGED <<rows, ops, saved, alive, left, history>>

\* serverRequest/resolved: the request is over for the app-server
RequestCleared(r) ==
    /\ r \in proc.unresolved
    /\ proc' = [proc EXCEPT !.held[r] = "none", !.unresolved = @ \ {r}]
    /\ rows' = IF IsOpen(r) /\ ~Acknowledged(rows[r])
               THEN [rows EXCEPT ![r].outcome =
                        IF rows[r].kind = "attention" THEN "failed" ELSE "dismissed"]
               ELSE rows
    /\ Silent
    /\ UNCHANGED <<armed, ops, saved, alive, left, history>>

\* a response that is stuck in the pipe costs the writer, never the attention
Deadline(r) ==
    /\ r \in armed
    /\ armed' = armed \ {r}
    /\ IF proc.held[r] = "none" THEN UNCHANGED <<proc, ops>>
       ELSE proc' = Stopped(proc) /\ ops' = Orphaned(ops)
    /\ Silent
    /\ UNCHANGED <<rows, saved, alive, left, history>>

WriterExits ==
    /\ alive /\ proc.up
    /\ rows' = Dismissed(rows, "failed")
    /\ proc' = Stopped(proc) /\ ops' = Orphaned(ops)
    /\ Silent
    /\ UNCHANGED <<armed, saved, alive, left, history>>

\* recovery, recycle's restore or an automatic turn acquires the writer
WriterStarts ==
    /\ alive /\ ~proc.up
    /\ EnsureWriter /\ Silent /\ WithinBounds
    /\ UNCHANGED <<rows, armed, ops, saved, alive, left, history>>

(* ------------------------------- the human ----------------------------- *)
\* POST /turns of an idle session: what is pending is dismissed first
HumanTurn ==
    /\ alive
    /\ rows' = Dismissed(rows, "dismissed")
    /\ EnsureWriter /\ Silent /\ WithinBounds
    /\ UNCHANGED <<armed, ops, saved, alive, left, history>>

\* stop, release or forget
Release ==
    /\ alive /\ proc.up
    /\ rows' = Dismissed(rows, "dismissed")
    /\ proc' = Stopped(proc) /\ ops' = Orphaned(ops)
    /\ Silent
    /\ UNCHANGED <<armed, saved, alive, left, history>>

\* POST /interactions/:id; false of the runtime means cleared
Respond(r) ==
    /\ alive /\ rows[r].kind = "approval" /\ IsOpen(r)
    /\ IF proc.held[r] = "held"
       THEN /\ proc' = [proc EXCEPT !.held[r] = "settling"]
            /\ rows' = [rows EXCEPT ![r].outcome = "answered"]
       ELSE rows' = [rows EXCEPT ![r].outcome = "dismissed"] /\ UNCHANGED proc
    /\ Silent
    /\ UNCHANGED <<armed, ops, saved, alive, left, history>>

(* ------------------------- AttentionResolution ------------------------- *)
\* faulty variant of SettledRow: the settlement does not look at the row's key or state
SettledAnyRow(row, k, outcome) ==
    [row EXCEPT !.outcome = outcome, !.state = IF outcome = "failed" THEN "failed" ELSE "resolved"]

\* faulty variant of SettledRow: the outcome is written as the delivery state
SettledAsOutcome(row, k, outcome) ==
    IF row.outcome = "open" /\ row.key = k /\ row.state = "delivering"
    THEN [row EXCEPT !.outcome = outcome, !.state = outcome] ELSE row

\* settleOperation changes nothing unless the row is the key's own delivery
SettledRow(row, k, outcome) ==
    IF row.outcome = "open" /\ row.key = k /\ row.state = "delivering"
    THEN [row EXCEPT !.outcome = outcome,
                     !.state = IF outcome = "failed" THEN "failed" ELSE "resolved"]
    ELSE row

\* claimOperation and beginDelivery
Begun(row, k) == [row EXCEPT !.key = k, !.state = "delivering"]

\* faulty variant of Retried: a failed delivery is not taken back
RetriedNever(row, k, state) == row

\* retryDelivery
Retried(row, k, state) ==
    IF row.outcome = "open" /\ row.key = k /\ row.state = "delivering"
    THEN [row EXCEPT !.state = state] ELSE row

\* faulty variant of SettleAnswered: remembers and enables before it settles
SettleAnsweredLate(r, k, row) ==
    /\ rows' = [rows EXCEPT ![r] = SettledRow(row, k, "answered")]
    /\ saved' = saved \cup {<<r, k>>}
    /\ history' = [history EXCEPT !.done[r] = @ + 1]
    /\ Says(r, k, "accepted")

\* settleAnswered: settle, remember, publish, then Autopilot On or Off
SettleAnswered(r, k, row) ==
    LET settled == SettledRow(row, k, "answered")
    IN  /\ rows' = [rows EXCEPT ![r] = settled]
        /\ IF settled # row
           THEN /\ saved' = saved \cup {<<r, k>>}
                /\ history' = [history EXCEPT !.done[r] = @ + 1]
                /\ Says(r, k, "accepted")
           ELSE Says(r, k, "stale") /\ UNCHANGED <<saved, history>>

\* the request is answered without an operation of its own
Replayed(r, k) == \/ <<r, k>> \in saved
                  \/ IsClosed(r) /\ rows[r].key = k

Replay(r, k) ==
    /\ alive /\ Replayed(r, k)
    /\ Says(r, k, IF <<r, k>> \notin saved /\ rows[r].outcome = "failed" THEN "cleared"
                                                                        ELSE "replayed")
    /\ UNCHANGED <<rows, proc, armed, ops, saved, alive, left, history>>

Stale(r, k) ==
    /\ alive /\ ~Replayed(r, k)
    /\ \/ IsClosed(r)
       \/ OpenAttention(r) /\ ~Claims(r, k)
    /\ Says(r, k, "stale")
    /\ UNCHANGED <<rows, proc, armed, ops, saved, alive, left, history>>

\* the request becomes the operation of the key
Opens(r, k) == alive /\ OpenAttention(r) /\ Claims(r, k) /\ ~InFlight(r, k)

\* no runtime, no capability, or a replacement that is not authorized: the
\* claim stays; a delivery that was begun goes back to where it came from
Refuse(r, k) ==
    /\ Opens(r, k)
    /\ \E state \in (IF rows[r].state = "acknowledged" THEN {"acknowledged"}
                                                      ELSE {rows[r].state, "active"}) :
          rows' = [rows EXCEPT ![r].key = k, ![r].state = state]
    /\ Says(r, k, "unavailable")
    /\ UNCHANGED <<proc, armed, ops, saved, alive, left, history>>

\* an acknowledged request without guidance needs no writer
Decide(r, k) ==
    /\ Opens(r, k) /\ rows[r].state = "acknowledged"
    /\ SettleAnswered(r, k, Begun(rows[r], k))
    /\ UNCHANGED <<proc, armed, ops, alive, left>>

\* with guidance, the operation awaits the writer and then its reply
Guide(r, k) ==
    /\ Opens(r, k) /\ rows[r].state = "acknowledged"
    /\ rows' = [rows EXCEPT ![r] = Begun(rows[r], k)]
    /\ ops' = ops \cup {[req |-> r, key |-> k, stage |-> "acquiring"]}
    /\ Silent
    /\ UNCHANGED <<proc, armed, saved, alive, left, history>>

GuidanceSent(op) ==
    /\ op \in ops /\ op.stage = "acquiring"
    /\ EnsureWriter /\ WithinBounds
    /\ ops' = (ops \ {op}) \cup {[op EXCEPT !.stage = "sent"]}
    /\ Silent
    /\ UNCHANGED <<rows, armed, saved, alive, left, history>>

GuidanceAccepted(op) ==
    /\ op \in ops /\ op.stage = "sent"
    /\ ops' = ops \ {op}
    /\ SettleAnswered(op.req, op.key, rows[op.req])
    /\ UNCHANGED <<proc, armed, alive, left>>

\* no writer, an error, or a process that ended first
GuidanceFails(op) ==
    /\ op \in ops
    /\ ops' = ops \ {op}
    /\ rows' = [rows EXCEPT ![op.req] = Retried(rows[op.req], op.key, "acknowledged")]
    /\ Says(op.req, op.key, "unavailable")
    /\ UNCHANGED <<proc, armed, saved, alive, left, history>>

\* a request that is not acknowledged is answered to the writer that holds it
Deliver(r, k) ==
    /\ Opens(r, k) /\ rows[r].state \in {"active", "delivering"}
    /\ CASE ~proc.up ->
              /\ rows' = [rows EXCEPT ![r].key = k, ![r].state = "active"]
              /\ Says(r, k, "unavailable")
              /\ UNCHANGED <<proc, saved, history>>
         [] proc.up /\ proc.held[r] = "held" ->
              /\ proc' = [proc EXCEPT !.held[r] = "settling"]
              /\ SettleAnswered(r, k, Begun(rows[r], k))
         [] OTHER ->
              /\ rows' = [rows EXCEPT ![r] = SettledRow(Begun(@, k), k, "failed")]
              /\ Says(r, k, "cleared")
              /\ UNCHANGED <<proc, saved, history>>
    /\ UNCHANGED <<armed, ops, alive, left>>

(* --------------------------- crash and restart ------------------------- *)
Down ==
    /\ alive /\ left > 0
    /\ alive' = FALSE /\ left' = left - 1
    /\ proc' = Stopped(proc) /\ armed' = {} /\ ops' = {}
    /\ Silent

Crash == Down /\ UNCHANGED <<rows, saved, history>>

\* the relay dies inside settleAnswered, before Autopilot was told
TornSettlement(r, k) ==
    /\ \/ Opens(r, k) /\ rows[r].state = "acknowledged"
       \/ [req |-> r, key |-> k, stage |-> "sent"] \in ops /\ OpenAttention(r)
    /\ Down
    /\ rows' = [rows EXCEPT ![r] = SettledRow(Begun(@, k), k, "answered")]
    /\ saved' \in {saved, saved \cup {<<r, k>>}}
    /\ history' = [history EXCEPT !.torn = @ \cup {r}]

\* onClose: only attention and checkpoints outlive the relay
Shutdown ==
    /\ Down
    /\ rows' = [r \in Request |-> IF rows[r].kind = "approval" /\ IsOpen(r)
                                  THEN [rows[r] EXCEPT !.outcome = "dismissed"] ELSE rows[r]]
    /\ UNCHANGED <<saved, history>>

Restart ==
    /\ ~alive
    /\ alive' = TRUE
    /\ Silent
    /\ UNCHANGED <<rows, proc, armed, ops, saved, left, history>>

-----------------------------------------------------------------------------
Init ==
    /\ rows = [r \in Request |-> Absent]
    /\ proc = [gen |-> 1, up |-> TRUE, next |-> 1, held |-> [r \in Request |-> "none"],
               unresolved |-> {}]
    /\ armed = {} /\ ops = {} /\ saved = {} /\ reply = NoReply
    /\ alive = TRUE /\ left = MaxCrashes
    /\ history = [done |-> [r \in Request |-> 0], torn |-> {}]

AppServer ==
    \/ RaiseAttention \/ RaiseApproval \/ WriterExits \/ WriterStarts
    \/ \E r \in Request : ResponseSettles(r) \/ RequestCleared(r) \/ Deadline(r)

Human == HumanTurn \/ Release \/ \E r \in Request : Respond(r)

Operation(r, k) == Replay(r, k) \/ Stale(r, k) \/ Refuse(r, k) \/ Decide(r, k)
                   \/ Guide(r, k) \/ Deliver(r, k)

Guidance == \E op \in ops : GuidanceSent(op) \/ GuidanceAccepted(op) \/ GuidanceFails(op)

Losses == Crash \/ Shutdown \/ Restart
          \/ \E r \in Request, k \in Key : TornSettlement(r, k)

Next == AppServer \/ Human \/ Guidance \/ Losses
        \/ \E r \in Request, k \in Key : Operation(r, k)

Spec == Init /\ [][Next]_vars
-----------------------------------------------------------------------------
Row == [kind : Kind \cup {"none"}, state : State, key : Key \cup {NoKey},
        outcome : Closed \cup {"none", "open"}, by : 0 .. MaxProcs]
Process == [gen : 1 .. MaxProcs, up : BOOLEAN, next : 1 .. MaxRequests + 1,
            held : [Request -> {"none", "held", "acking", "settling"}],
            unresolved : SUBSET Request]
Op == [req : Request, key : Key, stage : {"acquiring", "sent", "lost"}]
Reply == [req : Request \cup {0}, key : Key \cup {NoKey},
          kind : {"none", "accepted", "replayed", "stale", "unavailable", "cleared"}]
History == [done : [Request -> Nat], torn : SUBSET Request]

(* Type invariant. *)
TypeOK ==
    /\ rows \in [Request -> Row]
    /\ proc \in Process
    /\ armed \subseteq Request
    /\ ops \subseteq Op
    /\ saved \subseteq Request \X Key
    /\ reply \in Reply
    /\ alive \in BOOLEAN
    /\ left \in 0 .. MaxCrashes
    /\ history \in History

(* A decision is carried out (Autopilot switched on or off, resolve.ts        *)
(* settleAnswered) at most once, exactly for the questions recorded as        *)
(* answered, a crash inside the settlement excepted; and the idempotency      *)
(* table replays success only to the key whose answer it was.                 *)
CarriedOut ==
    /\ \A r \in Request :
          /\ history.done[r] <= 1
          /\ history.done[r] = 1 => r \notin history.torn
          /\ (history.done[r] = 1 \/ r \in history.torn) <=> Answered(r)
    /\ \A s \in saved : Answered(s[1]) /\ rows[s[1]].key = s[2]

(* A question is with one operation at a time (claimOperation): the one in    *)
(* flight holds the row's key; and an open question is 'delivering' exactly   *)
(* while an operation is in flight, unless the relay died under one: a failed *)
(* delivery always gives the question back.                                   *)
OneDelivery ==
    /\ \A op, other \in ops : op.req = other.req => op = other
    /\ \A op \in ops : rows[op.req].kind = "attention" /\ rows[op.req].key = op.key
    /\ \A r \in Request :
          OpenAttention(r) =>
             /\ (\E op \in ops : op.req = r) => rows[r].state = "delivering"
             /\ rows[r].state = "delivering" =>
                   (\E op \in ops : op.req = r) \/ left < MaxCrashes

(* An acknowledgement that is still being written has a deadline, so that a   *)
(* blocked pipe costs the writer and never waits for ever (composition.ts     *)
(* arms it after the rejection of an attention request as well).              *)
AcknowledgementWatched == \A r \in Request : proc.held[r] = "acking" => r \in armed

(* Request ids collide between processes, but what is answered to a held      *)
(* request is the answer to the question this very process asked.             *)
RightCall ==
    [][\A r \in Request :
          proc.held[r] = "held" /\ proc'.held[r] = "settling" => rows[r].by = proc.gen]_vars

\* a held request whose row is open is the approval this process asked for
HeldIsOwn ==
    \A r \in Request : proc.held[r] = "held" /\ IsOpen(r) =>
        rows[r].kind = "approval" /\ rows[r].by = proc.gen

(* The inductive invariant behind the theorems: the invariants above, and     *)
(* that a colliding request id never gives a held request another's row.      *)
IInv == TypeOK /\ CarriedOut /\ OneDelivery /\ AcknowledgementWatched /\ HeldIsOwn

\* the question of a row, as AttentionDecision sees it
Question(r) ==
    [state |-> IF IsOpen(r) THEN "open"
               ELSE IF rows[r].outcome = "answered" THEN "answered" ELSE "lost",
     owner |-> rows[r].key,
     done |-> history.done[r] > 0]

Decision == INSTANCE AttentionDecision WITH
    asked <- [r \in Request |->
                 IF rows[r].kind = "attention" THEN Question(r)
                 ELSE [state |-> "unasked", owner |-> NoKey, done |-> FALSE]]

(* Through writers, retries and crashes the questions are claimed, answered   *)
(* and lost as AttentionDecision allows: a lost question is never answered,   *)
(* an answered one never answered again or lost, nor taken by another key.    *)
DecisionSpec == Decision!Spec
=============================================================================
