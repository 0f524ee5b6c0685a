---------------------- MODULE AutopilotControl_proofs ----------------------
(***************************************************************************)
(* Theorems of AutopilotControl for every value of its bounds. The first   *)
(* part shows what each decision of the coordinator does to a row, the     *)
(* second that every action preserves the inductive invariant, the third   *)
(* that a row in backoff keeps a wake.                                     *)
(***************************************************************************)
EXTENDS AutopilotControl, TLAPS

CoOK(c) == c \in CoType /\ LedgerOK(c) /\ QueueOK(c)

(* How a decision may change a row: controls are only scheduled or         *)
(* cancelled, the generation grows, and turning Off makes it grow.         *)
Forward(s, t) ==
    \/ t = s
    \/ s = "none" /\ t \in {"scheduled", "cancelled"}
    \/ s = "scheduled" /\ t = "cancelled"

Advance(c, d) ==
    /\ d.gen >= c.gen
    /\ c.on /\ ~d.on => d.gen > c.gen
    /\ Len(d.queue) >= Len(c.queue)
    /\ \A k \in Control : Forward(c.ctl[k], d.ctl[k])

Step(c, d) == CoOK(d) /\ Advance(c, d)

(* A change that leaves the ledger and the queue alone.                    *)
Calm(c, d) ==
    /\ d.ctl = c.ctl /\ d.used = c.used /\ d.queue = c.queue /\ d.reconciling = c.reconciling
    /\ d.gen >= c.gen
    /\ d.last = c.last \/ ~Scheduled(c)
    /\ d.on \/ ~c.on \/ (d.gen > c.gen /\ ~Scheduled(c))

LEMMA Fields ==
    ASSUME NEW c \in CoType
    PROVE  /\ c.on \in BOOLEAN /\ c.mode \in Mode /\ c.gen \in Nat /\ c.last \in Nat
           /\ c.used \in Nat /\ c.ctl \in [Control -> Status] /\ c.queue \in Seq(Op)
           /\ Len(c.queue) \in Nat /\ c.reconciling \in BOOLEAN
  BY DEF CoType, Gen

LEMMA StepTransitive ==
    ASSUME NEW c, NEW d, NEW e, CoOK(c), Step(c, d), Step(d, e)
    PROVE  Step(c, e)
<1>1. c \in CoType /\ d \in CoType /\ e \in CoType
  BY DEF Step, CoOK
<1>2. QED
  BY <1>1, Fields, SMTT(40) DEF Step, Advance, Forward

LEMMA StepReflexive ==
    ASSUME NEW c, CoOK(c)
    PROVE  Step(c, c)
<1>1. c \in CoType
  BY DEF CoOK
<1>2. QED
  BY <1>1, Fields DEF Step, Advance, Forward

LEMMA CalmStep ==
    ASSUME NEW c, NEW d \in CoType, CoOK(c), Calm(c, d)
    PROVE  Step(c, d)
<1>1. c \in CoType
  BY DEF CoOK
<1>2. LedgerOK(d)
  BY <1>1, Fields DEF CoOK, LedgerOK, Calm, Scheduled, LastIs
<1>3. QueueOK(d)
  BY DEF CoOK, QueueOK, Calm
<1>4. Advance(c, d)
  BY <1>1, Fields DEF Advance, Forward, Calm
<1>5. QED
  BY <1>2, <1>3, <1>4 DEF Step, CoOK

LEMMA CancelTimerStep ==
    ASSUME NEW c, CoOK(c)
    PROVE  /\ Step(c, CancelTimer(c))
           /\ CancelTimer(c).on = c.on /\ CancelTimer(c).gen = c.gen
           /\ CancelTimer(c).last = c.last /\ CancelTimer(c).ctl = c.ctl
<1>1. c \in CoType
  BY DEF CoOK
<1>2. CancelTimer(c) \in CoType
  BY <1>1 DEF CoType, CancelTimer, Gen, Watch, Mode, Unarmed
<1>3. /\ Calm(c, CancelTimer(c))
      /\ CancelTimer(c).on = c.on /\ CancelTimer(c).gen = c.gen
      /\ CancelTimer(c).last = c.last /\ CancelTimer(c).ctl = c.ctl
  BY <1>1 DEF CoType, Gen, CancelTimer, Calm
<1>4. QED
  BY <1>2, <1>3, CalmStep

LEMMA ArmStep ==
    ASSUME NEW c, CoOK(c)
    PROVE  Step(c, Arm(c))
<1> DEFINE d == CancelTimer(c)
<1>1. Step(c, d) /\ d \in CoType /\ c \in CoType
  BY CancelTimerStep DEF CoOK, Step
<1>2. c.gen \in Gen
  BY <1>1 DEF CoType
<1>3. Arm(c) \in CoType
  BY <1>1, <1>2 DEF CoType, Arm
<1>4. Calm(d, Arm(c))
  BY <1>1 DEF CoType, Gen, Arm, Calm
<1>5. QED
  BY <1>1, <1>3, <1>4, CalmStep, StepTransitive DEF Step

LEMMA ArmRefreshStep ==
    ASSUME NEW c, CoOK(c), NEW t
    PROVE  Step(c, ArmRefresh(c, t))
<1>1. c \in CoType
  BY DEF CoOK
<1>2. CASE ArmRefresh(c, t) = c
  BY <1>2, StepReflexive
<1>3. CASE ArmRefresh(c, t) # c
  <2> DEFINE w == [gen |-> c.gen, mode |-> c.mode]
  <2>1. ArmRefresh(c, t) = [c EXCEPT !.watch = w]
    BY <1>3 DEF ArmRefresh
  <2>2. w \in Watch
    BY <1>1 DEF CoType, Watch
  <2>3. [c EXCEPT !.watch = w] \in CoType
    BY <1>1, <2>2 DEF CoType
  <2>4. Calm(c, [c EXCEPT !.watch = w])
    BY <1>1 DEF CoType, Gen, Calm
  <2>5. QED
    BY <2>1, <2>3, <2>4, CalmStep
<1>4. QED
  BY <1>2, <1>3

LEMMA CancelControlStep ==
    ASSUME NEW c, CoOK(c)
    PROVE  Step(c, CancelControl(c)) /\ ~Scheduled(CancelControl(c))
           /\ CancelControl(c).on = c.on /\ CancelControl(c).gen = c.gen
<1>1. c \in CoType
  BY DEF CoOK
<1>2. CASE ~Scheduled(c)
  BY <1>2, StepReflexive DEF CancelControl
<1>3. CASE Scheduled(c)
  <2> DEFINE d == CancelControl(c)
  <2>1. c.last \in Control /\ c.ctl[c.last] = "scheduled"
    BY <1>3 DEF Scheduled, LastIs
  <2>2. d \in CoType
    BY <1>1, <1>3, <2>1 DEF CoType, CancelControl, Status
  <2>3. /\ d.on = c.on /\ d.gen = c.gen /\ d.last = 0 /\ d.used = c.used
        /\ d.queue = c.queue /\ d.reconciling = c.reconciling
        /\ d.ctl = [c.ctl EXCEPT ![c.last] = "cancelled"]
    BY <1>1, <1>3 DEF CoType, CancelControl
  <2>4. LedgerOK(d)
    BY <1>1, <2>1, <2>3, Fields DEF CoOK, LedgerOK
  <2>5. QueueOK(d)
    BY <2>3 DEF CoOK, QueueOK
  <2>6. Advance(c, d)
    BY <1>1, <2>1, <2>3, Fields DEF Advance, Forward
  <2>7. ~Scheduled(d)
    BY <2>3 DEF Scheduled, LastIs, Control
  <2>8. QED
    BY <2>2, <2>3, <2>4, <2>5, <2>6, <2>7 DEF CoOK, Step
<1>4. QED
  BY <1>2, <1>3

LEMMA WithdrawControlStep ==
    ASSUME NEW c, CoOK(c)
    PROVE  Step(c, WithdrawControl(c)) /\ ~Scheduled(WithdrawControl(c))
<1> DEFINE d == CancelControl(c)
           e == WithdrawControl(c)
<1>1. Step(c, d) /\ d \in CoType /\ ~Scheduled(d) /\ CoOK(d)
  BY CancelControlStep DEF CoOK, Step
<1>2. e \in CoType
  <2>1. d.gen \in Gen /\ d.gen + 1 \in Gen
    BY <1>1, Fields DEF Gen
  <2>2. PICK g \in Gen : e = [d EXCEPT !.mode = "monitoring", !.gen = g]
    BY <2>1 DEF WithdrawControl
  <2>3. QED
    BY <1>1, <2>2, ZenonT(60) DEF CoType, Mode
<1>3. Calm(d, e) /\ e.last = d.last
  BY <1>1 DEF CoType, Gen, WithdrawControl, Calm
<1>4. Step(c, e)
  BY <1>1, <1>2, <1>3, CalmStep, StepTransitive
<1>5. QED
  BY <1>1, <1>3, <1>4 DEF Scheduled, LastIs, Calm

(* A start concludes the control it holds, and no other.                   *)
Concluded(c, d, k, status) ==
    CoOK(d) /\ d.queue = c.queue /\ d.ctl = [c.ctl EXCEPT ![k] = status]

LEMMA UpdateControlStep ==
    ASSUME NEW c, CoOK(c), NEW k \in Control, c.ctl[k] = "issued",
           NEW status \in {"started", "failed"}, NEW t \in Turn \cup {0}
    PROVE  Concluded(c, UpdateControl(c, k, status, t), k, status)
<1> DEFINE d == UpdateControl(c, k, status, t)
<1>1. c \in CoType /\ SqlAllows(c.ctl[k], status)
  BY DEF CoOK, SqlAllows
<1>2. d \in CoType
  BY <1>1, ZenonT(60) DEF CoType, Status, UpdateControl
<1>3. /\ d.on = c.on /\ d.last = c.last /\ d.used = c.used
      /\ d.queue = c.queue /\ d.reconciling = c.reconciling
      /\ d.ctl = [c.ctl EXCEPT ![k] = status]
  BY <1>1 DEF CoType, UpdateControl
<1>4. LedgerOK(d)
  BY <1>1, <1>3, Fields DEF CoOK, LedgerOK
<1>5. QueueOK(d)
  BY <1>3 DEF CoOK, QueueOK
<1>6. QED
  BY <1>2, <1>3, <1>4, <1>5 DEF CoOK, Concluded

LEMMA OffStep ==
    ASSUME NEW c, CoOK(c)
    PROVE  Step(c, Off(c)) /\ Off(c).gen > c.gen
<1> DEFINE d == CancelControl(c)
           e == [d EXCEPT !.mode = "disabled", !.on = FALSE, !.gen = @ + 1]
<1>1. Step(c, d) /\ d \in CoType /\ ~Scheduled(d) /\ CoOK(d) /\ d.gen = c.gen
  BY CancelControlStep DEF CoOK, Step
<1>2. e \in CoType
  <2>1. d.gen + 1 \in Gen
    BY <1>1, Fields DEF Gen
  <2>2. QED
    BY <1>1, <2>1 DEF CoType, Mode
<1>3. Calm(d, e) /\ e.gen = d.gen + 1
  BY <1>1 DEF CoType, Gen, Calm
<1>4. Step(c, e) /\ CoOK(e)
  BY <1>1, <1>2, <1>3, CalmStep, StepTransitive DEF Step
<1>5. Step(e, Off(c)) /\ Off(c).gen = e.gen
  BY <1>4, CancelTimerStep DEF Off
<1>6. c.gen \in Nat
  BY Fields DEF CoOK
<1>7. QED
  BY <1>1, <1>3, <1>4, <1>5, <1>6, StepTransitive

LEMMA RequestReconcileStep ==
    ASSUME NEW c, CoOK(c)
    PROVE  Step(c, RequestReconcile(c))
<1> DEFINE m == [c EXCEPT !.mode = "monitoring"]
           o == [kind |-> "reconcile", gen |-> c.gen, mode |-> "monitoring"]
           e == [Enqueue(m, "reconcile", c.gen, "monitoring") EXCEPT !.reconciling = TRUE]
<1>1. c \in CoType
  BY DEF CoOK
<1>2. m \in CoType /\ Calm(c, m) /\ m.queue = c.queue /\ m.reconciling = c.reconciling
  BY <1>1, SMTT(40) DEF CoType, Gen, Mode, Calm
<1>3. Step(c, m) /\ CoOK(m)
  BY <1>2, CalmStep DEF Step
<1>4. CASE c.reconciling
  BY <1>3, <1>4 DEF RequestReconcile
<1>5. CASE ~c.reconciling
  <2>1. o \in Op
    BY <1>1 DEF CoType, Op, OpKind, Mode
  <2>2. Append(m.queue, o) \in Seq(Op) /\ Len(Append(m.queue, o)) = Len(m.queue) + 1
    <3>1. m.queue \in Seq(Op)
      BY <1>2, Fields
    <3>2. QED
      BY <2>1, <3>1
  <2>3. e \in CoType
    BY <1>2, <2>2 DEF CoType, Enqueue
  <2>4. /\ e.on = m.on /\ e.gen = m.gen /\ e.last = m.last /\ e.used = m.used
        /\ e.ctl = m.ctl /\ e.queue = Append(m.queue, o) /\ e.reconciling
    BY <1>2 DEF CoType, Enqueue
  <2>5. LedgerOK(e)
    BY <1>3, <2>4 DEF CoOK, LedgerOK
  <2>6. QueueOK(e)
    BY <1>2, <1>3, <1>5, <2>2, <2>4, Fields, BoundsAssumption, SMTT(40) DEF CoOK, QueueOK
  <2>7. Advance(m, e)
    <3> HIDE DEF m, e
    <3>1. e.queue = Append(m.queue, o) /\ e.gen = m.gen /\ e.on = m.on /\ e.ctl = m.ctl
      BY <2>4
    <3>2. Len(m.queue) \in Nat /\ m.gen \in Nat
      BY <1>2, Fields
    <3>3. Len(e.queue) >= Len(m.queue) /\ e.gen >= m.gen
      BY <2>2, <3>1, <3>2
    <3>4. QED
      BY <3>1, <3>3 DEF Advance, Forward
  <2>8. Step(m, e)
    BY <2>3, <2>5, <2>6, <2>7 DEF Step, CoOK
  <2>9. RequestReconcile(c) = e
    BY <1>5 DEF RequestReconcile
  <2>10. QED
    BY <1>3, <2>8, <2>9, StepTransitive DEF Step
<1>6. QED
  BY <1>4, <1>5

LEMMA ScheduleStep ==
    ASSUME NEW c, CoOK(c), c.on
    PROVE  Step(c, Schedule(c))
<1>1. c \in CoType
  BY DEF CoOK
<1>2. CASE Scheduled(c)
  <2> DEFINE d == [c EXCEPT !.mode = "backoff"]
  <2>1. d \in CoType /\ Calm(c, d)
    BY <1>1, SMTT(40) DEF CoType, Gen, Mode, Calm
  <2>2. Step(c, d) /\ Step(d, Arm(d))
    BY <2>1, CalmStep, ArmStep DEF Step
  <2>3. Schedule(c) = Arm(d)
    BY <1>2 DEF Schedule
  <2>4. QED
    BY <2>2, <2>3, StepTransitive DEF Step
<1>3. CASE ~Scheduled(c)
  <2> DEFINE f == [k \in Control |-> IF k = c.used + 1 THEN "scheduled" ELSE c.ctl[k]]
             d == [c EXCEPT !.mode = "backoff", !.last = c.used + 1, !.used = @ + 1, !.ctl = f]
  <2>1. f \in [Control -> Status]
    BY <1>1, Fields DEF Status
  <2>2. d \in CoType
    <3>1. c.used + 1 \in Nat
      BY <1>1, Fields
    <3>2. QED
      BY <1>1, <2>1, <3>1 DEF CoType, Mode
  <2>3. /\ d.on = c.on /\ d.gen = c.gen /\ d.last = c.used + 1 /\ d.used = c.used + 1
        /\ d.ctl = f /\ d.queue = c.queue /\ d.reconciling = c.reconciling
    BY <1>1 DEF CoType
  <2>4. \A k \in Control : c.ctl[k] # "scheduled"
    BY <1>3 DEF CoOK, LedgerOK, Scheduled, LastIs
  <2>5. \A k \in Control : c.ctl[k] = "none" <=> k > c.used
    BY DEF CoOK, LedgerOK
  <2>6. LedgerOK(d)
    BY <1>1, <2>3, <2>4, <2>5, Fields DEF LedgerOK, Control
  <2>7. QueueOK(d)
    BY <2>3 DEF CoOK, QueueOK
  <2>8. Advance(c, d)
    BY <1>1, <2>3, <2>5, Fields DEF Advance, Forward, Control
  <2>9. Step(c, d) /\ Step(d, Arm(d))
    BY <2>2, <2>6, <2>7, <2>8, ArmStep DEF Step, CoOK
  <2>10. Schedule(c) = Arm(d)
    BY <1>3 DEF Schedule
  <2>11. QED
    BY <2>9, <2>10, StepTransitive DEF Step
<1>4. QED
  BY <1>2, <1>3

LEMMA EvaluateStep ==
    ASSUME NEW c, CoOK(c), NEW a, NEW t
    PROVE  Step(c, Evaluate(c, a, t))
  BY StepReflexive, OffStep, RequestReconcileStep, ScheduleStep DEF Evaluate

LEMMA ActivitySettledStep ==
    ASSUME NEW c, CoOK(c)
    PROVE  Step(c, ActivitySettled(c))
<1>1. c \in CoType
  BY DEF CoOK
<1>2. [c EXCEPT !.settle = TRUE] \in CoType
  BY <1>1 DEF CoType
<1>3. Calm(c, [c EXCEPT !.settle = TRUE])
  BY <1>1 DEF CoType, Gen, Calm
<1>4. QED
  BY <1>2, <1>3, CalmStep, StepReflexive DEF ActivitySettled

LEMMA ActivityChangedStep ==
    ASSUME NEW c, CoOK(c), NEW a \in Activity, NEW t
    PROVE  Step(c, ActivityChanged(c, a, t))
<1> DEFINE d == [c EXCEPT !.seen = a]
<1>1. c \in CoType
  BY DEF CoOK
<1>2. d \in CoType /\ Calm(c, d)
  BY <1>1 DEF CoType, Gen, Calm
<1>3. Step(c, d) /\ CoOK(d)
  BY <1>2, CalmStep DEF Step
<1>4. Step(d, ActivitySettled(d)) /\ Step(d, CancelTimer(d))
  BY <1>3, ActivitySettledStep, CancelTimerStep
<1>5. Step(CancelTimer(d), WithdrawControl(CancelTimer(d)))
  BY <1>4, WithdrawControlStep DEF Step
<1>6. Step(c, WithdrawControl(CancelTimer(d))) /\ Step(c, ActivitySettled(d))
  BY <1>3, <1>4, <1>5, StepTransitive DEF Step
<1>7. Step(c, c) /\ Step(c, Evaluate(c, a, t))
  BY StepReflexive, EvaluateStep
<1>8. QED
  BY <1>6, <1>7 DEF ActivityChanged

LEMMA PublishStep ==
    ASSUME NEW c, CoOK(c), NEW a \in Activity, NEW t
    PROVE  Step(c, Publish(c, a, t))
  BY ActivityChangedStep, StepReflexive DEF Publish

LEMMA PublishStartedStep ==
    ASSUME CoOK(co), NEW early, NEW t
    PROVE  Step(co, PublishStarted(early, t))
<1>1. "idle" \in Activity /\ "working" \in Activity
  BY DEF Activity, Fresh
<1>2. Step(co, Publish(co, "working", t)) /\ Step(co, Publish(co, "idle", turn))
  BY <1>1, PublishStep
<1>3. Step(Publish(co, "idle", turn), ActivityChanged(Publish(co, "idle", turn), "working", t))
  BY <1>1, <1>2, ActivityChangedStep DEF Step
<1>4. QED
  BY <1>2, <1>3, StepTransitive DEF PublishStarted, Step

(* A human's turn withdraws whatever the row has issued or scheduled.      *)
LEMMA ManualSendStep ==
    ASSUME NEW c, CoOK(c)
    PROVE  Step(c, ManualSend(c)) /\ (~c.on \/ ManualSend(c).gen > c.gen)
<1> DEFINE d == CancelTimer(c)
           w == CancelControl(d)
           e == [w EXCEPT !.mode = "monitoring", !.gen = @ + 1, !.last = 0]
<1>1. Step(c, d) /\ CoOK(d) /\ d.on = c.on /\ d.gen = c.gen
  BY CancelTimerStep DEF Step
<1>2. Step(d, w) /\ CoOK(w) /\ w \in CoType /\ ~Scheduled(w) /\ w.gen = d.gen
  BY <1>1, CancelControlStep DEF Step, CoOK
<1>3. e \in CoType
  <2>1. w.gen + 1 \in Gen
    BY <1>2, Fields DEF Gen
  <2>2. QED
    BY <1>2, <2>1 DEF CoType, Mode
<1>4. Calm(w, e) /\ e.gen = w.gen + 1
  BY <1>2 DEF CoType, Gen, Calm
<1>5. Step(c, e) /\ w.gen \in Nat
  BY <1>1, <1>2, <1>3, <1>4, CalmStep, StepTransitive, Fields DEF Step
<1>6. QED
  BY <1>1, <1>2, <1>4, <1>5 DEF ManualSend

(* A detached session has no active turn: nothing is promoted.             *)
LEMMA RestoreStep ==
    ASSUME NEW c, CoOK(c), NEW a
    PROVE  Step(c, Restore(c, a, 0))
<1> DEFINE m == [c EXCEPT !.mode = "monitoring", !.gen = @ + 1]
<1>1. c \in CoType
  BY DEF CoOK
<1>2. m \in CoType
  <2>1. c.gen + 1 \in Gen
    BY <1>1, Fields DEF Gen
  <2>2. QED
    BY <1>1, <2>1 DEF CoType, Mode
<1>3. Calm(c, m)
  BY <1>1 DEF CoType, Gen, Calm
<1>4. Step(c, m) /\ Step(m, ArmRefresh(m, 0))
  BY <1>2, <1>3, CalmStep, ArmRefreshStep DEF Step
<1>5. Step(c, ArmRefresh(m, 0))
  BY <1>4, StepTransitive DEF Step
<1>6. Step(c, c) /\ Step(c, Arm(c)) /\ Step(c, Evaluate(c, a, 0))
  BY StepReflexive, ArmStep, EvaluateStep
<1>7. QED
  BY <1>5, <1>6 DEF Restore

LEMMA FinishStep ==
    ASSUME NEW c, CoOK(c), c.queue # <<>>
    PROVE  /\ CoOK(Finish(c))
           /\ Finish(c).on = c.on /\ Finish(c).gen = c.gen /\ Finish(c).last = c.last
           /\ Finish(c).ctl = c.ctl /\ Finish(c).used = c.used
           /\ Len(Finish(c).queue) + 1 = Len(c.queue)
<1>1. c \in CoType
  BY DEF CoOK
<1>2. c.queue \in Seq(Op)
  BY <1>1, Fields
<1>3. Tail(c.queue) \in Seq(Op) /\ Len(Tail(c.queue)) + 1 = Len(c.queue)
  BY <1>2
<1>4. Finish(c) \in CoType
  BY <1>1, <1>3 DEF CoType, Finish
<1>5. /\ Finish(c).on = c.on /\ Finish(c).gen = c.gen /\ Finish(c).last = c.last
      /\ Finish(c).ctl = c.ctl /\ Finish(c).used = c.used
      /\ Finish(c).queue = Tail(c.queue) /\ Finish(c).reconciling = c.reconciling
  BY <1>1 DEF CoType, Finish
<1>6. LedgerOK(Finish(c))
  BY <1>5 DEF CoOK, LedgerOK
<1>7. QueueOK(Finish(c))
  BY <1>1, <1>3, <1>5, Fields, BoundsAssumption DEF CoOK, QueueOK
<1>8. QED
  BY <1>3, <1>4, <1>5, <1>6, <1>7 DEF CoOK

LEMMA EnqueueStep ==
    ASSUME NEW c, CoOK(c), NEW kind \in OpKind, NEW g \in Gen, NEW m \in Mode,
           Len(c.queue) < MaxQueue
    PROVE  Step(c, Enqueue(c, kind, g, m))
<1> DEFINE o == [kind |-> kind, gen |-> g, mode |-> m]
           e == Enqueue(c, kind, g, m)
<1>1. c \in CoType /\ c.queue \in Seq(Op) /\ o \in Op
  BY Fields DEF CoOK, Op
<1>2. Append(c.queue, o) \in Seq(Op) /\ Len(Append(c.queue, o)) = Len(c.queue) + 1
  BY <1>1
<1>3. e \in CoType
  BY <1>1, <1>2 DEF CoType, Enqueue
<1>4. /\ e.on = c.on /\ e.gen = c.gen /\ e.last = c.last /\ e.used = c.used
      /\ e.ctl = c.ctl /\ e.queue = Append(c.queue, o) /\ e.reconciling = c.reconciling
  BY <1>1 DEF CoType, Enqueue
<1>5. LedgerOK(e)
  BY <1>4 DEF CoOK, LedgerOK
<1> HIDE DEF e, o
<1>6. Len(e.queue) = Len(c.queue) + 1 /\ Len(c.queue) \in Nat /\ c.gen \in Nat
  BY <1>1, <1>2, <1>4, Fields
<1>7. QueueOK(e)
  BY <1>6, BoundsAssumption DEF QueueOK
<1>8. Advance(c, e)
  BY <1>4, <1>6 DEF Advance, Forward
<1>9. QED
  BY <1>3, <1>5, <1>7, <1>8 DEF Step, CoOK, e

(* Every control but the one just concluded.                               *)
Others(c, d, j) ==
    /\ \A k \in Control \ {j} : Forward(c.ctl[k], d.ctl[k])
    /\ d.ctl[j] \in {"started", "failed"}

LEMMA OthersStep ==
    ASSUME NEW c, NEW d, NEW e, NEW j \in Control, Others(c, d, j), Step(d, e)
    PROVE  Others(c, e, j)
  BY DEF Others, Step, Advance, Forward

(* Concluding the control a start holds, and what fire() decides next.     *)
LEMMA StartCatchStep ==
    ASSUME CoOK(co), co.queue # <<>>, turn \in Turn \cup {0}, flight.ctl \in Control,
           co.ctl[flight.ctl] = "issued", NEW unavailable
    PROVE  /\ CoOK(StartCatch(co, unavailable))
           /\ Others(co, StartCatch(co, unavailable), flight.ctl)
<1>1. ASSUME NEW status \in {"started", "failed"}, NEW t \in Turn \cup {0}
      PROVE  /\ CoOK(Finish(UpdateControl(co, flight.ctl, status, t)))
             /\ Others(co, Finish(UpdateControl(co, flight.ctl, status, t)), flight.ctl)
  <2> DEFINE u == UpdateControl(co, flight.ctl, status, t)
  <2>1. CoOK(u) /\ u.queue = co.queue /\ u.ctl = [co.ctl EXCEPT ![flight.ctl] = status]
    <3>1. Concluded(co, u, flight.ctl, status)
      BY <1>1, UpdateControlStep
    <3>2. QED
      BY <3>1 DEF Concluded
  <2>2. CoOK(Finish(u)) /\ Finish(u).ctl = u.ctl
    BY <2>1, FinishStep
  <2>3. co.ctl \in [Control -> Status]
    BY Fields DEF CoOK
  <2>4. QED
    BY <1>1, <2>1, <2>2, <2>3 DEF Others, Forward
<1> DEFINE d == Finish(UpdateControl(co, flight.ctl, "failed", 0))
           e == IF d.on THEN [d EXCEPT !.mode = "monitoring", !.gen = @ + 1] ELSE d
<1>2. CASE turn # 0
  BY <1>1, <1>2 DEF StartCatch
<1>3. CASE turn = 0
  <2>1. CoOK(d) /\ Others(co, d, flight.ctl)
    BY <1>1
  <2>2. StartCatch(co, unavailable) =
          IF unavailable THEN ArmRefresh(e, turn) ELSE Evaluate(d, act, turn)
    BY <1>3 DEF StartCatch
  <2> HIDE DEF d
  <2>3. Step(d, e)
    <3>1. d \in CoType /\ d.gen + 1 \in Gen
      BY <2>1, Fields DEF CoOK, Gen
    <3>2. [d EXCEPT !.mode = "monitoring", !.gen = @ + 1] \in CoType
      BY <3>1 DEF CoType, Mode
    <3>3. Calm(d, [d EXCEPT !.mode = "monitoring", !.gen = @ + 1])
      BY <3>1 DEF CoType, Gen, Calm
    <3>4. QED
      BY <2>1, <3>2, <3>3, CalmStep, StepReflexive
  <2> HIDE DEF e
  <2>4. Step(d, ArmRefresh(e, turn)) /\ Step(d, Evaluate(d, act, turn))
    BY <2>1, <2>3, ArmRefreshStep, EvaluateStep, StepTransitive DEF Step
  <2>5. Step(d, StartCatch(co, unavailable))
    BY <2>2, <2>4
  <2>6. QED
    BY <2>1, <2>5, OthersStep DEF Step
<1>4. QED
  BY <1>2, <1>3

-----------------------------------------------------------------------------
LEMMA RowOK == ASSUME IInv PROVE CoOK(co) /\ co \in CoType
  BY DEF IInv, TypeOK, CoOK

(* What every step is shown to do: keep the invariant, and take a step of  *)
(* the abstract ledger or none.                                            *)
LedgerStep == [Ledger!Next]_<<co.ctl, history.sent>>

Keeps == IInv' /\ LedgerStep

LEMMA LedgerMoves ==
    ASSUME CoOK(co), CoOK(co'), \A k \in Control : co'.ctl[k] \in Ledger!After(co.ctl[k]),
           history'.sent = history.sent
    PROVE  Ledger!Move
<1>1. co'.ctl \in [Control -> Status] /\ co'.used \in Nat
  BY Fields DEF CoOK
<1>2. \A k \in Control : /\ co'.ctl[k] = "scheduled" => co'.last = k
                         /\ co'.ctl[k] = "none" <=> k > co'.used
  BY DEF CoOK, LedgerOK
<1>3. \A k, m \in Control : k < m /\ co'.ctl[m] # "none" => co'.ctl[k] # "none"
  BY <1>1, <1>2 DEF Control
<1>4. QED
  BY <1>1, <1>2, <1>3 DEF Ledger!Move, Ledger!Control, Control, Status

LEMMA ForwardMoves ==
    ASSUME IInv, CoOK(co'), \A k \in Control : Forward(co.ctl[k], co'.ctl[k]),
           history'.sent = history.sent
    PROVE  LedgerStep
<1>1. \A k \in Control : co.ctl[k] \in Status
  BY RowOK, Fields
<1>2. \A k \in Control : co'.ctl[k] \in Ledger!After(co.ctl[k])
  BY <1>1 DEF Ledger!After, Forward, Status
<1>3. QED
  BY <1>2, LedgerMoves, RowOK DEF LedgerStep, Ledger!Next

(* A step that issues nothing and sends nothing preserves the invariant,   *)
(* provided the row it leaves is sound and moves on when it withdraws.     *)
LEMMA Preserved ==
    ASSUME IInv, EnvType', CoOK(co'), \A k \in Control : Forward(co.ctl[k], co'.ctl[k]),
           flight'.ctl = flight.ctl, phase \in Unsent => flight'.gen = flight.gen,
           phase' # "none" => co'.queue # <<>>,
           phase' \in Starts <=> phase \in Starts,
           phase' \in Unsent => phase \in Unsent,
           phase \in Unsent => co'.gen >= co.gen /\ (co.on /\ ~co'.on => co'.gen > co.gen),
           history'.sent = history.sent, history'.lost = history.lost,
           \/ history'.revoked = history.revoked
           \/ history'.revoked = Revoked /\ (~co.on \/ co'.gen > co.gen)
    PROVE  Keeps
<1>1. /\ co \in CoType /\ co' \in CoType /\ co.gen \in Nat /\ co'.gen \in Nat /\ flight.gen \in Nat
      /\ co.on \in BOOLEAN /\ co'.on \in BOOLEAN
  BY Fields, RowOK DEF CoOK, IInv, TypeOK, EnvType, Gen
<1>2. TypeOK' /\ LedgerOK(co') /\ QueueOK(co')
  BY <1>1, Fields, BoundsAssumption DEF CoOK, QueueOK, TypeOK
<1>3. ASSUME phase \in Starts
      PROVE  flight.ctl \in Control /\ co.ctl[flight.ctl] = "issued"
  BY <1>3 DEF IInv, FlightOK
<1>4. phase \in Starts => co'.ctl[flight.ctl] = "issued"
  BY <1>3 DEF Forward
<1>5. SentOK'
  <2>1. ASSUME NEW k \in Control
        PROVE  /\ history.sent[k] <= 1 
               /\ history.sent[k] > 0 \/ k \in history'.revoked =>
                    co'.ctl[k] \in {"issued", "started", "failed"}
               /\ k \in history'.revoked => history.sent[k] = 0
    <3>1. /\ history.sent[k] <= 1 
          /\ history.sent[k] > 0 \/ k \in history.revoked =>
               co.ctl[k] \in {"issued", "started", "failed"}
          /\ k \in history.revoked => history.sent[k] = 0
      BY DEF IInv, SentOK
    <3>2. co.ctl[k] \in {"issued", "started", "failed"} =>
             co'.ctl[k] \in {"issued", "started", "failed"}
      BY DEF Forward
    <3>3. k \in history'.revoked => k \in history.revoked \/ (phase \in Unsent /\ k = flight.ctl)
      BY DEF Revoked, Unsent
    <3>4. phase \in Unsent => history.sent[flight.ctl] = 0 /\ co.ctl[flight.ctl] = "issued"
      BY <1>3 DEF IInv, FlightOK, Starts
    <3>5. QED
      BY <3>1, <3>2, <3>3, <3>4
  <2>2. QED
    BY <2>1 DEF SentOK
<1>6. IssuedInFlight'
  BY DEF IInv, IssuedInFlight, Forward
<1>7. FlightOK'
  <2>1. phase' \in Unsent =>
          /\ history'.sent[flight'.ctl] = 0 /\ co'.gen >= flight'.gen
          /\ ~co'.on \/ flight'.ctl \in history'.revoked => co'.gen > flight'.gen
    <3> SUFFICES ASSUME phase' \in Unsent
                 PROVE  /\ history.sent[flight.ctl] = 0 /\ co'.gen >= flight.gen
                        /\ ~co'.on \/ flight.ctl \in history'.revoked => co'.gen > flight.gen
      OBVIOUS
    <3>1. /\ history.sent[flight.ctl] = 0 /\ co.gen >= flight.gen
          /\ ~co.on \/ flight.ctl \in history.revoked => co.gen > flight.gen
      BY DEF IInv, FlightOK
    <3>2. co'.gen >= co.gen /\ (co.on /\ ~co'.on => co'.gen > co.gen)
      OBVIOUS
    <3>3. flight.ctl \in history'.revoked =>
             flight.ctl \in history.revoked \/ ~co.on \/ co'.gen > co.gen
      OBVIOUS
    <3>4. QED
      BY <1>1, <3>1, <3>2, <3>3
  <2>2. QED
    BY <1>3, <1>4, <2>1 DEF IInv, FlightOK
<1>8. QED
  BY <1>2, <1>5, <1>6, <1>7, ForwardMoves DEF IInv, Keeps

(* The end of a start: the control it held is concluded.                   *)
LEMMA Ended ==
    ASSUME IInv, phase \in Starts, EnvType', CoOK(co'), Others(co, co', flight.ctl), EndOp,
           history'.sent = history.sent, history'.lost = history.lost,
           history'.revoked = history.revoked
    PROVE  Keeps
<1>1. co \in CoType /\ co' \in CoType
  BY RowOK DEF CoOK
<1>2. TypeOK' /\ LedgerOK(co') /\ QueueOK(co')
  BY <1>1, Fields, BoundsAssumption DEF CoOK, QueueOK, TypeOK
<1>3. flight.ctl \in Control /\ co.ctl[flight.ctl] = "issued"
  BY DEF IInv, FlightOK
<1>4. SentOK'
  <2>1. ASSUME NEW k \in Control, co.ctl[k] \in {"issued", "started", "failed"}
        PROVE  co'.ctl[k] \in {"issued", "started", "failed"}
    BY <2>1 DEF Others, Forward
  <2>2. QED
    BY <2>1 DEF IInv, SentOK
<1>5. IssuedInFlight'
  <2>1. ASSUME NEW k \in Control, co'.ctl[k] = "issued"
        PROVE  k # flight.ctl /\ co.ctl[k] = "issued"
    BY <2>1 DEF Others, Forward
  <2>2. QED
    BY <2>1 DEF IInv, IssuedInFlight
<1>6. FlightOK'
  BY DEF EndOp, FlightOK, NoFlight, Starts, Unsent
<1>7. LedgerStep
  <2>1. co.ctl \in [Control -> Status]
    BY RowOK, Fields
  <2>2. \A k \in Control : co'.ctl[k] \in Ledger!After(co.ctl[k])
    BY <1>3, <2>1 DEF Others, Forward, Ledger!After, Status
  <2>3. QED
    BY <2>2, LedgerMoves, RowOK DEF LedgerStep, Ledger!Next
<1>8. QED
  BY <1>2, <1>4, <1>5, <1>6, <1>7 DEF IInv, Keeps

(* A step of another actor: the operation and its start stay where they are.*)
LEMMA Undisturbed ==
    ASSUME IInv, EnvType', Step(co, co'), UNCHANGED <<phase, flight>>,
           history'.sent = history.sent, history'.lost = history.lost,
           \/ history'.revoked = history.revoked
           \/ history'.revoked = Revoked /\ (~co.on \/ co'.gen > co.gen)
    PROVE  Keeps
<1>1. co.queue \in Seq(Op) /\ co'.queue \in Seq(Op)
  BY RowOK, Fields DEF Step, CoOK
<1>2. phase' # "none" => co'.queue # <<>>
  BY <1>1 DEF Step, Advance, IInv, FlightOK
<1>3. QED
  BY <1>2, Preserved DEF Step, Advance

LEMMA RevokedType ==
    ASSUME IInv
    PROVE  /\ [history EXCEPT !.revoked = Revoked] \in History
           /\ \A h : h = [history EXCEPT !.revoked = Revoked] =>
                    h.revoked = Revoked /\ h.sent = history.sent /\ h.lost = history.lost
<1>1. history \in History
  BY DEF IInv, TypeOK, EnvType
<1>2. Revoked \in SUBSET Control
  BY <1>1 DEF IInv, FlightOK, Revoked, History, Starts, Unsent
<1>3. QED
  BY <1>1, <1>2 DEF History

LEMMA EnableKeeps == ASSUME IInv, Enable PROVE Keeps
<1> DEFINE m == [co EXCEPT !.mode = "monitoring", !.on = TRUE, !.gen = @ + 1]
<1>1. co \in CoType /\ co.gen + 1 \in Gen
  BY RowOK, Fields DEF Gen
<1>2. m \in CoType
  BY <1>1 DEF CoType, Mode
<1>3. Calm(co, m)
  BY <1>1 DEF CoType, Gen, Calm
<1>4. Step(co, m) /\ CoOK(m)
  BY <1>2, <1>3, CalmStep, RowOK DEF Step
<1>5. Step(co, co')
  BY <1>4, EvaluateStep, StepTransitive, RowOK DEF Enable, Step
<1>6. EnvType'
  BY DEF IInv, TypeOK, EnvType, Enable, env, Budget
<1>7. QED
  BY <1>5, <1>6, Undisturbed DEF Enable

LEMMA DisableKeeps == ASSUME IInv, Disable PROVE Keeps
<1>1. Step(co, co') /\ co'.gen > co.gen
  BY OffStep, RowOK DEF Disable
<1>2. EnvType'
  BY RevokedType DEF IInv, TypeOK, EnvType, Disable, env, Budget
<1>3. history'.revoked = Revoked /\ history'.sent = history.sent /\ history'.lost = history.lost
  BY RevokedType DEF Disable
<1>4. QED
  BY <1>1, <1>2, <1>3, Undisturbed DEF Disable

LEMMA BeginRefreshStep ==
    ASSUME IInv, BeginRefresh(co)
    PROVE  /\ Step(co, co') /\ act' \in Activity /\ retired' \in BOOLEAN
           /\ refresh' \in Fresh \cup {"none", "reading"}
<1>1. "reconciling" \in Activity
  BY DEF Activity
<1>2. Step(co, co')
  BY <1>1, ActivityChangedStep, StepReflexive, RowOK DEF BeginRefresh
<1>3. QED
  BY <1>1, <1>2 DEF BeginRefresh, IInv, TypeOK, EnvType

LEMMA ClientRefreshKeeps == ASSUME IInv, ClientRefresh PROVE Keeps
<1>1. Step(co, co')
  BY BeginRefreshStep DEF ClientRefresh
<1>2. EnvType'
  BY BeginRefreshStep DEF IInv, TypeOK, EnvType, ClientRefresh, Budget
<1>3. QED
  BY <1>1, <1>2, Undisturbed DEF ClientRefresh

LEMMA SendBeginKeeps == ASSUME IInv, SendBegin PROVE Keeps
<1>1. Step(co, co') /\ (writer => ~co.on \/ co'.gen > co.gen)
  BY ManualSendStep, StepReflexive, RowOK DEF SendBegin
<1>2. EnvType'
  <2>1. left' \in Budget
    BY BoundsAssumption, SMTT(40) DEF IInv, TypeOK, EnvType, SendBegin, Budget
  <2>2. history' \in History
    BY RevokedType DEF IInv, TypeOK, EnvType, SendBegin
  <2>3. send' \in {"sent", "sentStopped", "acquiring"}
    BY DEF SendBegin
  <2>4. QED
    BY <2>1, <2>2, <2>3 DEF IInv, TypeOK, EnvType, SendBegin
<1>3. /\ history'.sent = history.sent /\ history'.lost = history.lost
      /\ IF writer THEN history'.revoked = Revoked ELSE history' = history
  BY RevokedType DEF SendBegin
<1>4. QED
  BY <1>1, <1>2, <1>3, Undisturbed DEF SendBegin

LEMMA WriterReadyKeeps == ASSUME IInv, WriterReady PROVE Keeps
<1>1. Step(co, co')
  BY StepReflexive, RowOK DEF WriterReady
<1>2. EnvType'
  BY DEF IInv, TypeOK, EnvType, WriterReady, Awaiting
<1>3. phase' = phase \/ (phase = "writer" /\ phase' = "prepare")
  BY DEF WriterReady
<1>4. phase' # "none" => co'.queue # <<>>
  BY <1>3 DEF WriterReady, IInv, FlightOK
<1>5. QED
  BY <1>1, <1>2, <1>3, <1>4, Preserved DEF Step, Advance, WriterReady, Starts, Unsent

LEMMA SendSavesKeeps == ASSUME IInv, SendSaves PROVE Keeps
<1> DEFINE begins == ~up /\ refresh = "none"
           a == IF begins THEN "reconciling" ELSE act
           c == IF begins THEN ActivityChanged(co, a, 0) ELSE co
           d == IF up THEN c ELSE Restore(c, a, 0)
<1>1. a \in Activity
  BY DEF Activity, IInv, TypeOK, EnvType
<1>2. co' = ManualSend(d) /\ act' = a
  BY DEF SendSaves
<1> HIDE DEF a
<1>3. Step(co, c)
  BY <1>1, ActivityChangedStep, StepReflexive, RowOK
<1> HIDE DEF c
<1>4. Step(c, d)
  BY <1>3, RestoreStep, StepReflexive DEF Step
<1> HIDE DEF d
<1>5. Step(co, d) /\ CoOK(d)
  BY <1>3, <1>4, StepTransitive, RowOK DEF Step
<1>6. Step(co, co') /\ Step(d, co') /\ (~d.on \/ co'.gen > d.gen)
  BY <1>2, <1>5, ManualSendStep, StepTransitive, RowOK
<1>7. ~co.on \/ co'.gen > co.gen
  <2>1. co.gen \in Nat /\ d.gen \in Nat /\ co'.gen \in Nat
    BY <1>5, <1>6, Fields, RowOK DEF CoOK, Step
  <2>2. QED
    BY <1>5, <1>6, <2>1 DEF Step, Advance
<1>8. history' \in History /\ history'.revoked = Revoked /\ history'.sent = history.sent
      /\ history'.lost = history.lost
  BY RevokedType DEF SendSaves
<1>9. EnvType'
  BY <1>1, <1>2, <1>8 DEF IInv, TypeOK, EnvType, SendSaves, Fresh
<1>10. QED
  BY <1>6, <1>7, <1>8, <1>9, Undisturbed DEF SendSaves

LEMMA SendAcceptedKeeps == ASSUME IInv, NEW early \in BOOLEAN, SendAccepted(early) PROVE Keeps
<1>1. Step(co, co')
  BY PublishStartedStep, RowOK DEF SendAccepted
<1>2. NextUserTurn \in Turn
  BY BoundsAssumption, SMTT(40) DEF NextUserTurn, IInv, TypeOK, EnvType, Budget, Turn, UserTurn, Control
<1>3. EnvType'
  BY <1>2 DEF IInv, TypeOK, EnvType, SendAccepted, Observe, Activity, Fresh
<1>4. QED
  BY <1>1, <1>3, Undisturbed DEF SendAccepted

LEMMA SendStoppedKeeps == ASSUME IInv, SendStopped PROVE Keeps
<1>1. Step(co, co')
  BY StepReflexive, RowOK DEF SendStopped
<1>2. NextUserTurn \in Turn
  BY BoundsAssumption, SMTT(40) DEF NextUserTurn, IInv, TypeOK, EnvType, Budget, Turn, UserTurn, Control
<1>3. EnvType'
  BY <1>2 DEF IInv, TypeOK, EnvType, SendStopped
<1>4. QED
  BY <1>1, <1>3, Undisturbed DEF SendStopped

LEMMA SendRejectedKeeps == ASSUME IInv, SendRejected PROVE Keeps
<1>1. Step(co, co')
  BY StepReflexive, RowOK DEF SendRejected
<1>2. EnvType'
  BY ZenonT(60) DEF IInv, TypeOK, EnvType, SendRejected
<1>3. QED
  BY <1>1, <1>2, Undisturbed DEF SendRejected

(* A timer's callback gives up its handle and queues its operation.        *)
LEMMA TimerStep ==
    ASSUME IInv, NEW d \in CoType, Calm(co, d), NEW kind \in OpKind, NEW g \in Gen,
           NEW m \in Mode, Len(co.queue) < MaxQueue, co' = Enqueue(d, kind, g, m)
    PROVE  Step(co, co')
<1>1. Step(co, d) /\ CoOK(d) /\ d.queue = co.queue
  BY CalmStep, RowOK DEF Step, Calm
<1>2. Step(d, co')
  BY <1>1, EnqueueStep
<1>3. QED
  BY <1>1, <1>2, StepTransitive, RowOK

LEMMA TimerFiresKeeps == ASSUME IInv, TimerFires PROVE Keeps
<1> DEFINE d == [co EXCEPT !.timer = 0]
<1>1. co \in CoType /\ 0 \in Gen /\ "fire" \in OpKind /\ "backoff" \in Mode /\ co.timer \in Gen
  BY RowOK DEF Gen, OpKind, Mode, CoType
<1>2. d \in CoType
  BY <1>1 DEF CoType
<1>3. Calm(co, d)
  BY <1>1 DEF CoType, Gen, Calm
<1>4. co' = Enqueue(d, "fire", co.timer, "backoff") /\ Len(co.queue) < MaxQueue
  BY DEF TimerFires
<1> HIDE DEF d
<1>5. Step(co, co')
  BY <1>1, <1>2, <1>3, <1>4, TimerStep
<1>6. EnvType'
  BY DEF IInv, TypeOK, EnvType, TimerFires, env
<1>7. QED
  BY <1>5, <1>6, Undisturbed DEF TimerFires

LEMMA StrayFiresKeeps == ASSUME IInv, StrayFires PROVE Keeps
<1>1. PICK g \in co.stray : co' = Enqueue([co EXCEPT !.stray = @ \ {g}], "fire", g, "backoff")
  BY DEF StrayFires
<1> DEFINE d == [co EXCEPT !.stray = @ \ {g}]
<1>2. co \in CoType /\ co.stray \in SUBSET Gen /\ "fire" \in OpKind /\ "backoff" \in Mode
  BY RowOK DEF OpKind, Mode, CoType
<1>3. d \in CoType /\ g \in Gen
  BY <1>2 DEF CoType
<1>4. Calm(co, d)
  BY <1>2 DEF CoType, Gen, Calm
<1>5. co' = Enqueue(d, "fire", g, "backoff") /\ Len(co.queue) < MaxQueue
  BY <1>1 DEF StrayFires
<1> HIDE DEF d
<1>6. Step(co, co')
  BY <1>2, <1>3, <1>4, <1>5, TimerStep
<1>7. EnvType'
  BY DEF IInv, TypeOK, EnvType, StrayFires, env
<1>8. QED
  BY <1>6, <1>7, Undisturbed DEF StrayFires

LEMMA WatchFiresKeeps == ASSUME IInv, WatchFires PROVE Keeps
<1> DEFINE d == [co EXCEPT !.watch = Unarmed]
<1>1. co \in CoType /\ Unarmed \in Watch /\ "watch" \in OpKind
      /\ co.watch.gen \in Gen /\ co.watch.mode \in Mode
  BY RowOK DEF Unarmed, Watch, Gen, Mode, OpKind, CoType
<1>2. d \in CoType
  BY <1>1 DEF CoType
<1>3. Calm(co, d)
  BY <1>1 DEF CoType, Gen, Calm
<1>4. co' = Enqueue(d, "watch", co.watch.gen, co.watch.mode) /\ Len(co.queue) < MaxQueue
  BY DEF WatchFires
<1> HIDE DEF d
<1>5. Step(co, co')
  BY <1>1, <1>2, <1>3, <1>4, TimerStep
<1>6. EnvType'
  BY DEF IInv, TypeOK, EnvType, WatchFires, env
<1>7. QED
  BY <1>5, <1>6, Undisturbed DEF WatchFires

LEMMA SettleFiresKeeps == ASSUME IInv, SettleFires PROVE Keeps
<1> DEFINE d == [co EXCEPT !.settle = FALSE]
<1>1. co \in CoType /\ 0 \in Gen /\ "settled" \in OpKind /\ "monitoring" \in Mode
  BY RowOK DEF Gen, Mode, OpKind
<1>2. d \in CoType
  BY <1>1 DEF CoType
<1>3. Calm(co, d)
  BY <1>1 DEF CoType, Gen, Calm
<1>4. co' = Enqueue(d, "settled", 0, "monitoring") /\ Len(co.queue) < MaxQueue
  BY DEF SettleFires
<1> HIDE DEF d
<1>5. Step(co, co')
  BY <1>1, <1>2, <1>3, <1>4, TimerStep
<1>6. EnvType'
  BY DEF IInv, TypeOK, EnvType, SettleFires, env
<1>7. QED
  BY <1>5, <1>6, Undisturbed DEF SettleFires

LEMMA StaleTimerFiresKeeps == ASSUME IInv, StaleTimerFires PROVE Keeps
<1>1. Step(co, co')
  BY BeginRefreshStep DEF StaleTimerFires
<1>2. EnvType'
  <2>1. EnvType
    BY DEF IInv, TypeOK
  <2>2. act' \in Activity /\ retired' \in BOOLEAN /\ refresh' \in Fresh \cup {"none", "reading"}
    BY BeginRefreshStep DEF StaleTimerFires
  <2>3. staleTimer' = FALSE
        /\ UNCHANGED <<phase, flight, turn, up, writer, running, send, alive, left, history>>
    BY DEF StaleTimerFires
  <2>4. QED
    BY <2>1, <2>2, <2>3, ZenonT(60) DEF EnvType
<1>3. QED
  BY <1>1, <1>2, Undisturbed DEF StaleTimerFires

(* An operation that held no start ends.                                   *)
LEMMA Finished ==
    ASSUME IInv, EnvType', phase \notin Starts, EndOp, CoOK(co'),
           \A k \in Control : Forward(co.ctl[k], co'.ctl[k]), history' = history
    PROVE  Keeps
<1>1. flight.ctl = 0 /\ flight'.ctl = 0 /\ phase' = "none"
  BY DEF IInv, FlightOK, EndOp, NoFlight
<1>2. phase' \notin Starts /\ phase' \notin Unsent /\ phase \notin Unsent
  BY <1>1 DEF Starts, Unsent
<1>3. QED
  BY <1>1, <1>2, Preserved

LEMMA EndOpType ==
    ASSUME EndOp
    PROVE  /\ phase' \in Awaiting \cup {"none", "resume", "accepted"}
           /\ flight' \in [ctl : Control \cup {0}, gen : Gen, ready : BOOLEAN]
  BY DEF EndOp, NoFlight, Gen

(* The head of the queue is done, and something is decided next.           *)
LEMMA ThenDecides ==
    ASSUME NEW c, NEW d, CoOK(c), c.queue # <<>>, Step(Finish(c), d)
    PROVE  CoOK(d) /\ \A k \in Control : Forward(c.ctl[k], d.ctl[k])
  BY FinishStep DEF Step, Advance

LEMMA DeliveredStep ==
    ASSUME NEW c, CoOK(c)
    PROVE  /\ CoOK(Delivered(c)) /\ Delivered(c).ctl = c.ctl /\ Delivered(c).queue = c.queue
           /\ Delivered(c).on = c.on /\ Delivered(c).gen = c.gen /\ Delivered(c).last = c.last
<1> DEFINE s == IF c.timer # 0 THEN c.stray \cup {c.timer} ELSE c.stray
           d == [c EXCEPT !.timer = 0, !.stray = s]
<1>1. c \in CoType
  BY DEF CoOK
<1>2. s \in SUBSET Gen /\ 0 \in Gen
  BY <1>1 DEF CoType, Gen
<1>3. d = Delivered(c)
  BY <1>1 DEF CoType, Delivered
<1> HIDE DEF s
<1>4. d \in CoType
  BY <1>1, <1>2 DEF CoType
<1>5. Calm(c, d) /\ d.on = c.on /\ d.gen = c.gen /\ d.last = c.last
  BY <1>1 DEF CoType, Gen, Calm
<1>6. QED
  BY <1>3, <1>4, <1>5, CalmStep DEF Step, Calm

LEMMA SafetyPauseStep ==
    ASSUME NEW c, CoOK(c), c.queue # <<>>
    PROVE  LET d == Finish([WithdrawControl(c) EXCEPT !.mode = "safetyPaused", !.on = FALSE])
           IN  CoOK(d) /\ \A k \in Control : Forward(c.ctl[k], d.ctl[k])
<1> DEFINE w == WithdrawControl(c)
           x == [w EXCEPT !.mode = "safetyPaused", !.on = FALSE]
<1>1. Step(c, w) /\ ~Scheduled(w) /\ CoOK(w) /\ w \in CoType
  BY WithdrawControlStep DEF Step, CoOK
<1> HIDE DEF w
<1>2. x \in CoType
  BY <1>1 DEF CoType, Mode
<1>3. /\ x.ctl = w.ctl /\ x.used = w.used /\ x.queue = w.queue /\ x.reconciling = w.reconciling
      /\ x.last = w.last
  BY <1>1 DEF CoType
<1>4. LedgerOK(x)
  BY <1>1, <1>3 DEF CoOK, LedgerOK, Scheduled, LastIs
<1>5. CoOK(x)
  BY <1>1, <1>2, <1>3, <1>4 DEF CoOK, QueueOK
<1> HIDE DEF x
<1>6. c.queue \in Seq(Op) /\ w.queue \in Seq(Op) /\ Len(w.queue) >= Len(c.queue)
  BY <1>1, Fields DEF Step, Advance, CoOK
<1>7. x.queue # <<>>
  BY <1>3, <1>6
<1>8. CoOK(Finish(x)) /\ Finish(x).ctl = w.ctl
  BY <1>3, <1>5, <1>7, FinishStep
<1>9. \A k \in Control : Forward(c.ctl[k], Finish(x).ctl[k])
  BY <1>1, <1>8 DEF Step, Advance
<1>10. QED
  BY <1>8, <1>9 DEF x, w

(* claimControlIssued(): the scheduled control is issued, nothing else moves. *)
Claimed(c, d) ==
    /\ CoOK(d) /\ d.queue = c.queue /\ d.on = c.on /\ d.gen = c.gen
    /\ d.ctl = [c.ctl EXCEPT ![c.last] = "issued"]

LEMMA ClaimControlStep ==
    ASSUME NEW c, CoOK(c), Scheduled(c), c.on
    PROVE  Claimed(c, ClaimControl(c))
<1> DEFINE d == ClaimControl(c)
<1>1. c \in CoType /\ c.last \in Control /\ c.ctl[c.last] = "scheduled"
  BY DEF CoOK, Scheduled, LastIs
<1>2. d \in CoType
  BY <1>1 DEF CoType, Mode, Status, ClaimControl
<1>3. /\ d.on = c.on /\ d.gen = c.gen /\ d.last = c.last /\ d.used = c.used
      /\ d.queue = c.queue /\ d.reconciling = c.reconciling
      /\ d.ctl = [c.ctl EXCEPT ![c.last] = "issued"]
  BY <1>1 DEF CoType, ClaimControl
<1>4. LedgerOK(d)
  BY <1>1, <1>3, Fields DEF CoOK, LedgerOK
<1>5. QueueOK(d)
  BY <1>3 DEF CoOK, QueueOK
<1>6. QED
  BY <1>2, <1>3, <1>4, <1>5 DEF CoOK, Claimed

(* fire() either ends, or claims the scheduled control and starts it.      *)
LEMMA RunFireKeeps == ASSUME IInv, RunFire PROVE Keeps
<1> DEFINE c == Delivered(co)
           g == Head(co.queue).gen
           Ends == EndOp /\ CoOK(co') /\ \A k \in Control : Forward(co.ctl[k], co'.ctl[k])
           Claims == /\ ControlIssuable(c) /\ c.gen = g
                     /\ co' = ClaimControl(c)
                     /\ phase' = IF writer THEN "prepare" ELSE "writer"
                     /\ flight' = [ctl |-> c.last, gen |-> g, ready |-> up \/ ~writer]
<1>1. /\ CoOK(c) /\ c.ctl = co.ctl /\ c.queue = co.queue /\ c.queue # <<>>
      /\ c.on = co.on /\ c.gen = co.gen /\ c.last = co.last
  BY DeliveredStep, RowOK DEF RunFire, Due
<1>2. phase = "none" /\ phase \notin Starts /\ history' = history
  BY DEF RunFire, Due, Starts, Unsent
<1>3. Ends \/ Claims
  <2>1. CoOK(Finish(c)) /\ CoOK(WithdrawControl(Finish(c)))
        /\ Step(Finish(c), WithdrawControl(Finish(c)))
    BY <1>1, FinishStep, WithdrawControlStep DEF Step
  <2>2. /\ Step(Finish(c), Finish(c)) /\ Step(Finish(c), Evaluate(Finish(c), act, turn))
        /\ Step(Finish(c), Evaluate(WithdrawControl(Finish(c)), act, turn))
    BY <2>1, EvaluateStep, StepReflexive, StepTransitive
  <2>3. ASSUME NEW d, Step(Finish(c), d), co' = d, EndOp
        PROVE  Ends
    BY <1>1, <2>3, ThenDecides
  <2>4. ASSUME co' = Finish([WithdrawControl(c) EXCEPT !.mode = "safetyPaused", !.on = FALSE]),
               EndOp
        PROVE  Ends
    BY <1>1, <2>4, SafetyPauseStep
  <2>5. c.gen = g \/ (co' = Finish(c) /\ EndOp)
    BY DEF RunFire
  <2> HIDE DEF Ends
  <2>6. QED
    BY <2>2, <2>3, <2>4, <2>5 DEF RunFire
<1>4. CASE Ends
  <2>1. EnvType'
    BY <1>2, <1>4, EndOpType DEF IInv, TypeOK, EnvType, RunFire, env
  <2>2. QED
    BY <1>2, <1>4, <2>1, Finished
<1>5. CASE Claims
  <2> DEFINE l == co.last
  <2>1. c.on /\ Scheduled(c) /\ l \in Control /\ co.ctl[l] = "scheduled"
    BY <1>1, <1>5 DEF ControlIssuable, Scheduled, LastIs
  <2>2. /\ CoOK(co') /\ co'.queue = co.queue /\ co'.on = co.on /\ co'.gen = co.gen
        /\ co'.ctl = [co.ctl EXCEPT ![l] = "issued"]
    <3>1. Claimed(c, co')
      BY <1>1, <1>5, <2>1, ClaimControlStep
    <3>2. QED
      BY <1>1, <3>1 DEF Claimed
  <2>3. flight'.ctl = l /\ flight'.gen = co.gen /\ phase' \in Unsent
    BY <1>1, <1>5 DEF Unsent
  <2>4. /\ co \in CoType /\ co' \in CoType /\ co.gen \in Nat /\ co.on \in BOOLEAN
        /\ co.ctl \in [Control -> Status]
    BY <2>2, RowOK, Fields DEF CoOK
  <2>5. flight' \in [ctl : Control \cup {0}, gen : Gen, ready : BOOLEAN]
    <3>1. co.gen \in Gen /\ (up \/ ~writer) \in BOOLEAN
      BY <2>4 DEF Gen
    <3>2. flight' = [ctl |-> l, gen |-> co.gen, ready |-> up \/ ~writer]
      BY <1>1, <1>5
    <3>3. QED
      BY <2>1, <3>1, <3>2
  <2>6. EnvType'
    BY <1>2, <1>5, <2>5 DEF IInv, TypeOK, EnvType, RunFire, env, Awaiting
  <2>7. TypeOK' /\ LedgerOK(co') /\ QueueOK(co')
    BY <2>2, <2>4, <2>6, Fields, BoundsAssumption DEF CoOK, QueueOK, TypeOK
  <2>8. history.sent[l] = 0 /\ l \notin history.revoked
    <3>1. history.sent[l] \in Nat
      BY <2>1 DEF IInv, TypeOK, EnvType, History
    <3>2. QED
      BY <2>1, <3>1 DEF IInv, SentOK
  <2>9. SentOK'
    BY <1>2, <2>1, <2>2, <2>4, <2>8 DEF IInv, SentOK
  <2>10. IssuedInFlight'
    BY <1>2, <2>1, <2>2, <2>3, <2>4 DEF IInv, IssuedInFlight, FlightOK, Control
  <2>11. FlightOK'
    <3>1. phase' # "none" /\ phase' \in Starts /\ co'.queue # <<>>
      BY <1>1, <2>2, <2>3 DEF Starts, Unsent
    <3>2. co'.ctl[flight'.ctl] = "issued" /\ flight'.ctl \in Control
      BY <2>1, <2>2, <2>3, <2>4
    <3>3. history'.sent[flight'.ctl] = 0 /\ co'.gen >= flight'.gen
      BY <1>2, <2>2, <2>3, <2>4, <2>8
    <3>4. ~(~co'.on \/ flight'.ctl \in history'.revoked)
      BY <1>1, <1>2, <2>1, <2>2, <2>3, <2>8
    <3>5. QED
      BY <3>1, <3>2, <3>3, <3>4 DEF FlightOK
  <2>12. LedgerStep
    <3>1. \A k \in Control : co'.ctl[k] \in Ledger!After(co.ctl[k])
      BY <2>1, <2>2, <2>4 DEF Ledger!After, Status
    <3>2. QED
      BY <1>2, <2>2, <3>1, LedgerMoves, RowOK DEF LedgerStep, Ledger!Next
  <2>13. QED
    BY <2>7, <2>9, <2>10, <2>11, <2>12 DEF IInv, Keeps
<1>6. QED
  BY <1>3, <1>4, <1>5

(* The last fence: only the control the row still names is sent, once.     *)
LEMMA StartSendsKeeps == ASSUME IInv, StartSends PROVE Keeps
<1> DEFINE f == flight.ctl
<1>1. /\ f \in Control /\ co.ctl[f] = "issued" /\ history.sent[f] = 0
      /\ f \in history.revoked => co.gen > flight.gen
  BY DEF StartSends, IInv, FlightOK, Starts, Unsent
<1>2. co.gen = flight.gen /\ co.gen \in Nat
  BY RowOK, Fields DEF StartSends, MaySend, Current
<1>3. f \notin history.revoked
  BY <1>1, <1>2
<1>4. /\ history \in History /\ history' = [history EXCEPT !.sent[f] = @ + 1]
  BY DEF StartSends, IInv, TypeOK, EnvType
<1>5. /\ history'.sent = [history.sent EXCEPT ![f] = 1]
      /\ history'.revoked = history.revoked /\ history'.lost = history.lost
  BY <1>1, <1>4 DEF History
<1>6. history' \in History
  BY <1>1, <1>4 DEF History
<1>7. EnvType'
  BY <1>6 DEF StartSends, IInv, TypeOK, EnvType, env, Awaiting
<1>8. SentOK'
  BY <1>1, <1>3, <1>4, <1>5 DEF StartSends, IInv, SentOK, History
<1>9. FlightOK'
  BY <1>1 DEF StartSends, IInv, FlightOK, Starts, Unsent
<1>10. IssuedInFlight'
  BY <1>5 DEF StartSends, IInv, IssuedInFlight
<1>11. LedgerStep
  <2>1. Ledger!Send(f)
    BY <1>1, <1>5 DEF StartSends, Ledger!Send
  <2>2. QED
    BY <1>1, <2>1 DEF LedgerStep, Ledger!Next, Ledger!Control, Control
<1>12. QED
  BY <1>7, <1>8, <1>9, <1>10, <1>11 DEF StartSends, IInv, TypeOK, Keeps

LEMMA StartAcceptedKeeps == ASSUME IInv, NEW early \in BOOLEAN, StartAccepted(early) PROVE Keeps
<1>1. Step(co, co')
  BY PublishStartedStep, RowOK DEF StartAccepted
<1>2. flight.ctl \in Control /\ flight.ctl \in Turn /\ co.queue # <<>>
  BY BoundsAssumption DEF StartAccepted, IInv, FlightOK, Starts, Unsent, Turn
<1>3. history \in History /\ history' = [history EXCEPT !.accepted = @ \cup {flight.ctl}]
  BY DEF StartAccepted, IInv, TypeOK, EnvType
<1>4. /\ history' \in History /\ history'.sent = history.sent
      /\ history'.revoked = history.revoked /\ history'.lost = history.lost
  BY <1>2, <1>3 DEF History
<1>5. EnvType'
  BY <1>2, <1>4 DEF IInv, TypeOK, EnvType, StartAccepted, Observe, Activity, Fresh, Awaiting
<1>6. co'.queue # <<>>
  <2>1. co.queue \in Seq(Op) /\ co'.queue \in Seq(Op) /\ Len(co'.queue) >= Len(co.queue)
    BY <1>1, RowOK, Fields DEF Step, CoOK, Advance
  <2>2. QED
    BY <1>2, <2>1
<1>7. /\ phase \in Starts /\ phase' \in Starts /\ phase \notin Unsent /\ phase' \notin Unsent
      /\ flight' = flight
  BY DEF StartAccepted, Starts, Unsent
<1>8. QED
  BY <1>1, <1>4, <1>5, <1>6, <1>7, Preserved DEF Step, Advance

LEMMA HoldsStart ==
    ASSUME IInv, phase \in Starts
    PROVE  /\ CoOK(co) /\ co.queue # <<>> /\ turn \in Turn \cup {0} /\ flight.ctl \in Control
           /\ flight.ctl \in Turn /\ co.ctl[flight.ctl] = "issued"
<1>1. phase # "none"
  BY DEF Starts, Unsent
<1>2. QED
  BY <1>1, RowOK DEF IInv, FlightOK, TypeOK, EnvType, Turn

LEMMA StartRecordedKeeps == ASSUME IInv, StartRecorded PROVE Keeps
<1> DEFINE u == UpdateControl(co, flight.ctl, "started", turn)
<1>1. phase \in Starts
  BY DEF StartRecorded, Starts
<1>2. Concluded(co, u, flight.ctl, "started")
  BY <1>1, HoldsStart, UpdateControlStep
<1>3. CoOK(Finish(u)) /\ Finish(u).ctl = u.ctl
  BY <1>1, <1>2, HoldsStart, FinishStep DEF Concluded
<1>4. co.ctl \in [Control -> Status]
  BY RowOK, Fields
<1>5. co' = Finish(u) /\ EndOp
  BY DEF StartRecorded
<1> HIDE DEF u
<1>6. Others(co, co', flight.ctl)
  BY <1>1, <1>2, <1>3, <1>4, <1>5, HoldsStart DEF Others, Forward, Concluded
<1>7. EnvType'
  BY <1>5, EndOpType DEF IInv, TypeOK, EnvType, StartRecorded, env
<1>8. QED
  BY <1>1, <1>3, <1>5, <1>6, <1>7, Ended DEF StartRecorded

LEMMA StartFencedKeeps == ASSUME IInv, StartFenced PROVE Keeps
<1>1. phase \in Starts /\ EndOp
  BY DEF StartFenced, Starts, Unsent
<1>2. CoOK(co') /\ Others(co, co', flight.ctl)
  BY <1>1, HoldsStart, StartCatchStep DEF StartFenced
<1>3. EnvType'
  BY <1>1, EndOpType DEF IInv, TypeOK, EnvType, StartFenced, env
<1>4. QED
  BY <1>1, <1>2, <1>3, Ended DEF StartFenced

LEMMA StartRejectedKeeps == ASSUME IInv, StartRejected PROVE Keeps
<1>1. phase \in Starts /\ EndOp
  BY DEF StartRejected, Starts, Unsent
<1>2. CoOK(co') /\ Others(co, co', flight.ctl)
  BY <1>1, HoldsStart, StartCatchStep DEF StartRejected
<1>3. EnvType'
  BY <1>1, EndOpType DEF IInv, TypeOK, EnvType, StartRejected, env
<1>4. QED
  BY <1>1, <1>2, <1>3, Ended DEF StartRejected

LEMMA StartStoppedKeeps == ASSUME IInv, StartStopped PROVE Keeps
<1>1. phase \in Starts /\ EndOp
  BY DEF StartStopped, Starts
<1>2. CoOK(co') /\ Others(co, co', flight.ctl)
  BY <1>1, HoldsStart, StartCatchStep DEF StartStopped
<1>3. history \in History /\ history' = [history EXCEPT !.accepted = @ \cup {flight.ctl}]
  BY DEF StartStopped, IInv, TypeOK, EnvType
<1>4. /\ history' \in History /\ history'.sent = history.sent
      /\ history'.revoked = history.revoked /\ history'.lost = history.lost
  BY <1>1, <1>3, HoldsStart DEF History
<1>5. EnvType'
  BY <1>1, <1>4, HoldsStart, EndOpType DEF IInv, TypeOK, EnvType, StartStopped
<1>6. QED
  BY <1>1, <1>2, <1>4, <1>5, Ended

(* The phase moves, but no start is under way before or after.             *)
LEMMA Moved ==
    ASSUME IInv, EnvType', Step(co, co'), flight'.ctl = flight.ctl,
           phase \in Starts => phase' = phase /\ flight' = flight,
           phase' \in Starts => phase \in Starts, phase' # "none" => co.queue # <<>>,
           history' = history
    PROVE  Keeps
<1>1. co.queue \in Seq(Op) /\ co'.queue \in Seq(Op)
  BY RowOK, Fields DEF Step, CoOK
<1>2. phase' # "none" => co'.queue # <<>>
  BY <1>1 DEF Step, Advance
<1>3. phase \in Unsent => phase \in Starts
  BY DEF Starts
<1>4. phase' \in Unsent => phase \in Unsent
  BY DEF Starts
<1>5. QED
  BY <1>2, <1>3, <1>4, Preserved DEF Step, Advance

LEMMA RunReconcileKeeps == ASSUME IInv, RunReconcile PROVE Keeps
<1>1. Step(co, co')
  BY BeginRefreshStep DEF RunReconcile
<1>2. EnvType'
  BY BeginRefreshStep DEF IInv, TypeOK, EnvType, RunReconcile, Awaiting
<1>3. phase = "none" /\ phase' = "refresh" /\ co.queue # <<>>
  BY DEF RunReconcile, Due
<1>4. phase \notin Starts /\ phase' \notin Starts
  BY <1>3 DEF Starts, Unsent
<1>5. QED
  BY <1>1, <1>2, <1>3, <1>4, Moved DEF RunReconcile

LEMMA ReconcileResumesKeeps == ASSUME IInv, ReconcileResumes PROVE Keeps
<1> DEFINE f == Finish(co)
           c == [f EXCEPT !.reconciling = FALSE]
           m == [c EXCEPT !.mode = "monitoring", !.gen = @ + 1]
<1>1. co.queue # <<>> /\ phase \notin Starts /\ EndOp /\ history' = history
  BY DEF ReconcileResumes, Resumes, IInv, FlightOK, Starts, Unsent
<1>2. CoOK(f) /\ f.ctl = co.ctl /\ Len(f.queue) + 1 = Len(co.queue) /\ f \in CoType
  BY <1>1, RowOK, FinishStep DEF CoOK
<1> HIDE DEF f
<1>3. c \in CoType
  BY <1>2 DEF CoType
<1>4. /\ c.ctl = f.ctl /\ c.on = f.on /\ c.last = f.last /\ c.used = f.used
      /\ c.queue = f.queue /\ c.reconciling = FALSE
  BY <1>2 DEF CoType
<1>5. Len(co.queue) \in Nat /\ Len(f.queue) \in Nat /\ QueueOK(co) /\ co.reconciling \in BOOLEAN
  BY <1>2, RowOK, Fields DEF CoOK
<1>6. CoOK(c)
  BY <1>2, <1>3, <1>4, <1>5, BoundsAssumption, SMTT(40) DEF CoOK, LedgerOK, QueueOK
<1>7. Step(c, c) /\ Step(c, Evaluate(c, act, turn))
  BY <1>6, EvaluateStep, StepReflexive
<1> HIDE DEF c
<1>8. Step(c, ArmRefresh(m, turn))
  <2>1. c.gen + 1 \in Gen
    BY <1>3, Fields DEF Gen
  <2>2. m \in CoType
    BY <1>3, <2>1 DEF CoType, Mode
  <2>3. Calm(c, m)
    BY <1>3 DEF CoType, Gen, Calm
  <2>4. QED
    BY <1>6, <2>2, <2>3, CalmStep, ArmRefreshStep, StepTransitive DEF Step
<1>9. Step(c, co')
  BY <1>7, <1>8 DEF ReconcileResumes, c, f
<1>10. CoOK(co') /\ \A k \in Control : Forward(co.ctl[k], co'.ctl[k])
  BY <1>2, <1>4, <1>9 DEF Step, Advance
<1>11. EnvType'
  BY <1>1, EndOpType DEF IInv, TypeOK, EnvType, ReconcileResumes, env
<1>12. QED
  BY <1>1, <1>10, <1>11, Finished

LEMMA RunWatchKeeps == ASSUME IInv, RunWatch PROVE Keeps
<1>1. phase = "none" /\ phase \notin Starts /\ co.queue # <<>> /\ history' = history
  BY DEF RunWatch, Due, Starts, Unsent
<1>2. CASE BeginRefresh(co) /\ phase' = "refresh" /\ UNCHANGED flight
  <2>1. Step(co, co')
    BY <1>2, BeginRefreshStep
  <2>2. EnvType'
    BY <1>2, BeginRefreshStep DEF IInv, TypeOK, EnvType, RunWatch, Awaiting
  <2>3. phase' \notin Starts
    BY <1>2 DEF Starts, Unsent
  <2>4. QED
    BY <1>1, <1>2, <2>1, <2>2, <2>3, Moved
<1>3. CASE co' = Finish(co) /\ EndOp /\ UNCHANGED <<act, refresh, retired>>
  <2>1. Step(Finish(co), co')
    BY <1>1, <1>3, RowOK, FinishStep, StepReflexive
  <2>2. CoOK(co') /\ \A k \in Control : Forward(co.ctl[k], co'.ctl[k])
    BY <1>1, <2>1, RowOK, ThenDecides
  <2>3. EnvType'
    BY <1>3, EndOpType DEF IInv, TypeOK, EnvType, RunWatch
  <2>4. QED
    BY <1>1, <1>3, <2>2, <2>3, Finished
<1>4. QED
  BY <1>2, <1>3 DEF RunWatch

LEMMA WatchResumesKeeps == ASSUME IInv, WatchResumes PROVE Keeps
<1>1. co.queue # <<>> /\ phase \notin Starts /\ EndOp /\ history' = history
  BY DEF WatchResumes, Resumes, IInv, FlightOK, Starts, Unsent
<1>2. Step(Finish(co), co')
  BY <1>1, RowOK, FinishStep, EvaluateStep DEF WatchResumes
<1>3. CoOK(co') /\ \A k \in Control : Forward(co.ctl[k], co'.ctl[k])
  BY <1>1, <1>2, RowOK, ThenDecides
<1>4. EnvType'
  BY <1>1, EndOpType DEF IInv, TypeOK, EnvType, WatchResumes, env
<1>5. QED
  BY <1>1, <1>3, <1>4, Finished

LEMMA RunSettledKeeps == ASSUME IInv, RunSettled PROVE Keeps
<1>1. co.queue # <<>> /\ phase \notin Starts /\ EndOp /\ history' = history
  BY DEF RunSettled, Due, Starts, Unsent
<1>2. Step(Finish(co), co')
  BY <1>1, RowOK, FinishStep, EvaluateStep, StepReflexive DEF RunSettled
<1>3. CoOK(co') /\ \A k \in Control : Forward(co.ctl[k], co'.ctl[k])
  BY <1>1, <1>2, RowOK, ThenDecides
<1>4. EnvType'
  BY <1>1, EndOpType DEF IInv, TypeOK, EnvType, RunSettled, env
<1>5. QED
  BY <1>1, <1>3, <1>4, Finished

LEMMA RefreshReadsKeeps == ASSUME IInv, RefreshReads PROVE Keeps
<1>1. Step(co, co')
  BY StepReflexive, RowOK DEF RefreshReads
<1>2. EnvType'
  BY DEF IInv, TypeOK, EnvType, RefreshReads, Fresh
<1>3. QED
  BY <1>1, <1>2, Undisturbed DEF RefreshReads

(* A read that ends wakes the operation that awaits it.                    *)
LEMMA WaitingMoves ==
    ASSUME IInv, phase' = Waiting, flight' = flight, EnvType', Step(co, co'), history' = history
    PROVE  Keeps
<1>1. /\ phase \in Starts => phase' = phase
      /\ phase' \in Starts => phase \in Starts
      /\ phase' # "none" => phase # "none"
  BY DEF Waiting, Starts, Unsent
<1>2. phase' # "none" => co.queue # <<>>
  BY <1>1 DEF IInv, FlightOK
<1>3. QED
  BY <1>1, <1>2, Moved

LEMMA RefreshOkKeeps == ASSUME IInv, RefreshOk PROVE Keeps
<1>1. refresh \in Activity
  BY DEF RefreshOk, Activity
<1>2. Step(co, co')
  BY <1>1, ActivityChangedStep, RowOK DEF RefreshOk
<1>3. EnvType'
  BY <1>1, ZenonT(60) DEF IInv, TypeOK, EnvType, RefreshOk, Waiting
<1>4. QED
  BY <1>2, <1>3, WaitingMoves DEF RefreshOk

LEMMA RefreshFailsKeeps == ASSUME IInv, RefreshFails PROVE Keeps
<1>1. "stale" \in Activity
  BY DEF Activity
<1>2. Step(co, co')
  BY <1>1, ActivityChangedStep, StepReflexive, RowOK DEF RefreshFails
<1>3. EnvType'
  BY <1>1, ZenonT(60) DEF IInv, TypeOK, EnvType, RefreshFails, Waiting
<1>4. QED
  BY <1>2, <1>3, WaitingMoves DEF RefreshFails

LEMMA OrphanEndsKeeps == ASSUME IInv, OrphanEnds PROVE Keeps
<1>1. Step(co, co')
  BY StepReflexive, RowOK DEF OrphanEnds
<1>2. EnvType'
  BY DEF IInv, TypeOK, EnvType, OrphanEnds, env
<1>3. phase \notin Starts /\ phase' \notin Starts /\ co.queue # <<>>
  BY DEF OrphanEnds, Starts, Unsent, IInv, FlightOK
<1>4. QED
  BY <1>1, <1>2, <1>3, Moved DEF OrphanEnds

LEMMA TurnCompletesKeeps == ASSUME IInv, TurnCompletes PROVE Keeps
<1>1. PICK t \in running :
          /\ running' = running \ {t}
          /\ turn' = IF turn = t THEN 0 ELSE turn
          /\ LET c == IF turn = t THEN ActivitySettled(co) ELSE co
                 d == Publish(c, "idle", turn')
             IN  co' = IF turn = t THEN Evaluate(d, "idle", 0) ELSE d
  BY DEF TurnCompletes
<1> DEFINE c == IF turn = t THEN ActivitySettled(co) ELSE co
           d == Publish(c, "idle", turn')
<1>2. "idle" \in Activity
  BY DEF Activity, Fresh
<1>3. Step(co, c)
  BY ActivitySettledStep, StepReflexive, RowOK
<1>4. co' = IF turn = t THEN Evaluate(d, "idle", 0) ELSE d
  BY <1>1
<1> HIDE DEF c
<1>5. Step(c, d)
  BY <1>2, <1>3, PublishStep DEF Step
<1> HIDE DEF d
<1>6. Step(co, d) /\ CoOK(d)
  BY <1>3, <1>5, StepTransitive, RowOK DEF Step
<1>7. Step(co, co')
  BY <1>4, <1>6, EvaluateStep, StepTransitive, RowOK DEF Step
<1>8. EnvType'
  BY <1>1, <1>2 DEF IInv, TypeOK, EnvType, TurnCompletes, Observe
<1>9. QED
  BY <1>7, <1>8, Undisturbed DEF TurnCompletes

LEMMA TurnReportsKeeps == ASSUME IInv, TurnReports PROVE Keeps
<1>1. "working" \in Activity
  BY DEF Activity, Fresh
<1>2. Step(co, co')
  BY <1>1, PublishStep, RowOK DEF TurnReports
<1>3. EnvType'
  BY <1>1 DEF IInv, TypeOK, EnvType, TurnReports, Observe
<1>4. QED
  BY <1>2, <1>3, Undisturbed DEF TurnReports

LEMMA WriterExitsKeeps == ASSUME IInv, WriterExits PROVE Keeps
<1> DEFINE d == Publish(co, "stale", turn)
<1>1. "stale" \in Activity
  BY DEF Activity
<1>2. co' = Off(d) /\ flight' = flight /\ history' = [history EXCEPT !.revoked = Revoked]
  BY DEF WriterExits
<1>3. Step(co, d) /\ CoOK(d)
  BY <1>1, PublishStep, RowOK DEF Step
<1> HIDE DEF d
<1>4. Step(co, co') /\ co'.gen > d.gen
  BY <1>2, <1>3, OffStep, StepTransitive, RowOK
<1>5. co'.gen > co.gen
  <2>1. co.gen \in Nat /\ d.gen \in Nat /\ co'.gen \in Nat
    BY <1>3, <1>4, Fields, RowOK DEF CoOK, Step
  <2>2. QED
    BY <1>3, <1>4, <2>1 DEF Step, Advance
<1>6. history' \in History /\ history'.revoked = Revoked /\ history'.sent = history.sent
      /\ history'.lost = history.lost
  BY <1>2, RevokedType
<1>7. phase' = IF phase = "refresh" THEN "orphaned" ELSE phase
  BY DEF WriterExits
<1>8. EnvType'
  <2>1. left' \in Budget
    BY DEF WriterExits, IInv, TypeOK, EnvType, Budget
  <2>2. phase' \in Awaiting \cup {"none", "resume", "accepted"}
    BY <1>7 DEF IInv, TypeOK, EnvType, Awaiting
  <2>3. staleTimer' \in BOOLEAN
    BY DEF WriterExits, IInv, TypeOK, EnvType
  <2>4. QED
    BY <1>1, <1>2, <1>6, <2>1, <2>2, <2>3 DEF WriterExits, IInv, TypeOK, EnvType
<1>9. co.queue \in Seq(Op) /\ co'.queue \in Seq(Op)
  BY <1>4, RowOK, Fields DEF Step, CoOK
<1>10. phase' # "none" => co'.queue # <<>>
  BY <1>4, <1>7, <1>9 DEF Step, Advance, IInv, FlightOK
<1>11. (phase' \in Starts <=> phase \in Starts) /\ (phase' \in Unsent => phase \in Unsent)
  BY <1>7 DEF Starts, Unsent
<1>12. QED
  BY <1>2, <1>4, <1>5, <1>6, <1>8, <1>10, <1>11, Preserved DEF Step, Advance

LEMMA CrashKeeps == ASSUME IInv, Crash PROVE Keeps
<1>1. co \in CoType /\ "stale" \in Activity /\ Unarmed \in Watch /\ {} \in SUBSET Gen /\ 0 \in Gen
  BY RowOK DEF Activity, Unarmed, Watch, Gen, Mode
<1>2. <<>> \in Seq(Op) /\ Len(<<>>) = 0
  OBVIOUS
<1>3. co' \in CoType
  BY <1>1, <1>2 DEF Crash, CoType
<1>4. /\ co'.ctl = co.ctl /\ co'.on = co.on /\ co'.last = co.last /\ co'.used = co.used
      /\ co'.queue = <<>> /\ co'.reconciling = FALSE
  BY <1>1 DEF Crash, CoType
<1>5. LedgerOK(co') /\ QueueOK(co')
  BY <1>2, <1>4, RowOK, BoundsAssumption DEF CoOK, LedgerOK, QueueOK
<1>6. /\ history \in History
      /\ history' = [history EXCEPT !.lost = IF flight.ctl = 0 THEN @ ELSE @ \cup {flight.ctl}]
      /\ flight.ctl \in Control \cup {0}
  BY DEF Crash, IInv, TypeOK, EnvType
<1>7. /\ history' \in History /\ history'.sent = history.sent /\ history'.revoked = history.revoked
      /\ history.lost \subseteq history'.lost
      /\ flight.ctl # 0 => flight.ctl \in history'.lost
  BY <1>6 DEF History
<1>8. EnvType'
  <2>1. left' \in Budget
    BY DEF Crash, IInv, TypeOK, EnvType, Budget
  <2>2. EndOp
    BY DEF Crash
  <2>3. QED
    BY <1>1, <1>7, <2>1, <2>2, EndOpType DEF Crash, IInv, TypeOK, EnvType
<1>9. FlightOK'
  BY DEF Crash, EndOp, NoFlight, FlightOK, Starts, Unsent
<1>10. SentOK'
  BY <1>4, <1>7 DEF IInv, SentOK
<1>11. IssuedInFlight'
  BY <1>4, <1>7 DEF IInv, IssuedInFlight, Control
<1>12. TypeOK'
  BY <1>2, <1>3, <1>4, <1>8, BoundsAssumption DEF TypeOK
<1>13. LedgerStep
  BY <1>4, <1>7 DEF LedgerStep
<1>14. QED
  BY <1>5, <1>9, <1>10, <1>11, <1>12, <1>13 DEF IInv, Keeps

LEMMA RestartKeeps == ASSUME IInv, Restart PROVE Keeps
<1>1. PICK planFirst \in BOOLEAN :
          co' = Restore(IF planFirst /\ co.on THEN Evaluate(co, act, turn) ELSE co, act, 0)
  BY DEF Restart
<1> DEFINE c == IF planFirst /\ co.on THEN Evaluate(co, act, turn) ELSE co
<1>2. Step(co, c) /\ CoOK(c)
  BY EvaluateStep, StepReflexive, RowOK DEF Step
<1>3. co' = Restore(c, act, 0)
  BY <1>1
<1> HIDE DEF c
<1>4. Step(co, co')
  BY <1>2, <1>3, RestoreStep, StepTransitive, RowOK
<1>5. EnvType'
  BY ZenonT(60) DEF IInv, TypeOK, EnvType, Restart
<1>6. QED
  BY <1>4, <1>5, Undisturbed DEF Restart

-----------------------------------------------------------------------------
LEMMA InitInvariant == Init => IInv
<1> SUFFICES ASSUME Init PROVE IInv
  OBVIOUS
<1>1. <<>> \in Seq(Op) /\ Len(<<>>) = 0
  OBVIOUS
<1>2. co \in CoType
  BY <1>1 DEF Init, CoType, Mode, Gen, Status, Unarmed, Watch, Activity
<1>3. EnvType
  <2>1. left \in Budget
    BY BoundsAssumption DEF Init, Budget
  <2>2. history \in History
    BY DEF Init, History
  <2>3. flight \in [ctl : Control \cup {0}, gen : Gen, ready : BOOLEAN]
    BY DEF Init, NoFlight, Gen
  <2>4. QED
    BY <2>1, <2>2, <2>3 DEF Init, EnvType, Activity, Fresh
<1>4. TypeOK
  BY <1>1, <1>2, <1>3, BoundsAssumption DEF Init, TypeOK
<1>5. LedgerOK(co) /\ QueueOK(co)
  BY <1>1, BoundsAssumption DEF Init, LedgerOK, QueueOK, Control
<1>6. FlightOK /\ SentOK /\ IssuedInFlight
  BY DEF Init, FlightOK, SentOK, IssuedInFlight, NoFlight, Starts, Unsent
<1>7. QED
  BY <1>4, <1>5, <1>6 DEF IInv

LEMMA NextInvariant == IInv /\ [Next]_vars => Keeps
<1> SUFFICES ASSUME IInv, [Next]_vars PROVE Keeps
  OBVIOUS
<1>1. CASE Human
  BY <1>1, EnableKeeps, DisableKeeps, ClientRefreshKeeps, SendBeginKeeps DEF Human
<1>2. CASE Sending
  BY <1>2, WriterReadyKeeps, SendSavesKeeps, SendRejectedKeeps, SendStoppedKeeps,
     SendAcceptedKeeps DEF Sending
<1>3. CASE Timers
  BY <1>3, TimerFiresKeeps, StrayFiresKeeps, WatchFiresKeeps, SettleFiresKeeps,
     StaleTimerFiresKeeps DEF Timers
<1>4. CASE Starting
  BY <1>4, StartSendsKeeps, StartFencedKeeps, StartRejectedKeeps, StartStoppedKeeps,
     StartRecordedKeeps, StartAcceptedKeeps DEF Starting
<1>5. CASE Operations
  BY <1>5, RunFireKeeps, RunReconcileKeeps, ReconcileResumesKeeps, RunWatchKeeps,
     WatchResumesKeeps, RunSettledKeeps DEF Operations
<1>6. CASE Runtime
  BY <1>6, RefreshReadsKeeps, RefreshOkKeeps, RefreshFailsKeeps, OrphanEndsKeeps,
     TurnCompletesKeeps, TurnReportsKeeps DEF Runtime
<1>7. CASE Losses
  BY <1>7, WriterExitsKeeps, CrashKeeps, RestartKeeps DEF Losses
<1>8. CASE UNCHANGED vars
  <2>1. UNCHANGED <<co, phase, flight, turn, up, writer, running, send, act, refresh, retired,
                    staleTimer, alive, left, history>>
    BY <1>8 DEF vars, env
  <2>2. IInv'
    BY <2>1 DEF IInv, TypeOK, EnvType, FlightOK, SentOK, IssuedInFlight
  <2>3. QED
    BY <2>1, <2>2 DEF Keeps, LedgerStep
<1>9. QED
  BY <1>1, <1>2, <1>3, <1>4, <1>5, <1>6, <1>7, <1>8 DEF Next

(* The inductive invariant: every reachable state of the coordinator, for  *)
(* any number of controls, generations, human turns and crashes.           *)
THEOREM Invariance == Spec => []IInv
<1>1. IInv /\ [Next]_vars => IInv'
  BY NextInvariant DEF Keeps
<1>2. QED
  BY InitInvariant, <1>1, PTL DEF Spec

(* Type correctness of the coordinator and its environment.                *)
THEOREM TypeCorrect == Spec => []TypeOK
<1>1. IInv => TypeOK
  BY DEF IInv
<1>2. QED
  BY Invariance, <1>1, PTL

(* No event leaves a control scheduled that is not the row's, or a         *)
(* scheduled control on a row that is Off.                                 *)
THEOREM ScheduledIsTheLast == Spec => []ScheduledIsLast
<1>1. IInv => ScheduledIsLast
  BY DEF IInv, LedgerOK, ScheduledIsLast
<1>2. QED
  BY Invariance, <1>1, PTL

(* No control's turn/start is sent twice, however timers, rejections,      *)
(* crashes and restarts interleave.                                        *)
THEOREM NeverReplayed == Spec => []NoReplay
<1>1. IInv => NoReplay
  BY DEF IInv, SentOK, NoReplay
<1>2. QED
  BY Invariance, <1>1, PTL

(* A start withdrawn before the wire - by Off, by a human's turn, by the   *)
(* exit of the session's process - is never sent.                          *)
THEOREM WithdrawnNeverSent == Spec => []RevokedNeverSent
<1>1. IInv => RevokedNeverSent
  <2> SUFFICES ASSUME IInv, NEW k \in history.revoked PROVE history.sent[k] = 0
    BY DEF RevokedNeverSent
  <2>1. k \in Control
    BY DEF IInv, TypeOK, EnvType, History
  <2>2. QED
    BY <2>1 DEF IInv, SentOK
<1>2. QED
  BY Invariance, <1>1, PTL

(* A control that stays issued is being started, or a crash took its start.*)
THEOREM IssuedIsHeld == Spec => []IssuedInFlight
<1>1. IInv => IssuedInFlight
  BY DEF IInv
<1>2. QED
  BY Invariance, <1>1, PTL

(* The coordinator's ledger implements the abstract one.                   *)
THEOREM ImplementsLedger == Spec => LedgerSpec
<1>1. Init => Ledger!Init
  BY DEF Init, Ledger!Init, Ledger!Control, Control
<1>2. IInv /\ [Next]_vars => [Ledger!Next]_<<co.ctl, history.sent>>
  BY NextInvariant DEF Keeps, LedgerStep
<1>3. QED
  BY Invariance, <1>1, <1>2, PTL DEF Spec, LedgerSpec, Ledger!Spec

-----------------------------------------------------------------------------
(* The third part: a row in backoff keeps a wake of its generation. Wake   *)
(* names the wakes there are; while a start holds the head of the queue    *)
(* (n = 1) the fire() that claimed it is no longer one of them.            *)
Wake(c, n) ==
    \/ c.timer = c.gen
    \/ c.gen \in c.stray
    \/ \E i \in DOMAIN c.queue : i > n /\ c.queue[i].kind = "fire" /\ c.queue[i].gen = c.gen

(* In backoff the row is On and has a control for the wake to claim (or    *)
(* the bound on controls is spent, which no step of Next leaves behind).   *)
Claimable(c) == c.mode = "backoff" => c.on /\ (Scheduled(c) \/ c.used > MaxControls)

Awake(c, n) == Claimable(c) /\ (c.mode = "backoff" => Wake(c, n))

StartHeld == IF phase \in Starts THEN 1 ELSE 0

(* A crash loses every wake and restart's restore() arms a new one.        *)
WakeInv == Claimable(co) /\ (alive => Awake(co, StartHeld))

(* A change that no wake depends on.                                       *)
SameWakes(c, d) ==
    /\ d.mode = c.mode /\ d.on = c.on /\ d.gen = c.gen /\ d.timer = c.timer
    /\ d.stray = c.stray /\ d.queue = c.queue /\ d.used = c.used
    /\ d.last = c.last /\ d.ctl = c.ctl

LEMMA SameWakesAwake ==
    ASSUME NEW c, NEW d, NEW n, Awake(c, n), SameWakes(c, d)
    PROVE  Awake(d, n)
  BY DEF Awake, Claimable, Scheduled, LastIs, Wake, SameWakes

(* Whoever cancels the timer or the control leaves backoff.                *)
LEMMA ElsewhereAwake ==
    ASSUME NEW d, NEW n, d.mode # "backoff"
    PROVE  Awake(d, n)
  BY DEF Awake, Claimable

LEMMA CancelTimerMode ==
    ASSUME NEW c \in CoType
    PROVE  CancelTimer(c).mode = c.mode
  BY DEF CoType, CancelTimer

LEMMA OffAwake ==
    ASSUME NEW c, CoOK(c), NEW n
    PROVE  Awake(Off(c), n)
<1> DEFINE d == CancelControl(c)
           e == [d EXCEPT !.mode = "disabled", !.on = FALSE, !.gen = @ + 1]
<1>1. d \in CoType
  BY CancelControlStep DEF Step, CoOK
<1>2. e \in CoType /\ e.mode = "disabled"
  <2>1. d.gen + 1 \in Gen
    BY <1>1, Fields DEF Gen
  <2>2. QED
    BY <1>1, <2>1 DEF CoType, Mode
<1> HIDE DEF e
<1>3. CancelTimer(e).mode = "disabled"
  BY <1>2, CancelTimerMode
<1>4. QED
  BY <1>3, ElsewhereAwake DEF Off, e

LEMMA RequestReconcileAwake ==
    ASSUME NEW c, CoOK(c), NEW n
    PROVE  Awake(RequestReconcile(c), n)
<1>1. c \in CoType
  BY DEF CoOK
<1>2. RequestReconcile(c).mode = "monitoring"
  BY <1>1 DEF CoType, RequestReconcile, Enqueue
<1>3. QED
  BY <1>2, ElsewhereAwake

LEMMA WithdrawControlMode ==
    ASSUME NEW c, CoOK(c)
    PROVE  WithdrawControl(c).mode = "monitoring"
<1>1. CancelControl(c) \in CoType
  BY CancelControlStep DEF Step, CoOK
<1>2. QED
  BY <1>1 DEF CoType, WithdrawControl

LEMMA ArmAwake ==
    ASSUME NEW c, CoOK(c), Claimable(c), NEW n
    PROVE  Awake(Arm(c), n)
<1>1. c \in CoType
  BY DEF CoOK
<1>2. /\ Arm(c).timer = Arm(c).gen /\ Arm(c).mode = c.mode /\ Arm(c).on = c.on
      /\ Arm(c).last = c.last /\ Arm(c).used = c.used /\ Arm(c).ctl = c.ctl
  BY <1>1 DEF CoType, Arm, CancelTimer
<1>3. QED
  BY <1>2 DEF Awake, Claimable, Scheduled, LastIs, Wake

LEMMA ScheduleAwake ==
    ASSUME NEW c, CoOK(c), c.on, NEW n
    PROVE  Awake(Schedule(c), n)
<1>1. c \in CoType
  BY DEF CoOK
<1>2. CASE Scheduled(c)
  <2> DEFINE d == [c EXCEPT !.mode = "backoff"]
  <2>1. /\ d.timer = c.timer /\ d.on = c.on /\ d.last = c.last /\ d.ctl = c.ctl
    BY <1>1 DEF CoType
  <2>2. d \in CoType /\ Calm(c, d)
    BY <1>1 DEF CoType, Gen, Mode, Calm
  <2>3. CoOK(d)
    BY <2>2, CalmStep DEF Step
  <2>4. Claimable(d)
    BY <1>2, <2>1 DEF Claimable, Scheduled, LastIs
  <2>5. Schedule(c) = Arm(d)
    BY <1>2 DEF Schedule
  <2>6. QED
    BY <2>3, <2>4, <2>5, ArmAwake
<1>3. CASE ~Scheduled(c)
  <2> DEFINE f == [k \in Control |-> IF k = c.used + 1 THEN "scheduled" ELSE c.ctl[k]]
             d == [c EXCEPT !.mode = "backoff", !.last = c.used + 1, !.used = @ + 1, !.ctl = f]
  <2>1. /\ d.on = c.on /\ d.last = c.used + 1 /\ d.used = c.used + 1 /\ d.ctl = f
        /\ CancelTimer(d).on = c.on /\ CancelTimer(d).last = d.last /\ CancelTimer(d).used = d.used
        /\ CancelTimer(d).ctl = f /\ Arm(d).on = c.on /\ Arm(d).last = c.used + 1
        /\ Arm(d).used = c.used + 1 /\ Arm(d).ctl = f /\ Arm(d).timer = Arm(d).gen
    BY <1>1 DEF CoType, Arm, CancelTimer
  <2> HIDE DEF d
  <2>2. c.used \in Nat
    BY <1>1, Fields
  <2>3. c.used + 1 \in Control => f[c.used + 1] = "scheduled"
    OBVIOUS
  <2>4. c.used + 1 \in Control \/ c.used + 1 > MaxControls
    BY <2>2, BoundsAssumption DEF Control
  <2>5. Scheduled(Arm(d)) \/ Arm(d).used > MaxControls
    BY <2>1, <2>3, <2>4 DEF Scheduled, LastIs
  <2>6. Awake(Arm(d), n)
    BY <2>1, <2>5 DEF Awake, Claimable, Wake
  <2>7. QED
    BY <1>3, <2>6 DEF Schedule, d
<1>4. QED
  BY <1>2, <1>3

LEMMA EvaluateAwake ==
    ASSUME NEW c, CoOK(c), NEW n, Awake(c, n), NEW a, NEW t
    PROVE  Awake(Evaluate(c, a, t), n)
  BY OffAwake, RequestReconcileAwake, ScheduleAwake DEF Evaluate

LEMMA ActivitySettledAwake ==
    ASSUME NEW c, CoOK(c), NEW n, Awake(c, n)
    PROVE  Awake(ActivitySettled(c), n)
<1>1. c \in CoType
  BY DEF CoOK
<1>2. SameWakes(c, [c EXCEPT !.settle = TRUE])
  BY <1>1 DEF CoType, SameWakes
<1>3. QED
  BY <1>2, SameWakesAwake DEF ActivitySettled

LEMMA ActivityChangedAwake ==
    ASSUME NEW c, CoOK(c), NEW n, Awake(c, n), NEW a \in Activity, NEW t
    PROVE  Awake(ActivityChanged(c, a, t), n)
<1> DEFINE d == [c EXCEPT !.seen = a]
<1>1. c \in CoType
  BY DEF CoOK
<1>2. d \in CoType /\ Calm(c, d)
  BY <1>1 DEF CoType, Gen, Calm
<1>3. CoOK(d)
  BY <1>2, CalmStep DEF Step
<1>4. Awake(d, n)
  <2>1. SameWakes(c, d)
    BY <1>1 DEF CoType, SameWakes
  <2>2. QED
    BY <2>1, SameWakesAwake
<1> HIDE DEF d
<1>5. Awake(ActivitySettled(d), n)
  BY <1>3, <1>4, ActivitySettledAwake
<1>6. Awake(WithdrawControl(CancelTimer(d)), n)
  <2>1. CoOK(CancelTimer(d))
    BY <1>3, CancelTimerStep DEF Step
  <2>2. QED
    BY <2>1, WithdrawControlMode, ElsewhereAwake
<1>7. Awake(Evaluate(c, a, t), n)
  BY EvaluateAwake
<1>8. QED
  BY <1>5, <1>6, <1>7 DEF ActivityChanged, d

LEMMA PublishAwake ==
    ASSUME NEW c, CoOK(c), NEW n, Awake(c, n), NEW a \in Activity, NEW t
    PROVE  Awake(Publish(c, a, t), n)
  BY ActivityChangedAwake DEF Publish

LEMMA PublishStartedAwake ==
    ASSUME CoOK(co), NEW n, Awake(co, n), NEW early, NEW t
    PROVE  Awake(PublishStarted(early, t), n)
<1>1. "idle" \in Activity /\ "working" \in Activity
  BY DEF Activity, Fresh
<1>2. Awake(Publish(co, "working", t), n)
  BY <1>1, PublishAwake
<1>3. CoOK(Publish(co, "idle", turn)) /\ Awake(Publish(co, "idle", turn), n)
  BY <1>1, PublishAwake, PublishStep DEF Step
<1>4. Awake(ActivityChanged(Publish(co, "idle", turn), "working", t), n)
  BY <1>1, <1>3, ActivityChangedAwake
<1>5. QED
  BY <1>2, <1>4 DEF PublishStarted

LEMMA ManualSendAwake ==
    ASSUME NEW c, CoOK(c), NEW n, Claimable(c)
    PROVE  Awake(ManualSend(c), n)
<1> DEFINE d == CancelTimer(c)
           w == CancelControl(d)
<1>1. c \in CoType
  BY DEF CoOK
<1>2. CoOK(d) /\ d.on = c.on /\ d.mode = c.mode
  BY <1>1, CancelTimerStep, CancelTimerMode DEF Step
<1>3. w \in CoType
  BY <1>2, CancelControlStep DEF Step, CoOK
<1>4. CASE ~d.on
  <2>1. d.mode # "backoff"
    BY <1>2, <1>4 DEF Claimable
  <2>2. QED
    BY <1>4, <2>1, ElsewhereAwake DEF ManualSend
<1>5. CASE d.on
  <2>1. [w EXCEPT !.mode = "monitoring", !.gen = @ + 1, !.last = 0].mode = "monitoring"
    BY <1>3 DEF CoType
  <2>2. ManualSend(c).mode = "monitoring"
    BY <1>5, <2>1 DEF ManualSend
  <2>3. QED
    BY <2>2, ElsewhereAwake
<1>6. QED
  BY <1>4, <1>5

LEMMA ArmRefreshAwake ==
    ASSUME NEW c, CoOK(c), NEW n, Awake(c, n), NEW t
    PROVE  Awake(ArmRefresh(c, t), n)
<1>1. c \in CoType
  BY DEF CoOK
<1>2. SameWakes(c, [c EXCEPT !.watch = [gen |-> c.gen, mode |-> c.mode]])
  BY <1>1 DEF CoType, SameWakes
<1>3. QED
  BY <1>2, SameWakesAwake DEF ArmRefresh

(* restore() needs no wake: a row found in backoff gets a new timer.       *)
LEMMA RestoreAwake ==
    ASSUME NEW c, CoOK(c), NEW n, Claimable(c), NEW a
    PROVE  Awake(Restore(c, a, 0), n)
<1> DEFINE m == [c EXCEPT !.mode = "monitoring", !.gen = @ + 1]
<1>1. c \in CoType
  BY DEF CoOK
<1>2. m \in CoType /\ m.mode = "monitoring"
  <2>1. c.gen + 1 \in Gen
    BY <1>1, Fields DEF Gen
  <2>2. QED
    BY <1>1, <2>1 DEF CoType, Mode
<1>3. Calm(c, m)
  BY <1>1 DEF CoType, Gen, Calm
<1>4. CoOK(m)
  BY <1>2, <1>3, CalmStep DEF Step
<1>5. Awake(ArmRefresh(m, 0), n)
  <2> HIDE DEF m
  <2>1. Awake(m, n)
    BY <1>2, ElsewhereAwake
  <2>2. QED
    BY <1>4, <2>1, ArmRefreshAwake
<1>6. CASE c.mode = "backoff"
  BY <1>5, <1>6, ArmAwake DEF Restore, Claimable
<1>7. CASE c.mode # "backoff"
  <2>1. Awake(c, n)
    BY <1>7, ElsewhereAwake
  <2>2. Awake(Evaluate(c, a, 0), n)
    BY <2>1, EvaluateAwake
  <2>3. QED
    BY <1>5, <1>7, <2>1, <2>2 DEF Restore
<1>8. QED
  BY <1>6, <1>7

(* A start's fire() ends: what is behind it in the queue moves up.         *)
LEMMA FinishAwake ==
    ASSUME NEW c, CoOK(c), c.queue # <<>>, NEW n \in {0, 1}, Awake(c, n),
           n = 1 \/ c.mode # "backoff" \/ Head(c.queue).kind # "fire" \/ Head(c.queue).gen # c.gen
    PROVE  Awake(Finish(c), 0)
<1> DEFINE d == Finish(c)
<1>1. c \in CoType /\ c.queue \in Seq(Op) /\ c.queue # <<>>
  BY Fields DEF CoOK
<1>2. /\ d.mode = c.mode /\ d.on = c.on /\ d.gen = c.gen /\ d.timer = c.timer
      /\ d.stray = c.stray /\ d.queue = Tail(c.queue) /\ d.used = c.used
      /\ d.last = c.last /\ d.ctl = c.ctl
  BY <1>1 DEF CoType, Finish
<1> HIDE DEF d
<1>3. Claimable(d)
  BY <1>2 DEF Awake, Claimable, Scheduled, LastIs
<1>4. ASSUME c.mode = "backoff"
      PROVE  Wake(d, 0)
  <2>1. Wake(c, n)
    BY <1>4 DEF Awake
  <2>2. CASE c.timer = c.gen \/ c.gen \in c.stray
    BY <1>2, <2>2 DEF Wake
  <2>3. CASE \E i \in DOMAIN c.queue : i > n /\ c.queue[i].kind = "fire" /\ c.queue[i].gen = c.gen
    <3>1. PICK i \in DOMAIN c.queue : i > n /\ c.queue[i].kind = "fire" /\ c.queue[i].gen = c.gen
      BY <2>3
    <3>2. i # 1
      BY <1>1, <1>4, <3>1
    <3>3. i - 1 \in DOMAIN d.queue /\ d.queue[i - 1] = c.queue[i] /\ i - 1 > 0
      BY <1>1, <1>2, <3>1, <3>2
    <3>4. QED
      BY <1>2, <3>1, <3>3 DEF Wake
  <2>4. QED
    BY <2>1, <2>2, <2>3 DEF Wake
<1>5. QED
  BY <1>2, <1>3, <1>4 DEF Awake, d

(* fire() forgets the handle it finds, and the timer behind it becomes a   *)
(* stray one: it still wakes the row.                                      *)
LEMMA DeliveredAwake ==
    ASSUME NEW c, CoOK(c), NEW n, Awake(c, n)
    PROVE  /\ Awake(Delivered(c), n)
           /\ Delivered(c).mode = c.mode /\ Delivered(c).used = c.used
<1>1. c \in CoType /\ c.gen \in Nat /\ c.timer \in Nat
  BY DEF CoOK, CoType, Gen
<1> DEFINE s == IF c.timer # 0 THEN c.stray \cup {c.timer} ELSE c.stray
           d == [c EXCEPT !.timer = 0, !.stray = s]
<1>2. d = Delivered(c)
  BY <1>1 DEF CoType, Delivered
<1>3. c.stray \subseteq s /\ (c.timer # 0 => c.timer \in s)
  OBVIOUS
<1> HIDE DEF s
<1>4. /\ d.mode = c.mode /\ d.on = c.on /\ d.gen = c.gen /\ d.timer = 0 /\ d.stray = s
      /\ d.queue = c.queue /\ d.used = c.used /\ d.last = c.last /\ d.ctl = c.ctl
  BY <1>1 DEF CoType
<1> HIDE DEF d
<1>5. Claimable(d)
  BY <1>4 DEF Awake, Claimable, Scheduled, LastIs
<1>6. Wake(c, n) => Wake(d, n)
  BY <1>3, <1>4 DEF Wake
<1>7. QED
  BY <1>2, <1>4, <1>5, <1>6 DEF Awake

(* A row with one more operation behind what it had.                       *)
Queued(c, d, o) ==
    /\ d.mode = c.mode /\ d.on = c.on /\ d.gen = c.gen /\ d.used = c.used
    /\ d.last = c.last /\ d.ctl = c.ctl /\ d.queue = Append(c.queue, o)

LEMMA QueuedAwake ==
    ASSUME NEW c \in CoType, NEW n \in {0, 1}, n = 1 => c.queue # <<>>, Awake(c, n),
           NEW o, o \in Op, NEW d, Queued(c, d, o),
           \/ d.timer = c.timer
           \/ o.kind = "fire" /\ o.gen = c.timer,
           \A g \in c.stray : g \in d.stray \/ (o.kind = "fire" /\ o.gen = g)
    PROVE  Awake(d, n)
<1>1. c.queue \in Seq(Op) /\ d.queue = Append(c.queue, o)
  BY Fields DEF Queued
<1>2. Claimable(d)
  BY DEF Awake, Claimable, Scheduled, LastIs, Queued
<1>3. ASSUME c.mode = "backoff"
      PROVE  Wake(d, n)
  <2>1. Wake(c, n) /\ d.gen = c.gen
    BY <1>3 DEF Awake, Queued
  <2>2. /\ Len(c.queue) + 1 \in DOMAIN d.queue /\ d.queue[Len(c.queue) + 1] = o
        /\ Len(c.queue) + 1 > n
    BY <1>1
  <2>3. CASE o.kind = "fire" /\ o.gen = c.gen
    BY <2>1, <2>2, <2>3 DEF Wake
  <2>4. CASE ~(o.kind = "fire" /\ o.gen = c.gen)
    <3>1. \A i \in DOMAIN c.queue : i \in DOMAIN d.queue /\ d.queue[i] = c.queue[i]
      BY <1>1
    <3>2. c.timer = c.gen => d.timer = d.gen
      BY <2>1, <2>4
    <3>3. c.gen \in c.stray => d.gen \in d.stray
      BY <2>1, <2>4
    <3>4. QED
      BY <2>1, <3>1, <3>2, <3>3 DEF Wake
  <2>5. QED
    BY <2>3, <2>4
<1>4. QED
  BY <1>2, <1>3 DEF Awake, Queued

(* Concluding an issued control touches no scheduled one.                  *)
LEMMA UpdateControlAwake ==
    ASSUME NEW c, CoOK(c), NEW n, Awake(c, n), NEW k \in Control, c.ctl[k] = "issued",
           NEW status, NEW t
    PROVE  Awake(UpdateControl(c, k, status, t), n)
<1> DEFINE d == UpdateControl(c, k, status, t)
<1>1. c \in CoType /\ c.ctl \in [Control -> Status]
  BY Fields DEF CoOK
<1>2. /\ d.mode = c.mode /\ d.on = c.on /\ d.gen = c.gen /\ d.timer = c.timer
      /\ d.stray = c.stray /\ d.queue = c.queue /\ d.used = c.used /\ d.last = c.last
      /\ d.ctl = c.ctl \/ d.ctl = [c.ctl EXCEPT ![k] = status]
  BY <1>1 DEF CoType, UpdateControl
<1> HIDE DEF d
<1>3. Scheduled(c) => Scheduled(d)
  BY <1>1, <1>2 DEF Scheduled, LastIs
<1>4. QED
  BY <1>2, <1>3 DEF Awake, Claimable, Wake, d

LEMMA StartCatchAwake ==
    ASSUME CoOK(co), co.queue # <<>>, turn \in Turn \cup {0}, flight.ctl \in Control,
           co.ctl[flight.ctl] = "issued", Awake(co, 1), NEW unavailable
    PROVE  Awake(StartCatch(co, unavailable), 0)
<1>1. ASSUME NEW status \in {"started", "failed"}, NEW t \in Turn \cup {0}
      PROVE  /\ CoOK(Finish(UpdateControl(co, flight.ctl, status, t)))
             /\ Awake(Finish(UpdateControl(co, flight.ctl, status, t)), 0)
  <2> DEFINE u == UpdateControl(co, flight.ctl, status, t)
  <2>1. CoOK(u) /\ u.queue # <<>>
    <3>1. Concluded(co, u, flight.ctl, status)
      BY <1>1, UpdateControlStep
    <3>2. QED
      BY <3>1 DEF Concluded
  <2>2. Awake(u, 1)
    BY UpdateControlAwake
  <2> HIDE DEF u
  <2>3. CoOK(Finish(u)) /\ Awake(Finish(u), 0)
    BY <2>1, <2>2, FinishStep, FinishAwake
  <2>4. QED
    BY <2>3 DEF u
<1> DEFINE d == Finish(UpdateControl(co, flight.ctl, "failed", 0))
           m == [d EXCEPT !.mode = "monitoring", !.gen = @ + 1]
           e == IF d.on THEN m ELSE d
<1>2. CASE turn # 0
  BY <1>1, <1>2 DEF StartCatch
<1>3. CASE turn = 0
  <2>1. CoOK(d) /\ Awake(d, 0)
    BY <1>1
  <2>2. StartCatch(co, unavailable) =
          IF unavailable THEN ArmRefresh(e, turn) ELSE Evaluate(d, act, turn)
    BY <1>3 DEF StartCatch
  <2> HIDE DEF d
  <2>3. d \in CoType /\ d.gen + 1 \in Gen
    BY <2>1, Fields DEF CoOK, Gen
  <2>4. m \in CoType /\ m.mode = "monitoring"
    BY <2>3 DEF CoType, Mode
  <2>5. Calm(d, m)
    BY <2>3 DEF CoType, Gen, Calm
  <2>6. CoOK(m) /\ Awake(m, 0)
    <3> HIDE DEF m
    <3>1. QED
      BY <2>1, <2>4, <2>5, CalmStep, ElsewhereAwake DEF Step
  <2>7. CoOK(e) /\ Awake(e, 0)
    BY <2>1, <2>6
  <2> HIDE DEF e
  <2>8. Awake(ArmRefresh(e, turn), 0) /\ Awake(Evaluate(d, act, turn), 0)
    BY <2>1, <2>7, ArmRefreshAwake, EvaluateAwake
  <2>9. QED
    BY <2>2, <2>8
<1>4. QED
  BY <1>2, <1>3

(* What every step is shown to keep.                                       *)
WakesNow == IInv /\ WakeInv

LEMMA AwakeNow ==
    ASSUME WakesNow, alive
    PROVE  /\ CoOK(co) /\ co \in CoType /\ Awake(co, StartHeld) /\ Claimable(co)
           /\ StartHeld \in {0, 1} /\ (StartHeld = 1 => co.queue # <<>>)
           /\ act \in Activity /\ turn \in Turn \cup {0}
<1>1. StartHeld = 1 => phase # "none"
  BY DEF StartHeld, Starts, Unsent
<1>2. QED
  BY <1>1, RowOK DEF WakesNow, WakeInv, StartHeld, IInv, FlightOK, TypeOK, EnvType

(* The start that holds the head of the queue, if any, still holds it.     *)
LEMMA StillAwake ==
    ASSUME Awake(co', StartHeld), phase' \in Starts <=> phase \in Starts
    PROVE  WakeInv'
<1>1. StartHeld' = StartHeld
  BY DEF StartHeld
<1>2. QED
  BY <1>1 DEF WakeInv, Awake, Claimable, Wake, Scheduled, LastIs

(* No start holds the head of the queue after the step.                    *)
LEMMA FreeAwake ==
    ASSUME Awake(co', 0), phase' \notin Starts
    PROVE  WakeInv'
<1>1. StartHeld' = 0
  BY DEF StartHeld
<1>2. QED
  BY <1>1 DEF WakeInv, Awake, Claimable, Wake, Scheduled, LastIs

LEMMA EndFree == ASSUME EndOp PROVE phase' \notin Starts
  BY DEF EndOp, Starts, Unsent

(* The actions that change no row, or only let the registry publish.       *)
LEMMA CalmAwake ==
    ASSUME WakesNow,
           SendRejected \/ SendStopped \/ WriterReady \/ StartSends \/ RefreshReads \/ OrphanEnds
    PROVE  WakeInv'
<1>1. alive /\ co' = co
  BY DEF SendRejected, SendStopped, WriterReady, StartSends, RefreshReads, OrphanEnds, Quiet
<1>2. phase' \in Starts <=> phase \in Starts
  BY DEF SendRejected, SendStopped, WriterReady, StartSends, RefreshReads, OrphanEnds,
     Starts, Unsent
<1>3. Awake(co', StartHeld)
  BY <1>1, AwakeNow
<1>4. QED
  BY <1>2, <1>3, StillAwake

LEMMA EnableAwake == ASSUME WakesNow, Enable PROVE WakeInv'
<1> DEFINE m == [co EXCEPT !.mode = "monitoring", !.on = TRUE, !.gen = @ + 1]
<1>1. co \in CoType /\ co.gen + 1 \in Gen
  BY RowOK, Fields DEF Gen, WakesNow
<1>2. m \in CoType /\ m.mode = "monitoring"
  BY <1>1 DEF CoType, Mode
<1>3. Calm(co, m)
  BY <1>1 DEF CoType, Gen, Calm
<1>4. CoOK(m)
  BY <1>2, <1>3, CalmStep, RowOK DEF Step, WakesNow
<1>5. co' = Evaluate(m, act, turn) /\ UNCHANGED phase
  BY DEF Enable
<1> HIDE DEF m
<1>6. Awake(co', StartHeld)
  BY <1>2, <1>4, <1>5, ElsewhereAwake, EvaluateAwake
<1>7. QED
  BY <1>5, <1>6, StillAwake

LEMMA DisableAwake == ASSUME WakesNow, Disable PROVE WakeInv'
<1>1. Awake(co', StartHeld)
  BY OffAwake, RowOK DEF Disable, WakesNow
<1>2. QED
  BY <1>1, StillAwake DEF Disable

LEMMA BeginRefreshAwake ==
    ASSUME WakesNow, alive, BeginRefresh(co), NEW n, Awake(co, n)
    PROVE  Awake(co', n)
<1>1. "reconciling" \in Activity
  BY DEF Activity
<1>2. QED
  BY <1>1, AwakeNow, ActivityChangedAwake DEF BeginRefresh

LEMMA RefreshBegunAwake ==
    ASSUME WakesNow, ClientRefresh \/ StaleTimerFires PROVE WakeInv'
<1>1. alive /\ BeginRefresh(co) /\ UNCHANGED phase
  BY DEF ClientRefresh, StaleTimerFires, Quiet
<1>2. Awake(co', StartHeld)
  BY <1>1, AwakeNow, BeginRefreshAwake
<1>3. QED
  BY <1>1, <1>2, StillAwake

LEMMA SendBeginAwake == ASSUME WakesNow, SendBegin PROVE WakeInv'
<1>1. alive /\ (co' = co \/ co' = ManualSend(co)) /\ UNCHANGED phase
  BY DEF SendBegin, Quiet
<1>2. Awake(co', StartHeld)
  BY <1>1, AwakeNow, ManualSendAwake
<1>3. QED
  BY <1>1, <1>2, StillAwake

LEMMA SendSavesAwake == ASSUME WakesNow, SendSaves PROVE WakeInv'
<1> DEFINE begins == ~up /\ refresh = "none"
           a == IF begins THEN "reconciling" ELSE act
           c == IF begins THEN ActivityChanged(co, a, 0) ELSE co
           d == IF up THEN c ELSE Restore(c, a, 0)
<1>1. a \in Activity /\ alive
  BY AwakeNow DEF Activity, SendSaves
<1>2. co' = ManualSend(d) /\ UNCHANGED phase
  BY DEF SendSaves
<1> HIDE DEF a
<1>3. CoOK(c) /\ Awake(c, StartHeld)
  BY <1>1, AwakeNow, ActivityChangedStep, ActivityChangedAwake DEF Step
<1> HIDE DEF c
<1>4. CoOK(d) /\ Awake(d, StartHeld)
  BY <1>3, RestoreStep, RestoreAwake DEF Step, Awake
<1> HIDE DEF d
<1>5. Awake(co', StartHeld)
  BY <1>2, <1>4, ManualSendAwake DEF Awake
<1>6. QED
  BY <1>2, <1>5, StillAwake

LEMMA SendAcceptedAwake ==
    ASSUME WakesNow, NEW early \in BOOLEAN, SendAccepted(early) PROVE WakeInv'
<1>1. alive /\ co' = PublishStarted(early, NextUserTurn) /\ UNCHANGED phase
  BY DEF SendAccepted, Quiet
<1>2. Awake(co', StartHeld)
  BY <1>1, AwakeNow, PublishStartedAwake
<1>3. QED
  BY <1>1, <1>2, StillAwake

(* A callback gives up its handle and queues its operation.                *)
LEMMA CallbackAwake ==
    ASSUME WakesNow, alive, UNCHANGED phase, NEW o \in Op, Queued(co, co', o),
           \/ co'.timer = co.timer
           \/ o.kind = "fire" /\ o.gen = co.timer,
           \A g \in co.stray : g \in co'.stray \/ (o.kind = "fire" /\ o.gen = g)
    PROVE  WakeInv'
<1>1. Awake(co', StartHeld)
  BY AwakeNow, QueuedAwake
<1>2. QED
  BY <1>1, StillAwake

LEMMA TimerFiresAwake == ASSUME WakesNow, TimerFires PROVE WakeInv'
<1> DEFINE o == [kind |-> "fire", gen |-> co.timer, mode |-> "backoff"]
<1>1. alive /\ UNCHANGED phase /\ co \in CoType
  BY AwakeNow DEF TimerFires, Quiet
<1>2. o \in Op /\ o.kind = "fire" /\ o.gen = co.timer
  BY <1>1 DEF CoType, Op, OpKind, Mode
<1>3. co' = Enqueue([co EXCEPT !.timer = 0], "fire", co.timer, "backoff")
  BY DEF TimerFires
<1>4. Queued(co, co', o) /\ co'.stray = co.stray
  BY <1>1, <1>3 DEF CoType, Enqueue, Queued
<1> HIDE DEF o
<1>5. QED
  BY <1>1, <1>2, <1>4, CallbackAwake

LEMMA StrayFiresAwake == ASSUME WakesNow, StrayFires PROVE WakeInv'
<1>1. PICK g \in co.stray : co' = Enqueue([co EXCEPT !.stray = @ \ {g}], "fire", g, "backoff")
  BY DEF StrayFires
<1> DEFINE o == [kind |-> "fire", gen |-> g, mode |-> "backoff"]
<1>2. alive /\ UNCHANGED phase /\ co \in CoType
  BY AwakeNow DEF StrayFires, Quiet
<1>3. o \in Op /\ o.kind = "fire" /\ o.gen = g
  BY <1>2 DEF CoType, Op, OpKind, Mode
<1>4. Queued(co, co', o) /\ co'.stray = co.stray \ {g} /\ co'.timer = co.timer
  BY <1>1, <1>2 DEF CoType, Enqueue, Queued
<1> HIDE DEF o
<1>5. QED
  BY <1>2, <1>3, <1>4, CallbackAwake

LEMMA WatchFiresAwake == ASSUME WakesNow, WatchFires PROVE WakeInv'
<1> DEFINE o == [kind |-> "watch", gen |-> co.watch.gen, mode |-> co.watch.mode]
<1>1. alive /\ UNCHANGED phase /\ co \in CoType
  BY AwakeNow DEF WatchFires, Quiet
<1>2. o \in Op
  BY <1>1 DEF CoType, Watch, Op, OpKind
<1>3. co' = Enqueue([co EXCEPT !.watch = Unarmed], "watch", co.watch.gen, co.watch.mode)
  BY DEF WatchFires
<1>4. Queued(co, co', o) /\ co'.stray = co.stray /\ co'.timer = co.timer
  BY <1>1, <1>3 DEF CoType, Enqueue, Queued
<1> HIDE DEF o
<1>5. QED
  BY <1>1, <1>2, <1>4, CallbackAwake

LEMMA SettleFiresAwake == ASSUME WakesNow, SettleFires PROVE WakeInv'
<1> DEFINE o == [kind |-> "settled", gen |-> 0, mode |-> "monitoring"]
<1>1. alive /\ UNCHANGED phase /\ co \in CoType
  BY AwakeNow DEF SettleFires, Quiet
<1>2. o \in Op
  BY DEF Op, OpKind, Mode, Gen
<1>3. co' = Enqueue([co EXCEPT !.settle = FALSE], "settled", 0, "monitoring")
  BY DEF SettleFires
<1>4. Queued(co, co', o) /\ co'.stray = co.stray /\ co'.timer = co.timer
  BY <1>1, <1>3 DEF CoType, Enqueue, Queued
<1> HIDE DEF o
<1>5. QED
  BY <1>1, <1>2, <1>4, CallbackAwake

(* The head of the queue is fire(): one of an older generation is dropped, *)
(* one of this generation claims the control or leaves backoff.            *)
LEMMA RunFireAwake == ASSUME WakesNow, RunFire PROVE WakeInv'
<1> DEFINE g == Head(co.queue).gen
           c == Delivered(co)
           f == Finish(c)
           p == Finish([WithdrawControl(c) EXCEPT !.mode = "safetyPaused", !.on = FALSE])
<1>1. alive /\ phase = "none" /\ co.queue # <<>>
  BY DEF RunFire, Due
<1>2. Awake(co, 0) /\ CoOK(co)
  <2>1. StartHeld = 0
    BY <1>1 DEF StartHeld, Starts, Unsent
  <2>2. QED
    BY <1>1, <2>1, AwakeNow
<1>3. /\ CoOK(c) /\ c.queue = co.queue /\ c.on = co.on /\ c.gen = co.gen /\ c.last = co.last
      /\ c.ctl = co.ctl /\ Awake(c, 0)
  BY <1>2, DeliveredStep, DeliveredAwake
<1>4. \/ (c.gen # g \/ ~c.on) /\ co' = f /\ EndOp
      \/ co' = Evaluate(WithdrawControl(f), act, turn) /\ EndOp
      \/ act \notin Fresh /\ co' = Evaluate(f, act, turn) /\ EndOp
      \/ ControlIssuable(c) /\ co' = ClaimControl(c)
      \/ ~ControlIssuable(c) /\ c.on /\ co' = f /\ EndOp
      \/ co' = p /\ EndOp
  BY DEF RunFire
<1>5. co'.used <= MaxControls
  BY DEF RunFire, WithinBounds
<1> HIDE DEF c
<1>6. CoOK(f) /\ f.mode = c.mode /\ f.on = c.on /\ f.used = c.used
  <2>1. CoOK(f) /\ c \in CoType
    BY <1>1, <1>3, FinishStep DEF CoOK
  <2>2. f.mode = c.mode /\ f.on = c.on /\ f.used = c.used
    BY <2>1 DEF CoType, Finish
  <2>3. QED
    BY <2>1, <2>2
<1>7. CASE (c.gen # g \/ ~c.on) /\ co' = f /\ EndOp
  <2>1. c.mode # "backoff" \/ Head(c.queue).gen # c.gen
    BY <1>3, <1>7 DEF Awake, Claimable
  <2>2. Awake(f, 0)
    BY <1>1, <1>3, <2>1, FinishAwake
  <2>3. QED
    BY <1>7, <2>2, EndFree, FreeAwake
<1>8. CASE co' = Evaluate(WithdrawControl(f), act, turn) /\ EndOp
  <2>1. CoOK(WithdrawControl(f)) /\ Awake(WithdrawControl(f), 0)
    BY <1>6, WithdrawControlStep, WithdrawControlMode, ElsewhereAwake DEF Step
  <2>2. Awake(co', 0)
    BY <1>8, <2>1, EvaluateAwake
  <2>3. QED
    BY <1>8, <2>2, EndFree, FreeAwake
<1>9. CASE act \notin Fresh /\ co' = Evaluate(f, act, turn) /\ EndOp
  <2>1. (co' = f /\ f.mode = "safetyPaused") \/ co' = Off(f) \/ co' = RequestReconcile(f)
    BY <1>9 DEF Evaluate
  <2>2. Awake(co', 0)
    BY <1>6, <2>1, OffAwake, RequestReconcileAwake, ElsewhereAwake
  <2>3. QED
    BY <1>9, <2>2, EndFree, FreeAwake
<1>10. CASE ControlIssuable(c) /\ co' = ClaimControl(c)
  <2>1. c \in CoType
    BY <1>3 DEF CoOK
  <2>2. co'.mode = "monitoring"
    BY <1>10, <2>1 DEF CoType, ClaimControl
  <2>3. QED
    BY <2>2 DEF WakeInv, Awake, Claimable
<1>11. CASE ~ControlIssuable(c) /\ c.on /\ co' = f /\ EndOp
  <2>1. c.used <= MaxControls
    BY <1>5, <1>6, <1>11
  <2>2. ~(c.used > MaxControls)
    BY <1>3, <2>1, Fields, BoundsAssumption DEF CoOK
  <2>3. c.mode # "backoff"
    BY <1>3, <1>11, <2>2 DEF ControlIssuable, Awake, Claimable
  <2>4. Awake(f, 0)
    BY <1>6, <2>3, ElsewhereAwake
  <2>5. QED
    BY <1>11, <2>4, EndFree, FreeAwake
<1>12. CASE co' = p /\ EndOp
  <2>1. WithdrawControl(c) \in CoType
    BY <1>3, WithdrawControlStep DEF Step, CoOK
  <2>2. p.mode = "safetyPaused"
    BY <2>1 DEF CoType, Finish
  <2>3. Awake(co', 0)
    BY <1>12, <2>2, ElsewhereAwake
  <2>4. QED
    BY <1>12, <2>3, EndFree, FreeAwake
<1>13. QED
  BY <1>4, <1>7, <1>8, <1>9, <1>10, <1>11, <1>12

LEMMA StartAcceptedAwake ==
    ASSUME WakesNow, NEW early \in BOOLEAN, StartAccepted(early) PROVE WakeInv'
<1>1. alive /\ co' = PublishStarted(early, flight.ctl) /\ phase \in Starts /\ phase' \in Starts
  BY DEF StartAccepted, Quiet, Starts
<1>2. Awake(co', StartHeld)
  BY <1>1, AwakeNow, PublishStartedAwake
<1>3. QED
  BY <1>1, <1>2, StillAwake

LEMMA StartEndsAwake ==
    ASSUME WakesNow, StartFenced \/ StartRejected \/ StartStopped PROVE WakeInv'
<1>1. phase \in Starts /\ alive /\ EndOp
  BY DEF StartFenced, StartRejected, StartStopped, Quiet, Starts, Unsent
<1>2. PICK unavailable : co' = StartCatch(co, unavailable)
  BY DEF StartFenced, StartRejected, StartStopped
<1>3. Awake(co, 1)
  BY <1>1, AwakeNow DEF StartHeld
<1>4. Awake(co', 0)
  BY <1>1, <1>2, <1>3, HoldsStart, StartCatchAwake DEF WakesNow
<1>5. QED
  BY <1>1, <1>4, EndFree, FreeAwake

LEMMA StartRecordedAwake == ASSUME WakesNow, StartRecorded PROVE WakeInv'
<1> DEFINE u == UpdateControl(co, flight.ctl, "started", turn)
<1>1. phase \in Starts /\ alive /\ EndOp /\ co' = Finish(u)
  BY DEF StartRecorded, Starts
<1>2. Awake(u, 1)
  BY <1>1, AwakeNow, HoldsStart, UpdateControlAwake DEF StartHeld, WakesNow
<1>3. CoOK(u) /\ u.queue # <<>>
  <2>1. Concluded(co, u, flight.ctl, "started")
    BY <1>1, HoldsStart, UpdateControlStep DEF WakesNow
  <2>2. QED
    BY <1>1, <2>1, HoldsStart DEF Concluded, WakesNow
<1> HIDE DEF u
<1>4. Awake(co', 0)
  BY <1>1, <1>2, <1>3, FinishAwake
<1>5. QED
  BY <1>1, <1>4, EndFree, FreeAwake

(* The operations that are not fire() leave no wake behind them.           *)
LEMMA HeadFinished ==
    ASSUME WakesNow, alive, phase \notin Starts, co.queue # <<>>, Head(co.queue).kind # "fire"
    PROVE  CoOK(Finish(co)) /\ Awake(Finish(co), 0)
<1>1. Awake(co, 0) /\ CoOK(co)
  BY AwakeNow DEF StartHeld
<1>2. QED
  BY <1>1, FinishStep, FinishAwake

LEMMA RunReconcileAwake == ASSUME WakesNow, RunReconcile PROVE WakeInv'
<1>1. alive /\ BeginRefresh(co) /\ phase = "none" /\ phase' = "refresh"
  BY DEF RunReconcile, Due
<1>2. phase \notin Starts /\ phase' \notin Starts
  BY <1>1 DEF Starts, Unsent
<1>3. Awake(co', StartHeld)
  BY <1>1, AwakeNow, BeginRefreshAwake
<1>4. QED
  BY <1>2, <1>3, StillAwake

LEMMA ReconcileResumesAwake == ASSUME WakesNow, ReconcileResumes PROVE WakeInv'
<1> DEFINE f == Finish(co)
           c == [f EXCEPT !.reconciling = FALSE]
           m == [c EXCEPT !.mode = "monitoring", !.gen = @ + 1]
<1>1. alive /\ co.queue # <<>> /\ phase \notin Starts /\ EndOp /\ Head(co.queue).kind = "reconcile"
  BY DEF ReconcileResumes, Resumes, WakesNow, IInv, FlightOK, Starts, Unsent
<1>2. CoOK(f) /\ Awake(f, 0) /\ f \in CoType
  BY <1>1, HeadFinished DEF CoOK
<1>3. Len(f.queue) + 1 = Len(co.queue) /\ co \in CoType /\ QueueOK(co)
  BY <1>1, RowOK, FinishStep DEF CoOK, WakesNow
<1> HIDE DEF f
<1>4. c \in CoType
  BY <1>2 DEF CoType
<1>5. SameWakes(f, c) /\ c.queue = f.queue /\ c.reconciling = FALSE
  BY <1>2 DEF CoType, SameWakes
<1>6. CoOK(c) /\ Awake(c, 0)
  <2>1. LedgerOK(c)
    BY <1>2, <1>5 DEF CoOK, LedgerOK, SameWakes
  <2>2. Len(c.queue) \in Nat /\ Len(co.queue) \in Nat /\ co.reconciling \in BOOLEAN
    BY <1>3, <1>4, Fields
  <2>3. QueueOK(c)
    BY <1>3, <1>5, <2>2, BoundsAssumption, SMTT(40) DEF QueueOK
  <2>4. QED
    BY <1>2, <1>4, <1>5, <2>1, <2>3, SameWakesAwake DEF CoOK
<1> HIDE DEF c
<1>7. Awake(Evaluate(c, act, turn), 0)
  BY <1>6, EvaluateAwake
<1>8. Awake(ArmRefresh(m, turn), 0)
  <2>1. c.gen + 1 \in Gen
    BY <1>4, Fields DEF Gen
  <2>2. m \in CoType /\ m.mode = "monitoring"
    BY <1>4, <2>1 DEF CoType, Mode
  <2>3. Calm(c, m)
    BY <1>4 DEF CoType, Gen, Calm
  <2>4. CoOK(m)
    BY <1>6, <2>2, <2>3, CalmStep DEF Step
  <2> HIDE DEF m
  <2>5. QED
    BY <2>2, <2>4, ElsewhereAwake, ArmRefreshAwake
<1>9. Awake(co', 0)
  BY <1>6, <1>7, <1>8 DEF ReconcileResumes, c, f
<1>10. QED
  BY <1>1, <1>9, EndFree, FreeAwake

LEMMA RunWatchAwake == ASSUME WakesNow, RunWatch PROVE WakeInv'
<1>1. alive /\ phase = "none" /\ co.queue # <<>> /\ Head(co.queue).kind = "watch"
  BY DEF RunWatch, Due
<1>2. phase \notin Starts
  BY <1>1 DEF Starts, Unsent
<1>3. CASE BeginRefresh(co) /\ phase' = "refresh"
  <2>1. phase' \notin Starts
    BY <1>3 DEF Starts, Unsent
  <2>2. Awake(co', StartHeld)
    BY <1>1, <1>3, AwakeNow, BeginRefreshAwake
  <2>3. QED
    BY <1>2, <2>1, <2>2, StillAwake
<1>4. CASE co' = Finish(co) /\ EndOp
  BY <1>1, <1>2, <1>4, HeadFinished, EndFree, FreeAwake
<1>5. QED
  BY <1>3, <1>4 DEF RunWatch

LEMMA WatchResumesAwake == ASSUME WakesNow, WatchResumes PROVE WakeInv'
<1>1. alive /\ co.queue # <<>> /\ phase \notin Starts /\ EndOp /\ Head(co.queue).kind = "watch"
  BY DEF WatchResumes, Resumes, WakesNow, IInv, FlightOK, Starts, Unsent
<1>2. Awake(co', 0)
  BY <1>1, HeadFinished, EvaluateAwake DEF WatchResumes
<1>3. QED
  BY <1>1, <1>2, EndFree, FreeAwake

LEMMA RunSettledAwake == ASSUME WakesNow, RunSettled PROVE WakeInv'
<1>1. alive /\ co.queue # <<>> /\ phase \notin Starts /\ EndOp /\ Head(co.queue).kind = "settled"
  BY DEF RunSettled, Due, Starts, Unsent
<1>2. Awake(co', 0)
  BY <1>1, HeadFinished, EvaluateAwake DEF RunSettled
<1>3. QED
  BY <1>1, <1>2, EndFree, FreeAwake

LEMMA RefreshEndsAwake == ASSUME WakesNow, RefreshOk \/ RefreshFails PROVE WakeInv'
<1>1. alive /\ phase' = Waiting
  BY DEF RefreshOk, RefreshFails, Quiet
<1>2. phase' \in Starts <=> phase \in Starts
  BY <1>1 DEF Waiting, Starts, Unsent
<1>3. PICK a \in Activity : co' = co \/ co' = ActivityChanged(co, a, turn)
  <2>1. "stale" \in Activity /\ Fresh \subseteq Activity
    BY DEF Activity
  <2>2. QED
    BY <2>1 DEF RefreshOk, RefreshFails
<1>4. Awake(co', StartHeld)
  BY <1>1, <1>3, AwakeNow, ActivityChangedAwake
<1>5. QED
  BY <1>2, <1>4, StillAwake

LEMMA TurnCompletesAwake == ASSUME WakesNow, TurnCompletes PROVE WakeInv'
<1>1. PICK t \in running :
          LET c == IF turn = t THEN ActivitySettled(co) ELSE co
              d == Publish(c, "idle", turn')
          IN  co' = IF turn = t THEN Evaluate(d, "idle", 0) ELSE d
  BY DEF TurnCompletes
<1> DEFINE c == IF turn = t THEN ActivitySettled(co) ELSE co
           d == Publish(c, "idle", turn')
<1>2. "idle" \in Activity /\ alive /\ UNCHANGED phase
  BY DEF Activity, Fresh, TurnCompletes, Quiet
<1>3. CoOK(c) /\ Awake(c, StartHeld)
  BY <1>2, AwakeNow, ActivitySettledStep, ActivitySettledAwake DEF Step
<1>4. co' = IF turn = t THEN Evaluate(d, "idle", 0) ELSE d
  BY <1>1
<1> HIDE DEF c
<1>5. CoOK(d) /\ Awake(d, StartHeld)
  BY <1>2, <1>3, PublishStep, PublishAwake DEF Step
<1> HIDE DEF d
<1>6. Awake(co', StartHeld)
  BY <1>4, <1>5, EvaluateAwake
<1>7. QED
  BY <1>2, <1>6, StillAwake

LEMMA TurnReportsAwake == ASSUME WakesNow, TurnReports PROVE WakeInv'
<1>1. "working" \in Activity /\ alive /\ UNCHANGED phase
  BY DEF Activity, Fresh, TurnReports, Quiet
<1>2. Awake(co', StartHeld)
  BY <1>1, AwakeNow, PublishAwake DEF TurnReports
<1>3. QED
  BY <1>1, <1>2, StillAwake

LEMMA WriterExitsAwake == ASSUME WakesNow, WriterExits PROVE WakeInv'
<1> DEFINE d == Publish(co, "stale", turn)
<1>1. "stale" \in Activity /\ alive
  BY DEF Activity, WriterExits, Quiet
<1>2. CoOK(d)
  BY <1>1, AwakeNow, PublishStep DEF Step
<1>3. co' = Off(d) /\ (phase' \in Starts <=> phase \in Starts)
  BY DEF WriterExits, Starts, Unsent
<1> HIDE DEF d
<1>4. Awake(co', StartHeld)
  BY <1>2, <1>3, OffAwake
<1>5. QED
  BY <1>3, <1>4, StillAwake

(* A crash keeps the durable row: On, in backoff, its control scheduled.   *)
LEMMA CrashAwake == ASSUME WakesNow, Crash PROVE WakeInv'
<1>1. alive /\ ~alive' /\ co \in CoType
  BY RowOK DEF Crash, WakesNow
<1>2. /\ co'.mode = co.mode /\ co'.on = co.on /\ co'.used = co.used /\ co'.last = co.last
      /\ co'.ctl = co.ctl
  BY <1>1 DEF Crash, CoType
<1>3. Claimable(co')
  BY <1>2 DEF WakesNow, WakeInv, Claimable, Scheduled, LastIs
<1>4. QED
  BY <1>1, <1>3 DEF WakeInv, Claimable, Scheduled, LastIs

LEMMA RestartAwake == ASSUME WakesNow, Restart PROVE WakeInv'
<1>1. PICK planFirst \in BOOLEAN :
          co' = Restore(IF planFirst /\ co.on THEN Evaluate(co, act, turn) ELSE co, act, 0)
  BY DEF Restart
<1> DEFINE c == IF planFirst /\ co.on THEN Evaluate(co, act, turn) ELSE co
<1>2. CoOK(co) /\ Claimable(co)
  BY RowOK DEF WakesNow, WakeInv
<1>3. CoOK(c) /\ Claimable(c)
  <2>1. CoOK(Evaluate(co, act, turn))
    BY <1>2, EvaluateStep DEF Step
  <2>2. ASSUME co.on
        PROVE  Claimable(Evaluate(co, act, turn))
    <3>1. Awake(Off(co), 0) /\ Awake(RequestReconcile(co), 0) /\ Awake(Schedule(co), 0)
      BY <1>2, <2>2, OffAwake, RequestReconcileAwake, ScheduleAwake
    <3>2. QED
      BY <1>2, <3>1 DEF Evaluate, Awake
  <2>3. QED
    BY <1>2, <2>1, <2>2
<1>4. co' = Restore(c, act, 0) /\ UNCHANGED phase
  BY <1>1 DEF Restart
<1> HIDE DEF c
<1>5. Awake(co', StartHeld)
  BY <1>3, <1>4, RestoreAwake
<1>6. QED
  BY <1>4, <1>5, StillAwake

LEMMA NextAwake == WakesNow /\ [Next]_vars => WakeInv'
<1> SUFFICES ASSUME WakesNow, [Next]_vars PROVE WakeInv'
  OBVIOUS
<1>1. CASE Human
  BY <1>1, EnableAwake, DisableAwake, RefreshBegunAwake, SendBeginAwake DEF Human
<1>2. CASE Sending
  BY <1>2, CalmAwake, SendSavesAwake, SendAcceptedAwake DEF Sending
<1>3. CASE Timers
  BY <1>3, TimerFiresAwake, StrayFiresAwake, WatchFiresAwake, SettleFiresAwake,
     RefreshBegunAwake DEF Timers
<1>4. CASE Starting
  BY <1>4, CalmAwake, StartEndsAwake, StartRecordedAwake, StartAcceptedAwake DEF Starting
<1>5. CASE Operations
  BY <1>5, RunFireAwake, RunReconcileAwake, ReconcileResumesAwake, RunWatchAwake,
     WatchResumesAwake, RunSettledAwake DEF Operations
<1>6. CASE Runtime
  BY <1>6, CalmAwake, RefreshEndsAwake, TurnCompletesAwake, TurnReportsAwake DEF Runtime
<1>7. CASE Losses
  BY <1>7, WriterExitsAwake, CrashAwake, RestartAwake DEF Losses
<1>8. CASE UNCHANGED vars
  BY <1>8 DEF vars, WakesNow, WakeInv, Awake, Claimable, Wake, Scheduled, LastIs, StartHeld
<1>9. QED
  BY <1>1, <1>2, <1>3, <1>4, <1>5, <1>6, <1>7, <1>8 DEF Next

(* A row in backoff is never left without the wake that acts on it: no     *)
(* fire(), human turn, activity change, exit or restart loses the last one.*)
THEOREM BackoffKeepsItsWake == Spec => []BackoffArmed
<1>1. Init => WakeInv
  BY DEF Init, WakeInv, Awake, Claimable
<1>2. IInv /\ WakeInv /\ [Next]_vars => WakeInv'
  BY NextAwake DEF WakesNow
<1>3. WakeInv => BackoffArmed
  BY DEF WakeInv, Awake, Wake, BackoffArmed
<1>4. QED
  BY Invariance, <1>1, <1>2, <1>3, PTL DEF Spec
=============================================================================
