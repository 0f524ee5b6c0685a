------------------------ MODULE HeldInteractions_proofs ------------------------
(***************************************************************************)
(* Theorems of HeldInteractions for every set of keys and every bound.      *)
(* IInv is inductive: each of its parts has a lemma that every step         *)
(* preserves it, with one case for each action that can disturb it.         *)
(***************************************************************************)
EXTENDS HeldInteractions, TLAPS

LEMMA NoKeyNotKey == NoKey \notin Key
  BY KeyAssumption

LEMMA RequestType == Request \subseteq Nat \ {0} /\ MaxRequests \in Nat /\ MaxProcs \in Nat
                     /\ MaxCrashes \in Nat /\ MaxProcs >= 1
  BY BoundsAssumption DEF Request

(* ---------------------------- type correctness -------------------------- *)
LEMMA StoppedType == TypeOK => Stopped(proc) \in Process
  BY DEF TypeOK, Process, Stopped

LEMMA StartedType == TypeOK /\ proc.gen + 1 <= MaxProcs => Started(proc) \in Process
  BY RequestType DEF TypeOK, Process, Started

LEMMA EnsureType == TypeOK /\ EnsureWriter /\ WithinBounds => proc' \in Process
  BY StartedType, RequestType DEF TypeOK, Process, Started, EnsureWriter, WithinBounds

LEMMA OrphanedType ==
    TypeOK => Orphaned(ops) \subseteq Op
  BY DEF TypeOK, Orphaned, Op

LEMMA DismissedType ==
    ASSUME TypeOK, NEW outcome \in Closed
    PROVE  Dismissed(rows, outcome) \in [Request -> Row]
  BY DEF TypeOK, Row, Dismissed, Acknowledged, Closed

LEMMA AddedType ==
    ASSUME TypeOK, NEW r \in Request, NEW kind \in Kind, NEW state \in State
    PROVE  Added(r, kind, state) \in [Request -> Row]
  BY RequestType DEF TypeOK, Row, Process, Added, Kind

LEMMA AskedType ==
    ASSUME TypeOK, proc.next \in Request, NEW saves \in BOOLEAN, Asked(saves)
    PROVE  proc' \in Process /\ armed' \subseteq Request
  <1> DEFINE n == proc.next
  <1>1. n + 1 \in 1 .. MaxRequests + 1
    BY RequestType DEF Request
  <1>2. /\ proc \in Process
        /\ proc' = [proc EXCEPT !.next = n + 1, !.held[n] = "acking",
                                !.unresolved = @ \cup {n}]
        /\ armed' = armed \cup {n}
    BY DEF Asked, TypeOK
  <1>3. n \in Request /\ armed \subseteq Request
    BY DEF TypeOK
  <1> HIDE DEF n
  <1>4. proc' \in Process
    BY <1>1, <1>2, <1>3 DEF Process
  <1> QED BY <1>2, <1>3, <1>4

LEMMA SettledType ==
    ASSUME NEW row \in Row, NEW k \in Key, NEW outcome \in {"answered", "failed"}
    PROVE  SettledRow(row, k, outcome) \in Row
  BY DEF SettledRow, Row, Closed, State

LEMMA BegunType ==
    ASSUME NEW row \in Row, NEW k \in Key
    PROVE  Begun(row, k) \in Row
  BY DEF Begun, Row, State

LEMMA RetriedType ==
    ASSUME NEW row \in Row, NEW k \in Key, NEW state \in State
    PROVE  Retried(row, k, state) \in Row
  BY DEF Retried, Row

LEMMA KeyedType ==
    ASSUME TypeOK, NEW r \in Request, NEW k \in Key, NEW state \in State,
           rows' = [rows EXCEPT ![r].key = k, ![r].state = state]
    PROVE  rows' \in [Request -> Row]
  <1> DEFINE keyed == [rows[r] EXCEPT !.key = k, !.state = state]
  <1>1. rows[r] \in Row /\ rows \in [Request -> Row]
    BY DEF TypeOK
  <1>2. keyed \in Row
    BY <1>1 DEF Row
  <1>3. rows' = [rows EXCEPT ![r] = keyed]
    BY <1>1
  <1> HIDE DEF keyed
  <1> QED BY <1>1, <1>2, <1>3

LEMMA SaysType ==
    ASSUME NEW r \in Request, NEW k \in Key,
           NEW kind \in {"none", "accepted", "replayed", "stale", "unavailable", "cleared"}, Says(r, k, kind)
    PROVE  reply' \in Reply
  BY DEF Says, Reply

LEMMA SilentType ==
    ASSUME Silent
    PROVE  reply' \in Reply
  BY DEF Silent, NoReply, Reply

LEMMA SettleAnsweredType ==
    ASSUME TypeOK, NEW r \in Request, NEW k \in Key, NEW row \in Row, SettleAnswered(r, k, row)
    PROVE  /\ rows' \in [Request -> Row]
           /\ saved' \subseteq Request \X Key
           /\ history' \in History
           /\ reply' \in Reply
  <1> DEFINE settled == SettledRow(row, k, "answered")
  <1>1. settled \in Row
    BY SettledType
  <1>2. rows' = [rows EXCEPT ![r] = settled]
    BY DEF SettleAnswered
  <1>3. rows' \in [Request -> Row]
    <2> HIDE DEF settled
    <2> QED BY <1>1, <1>2 DEF TypeOK
  <1>4. CASE settled # row
    <2>1. /\ saved' = saved \cup {<<r, k>>}
          /\ history' = [history EXCEPT !.done[r] = @ + 1]
          /\ Says(r, k, "accepted")
      BY <1>4 DEF SettleAnswered
    <2> QED BY <1>3, <2>1, SaysType DEF TypeOK, History
  <1>5. CASE settled = row
    <2>1. Says(r, k, "stale") /\ UNCHANGED <<saved, history>>
      BY <1>5 DEF SettleAnswered
    <2> QED BY <1>3, <2>1, SaysType DEF TypeOK, History
  <1> QED BY <1>4, <1>5
(* ------------------------------- the actions ---------------------------- *)
LEMMA AppServerType ==
    ASSUME TypeOK, AppServer
    PROVE  TypeOK'
  <1>1. CASE RaiseAttention
    <2> PICK saves \in BOOLEAN :
            /\ rows' = IF saves THEN Added(proc.next, "attention", "acknowledged") ELSE rows
            /\ Asked(saves)
      BY <1>1 DEF RaiseAttention
    <2>1. rows' \in [Request -> Row]
      BY <1>1, AddedType DEF RaiseAttention, TypeOK, Kind, State
    <2>2. proc' \in Process /\ armed' \subseteq Request
      BY <1>1, AskedType DEF RaiseAttention
    <2> QED BY <1>1, <2>1, <2>2, SilentType DEF RaiseAttention, TypeOK
  <1>2. CASE RaiseApproval
    <2> DEFINE n == proc.next
    <2> PICK saves \in BOOLEAN, published \in BOOLEAN :
            /\ rows' = IF saves THEN Added(n, "approval", "active") ELSE rows
            /\ proc' = [proc EXCEPT !.next = n + 1,
                                    !.held[n] = IF Holds(published) THEN "held" ELSE "none",
                                    !.unresolved = @ \cup {n}]
      BY <1>2 DEF RaiseApproval
    <2>1. n \in Request
      BY <1>2 DEF RaiseApproval
    <2>2. rows' \in [Request -> Row]
      BY <2>1, AddedType DEF TypeOK, Kind, State
    <2>3. n + 1 \in 1 .. MaxRequests + 1 /\ proc \in Process
      BY <2>1, RequestType DEF Request, TypeOK
    <2> HIDE DEF n
    <2>4. proc' \in Process
      BY <2>1, <2>3 DEF Process
    <2> QED BY <1>2, <2>2, <2>4, SilentType DEF RaiseApproval, TypeOK
  <1>3. CASE WriterExits
    BY <1>3, StoppedType, OrphanedType, DismissedType, SilentType DEF WriterExits, TypeOK, Closed
  <1>4. CASE WriterStarts
    BY <1>4, EnsureType, SilentType DEF WriterStarts, TypeOK
  <1>5. ASSUME NEW r \in Request, ResponseSettles(r) PROVE TypeOK'
    BY <1>5, SilentType DEF ResponseSettles, TypeOK, Process
  <1>6. ASSUME NEW r \in Request, RequestCleared(r) PROVE TypeOK'
    <2>1. rows' \in [Request -> Row]
      BY <1>6 DEF RequestCleared, TypeOK, Row, Closed
    <2>2. proc' \in Process
      BY <1>6 DEF RequestCleared, TypeOK, Process
    <2> QED BY <1>6, <2>1, <2>2, SilentType DEF RequestCleared, TypeOK
  <1>7. ASSUME NEW r \in Request, Deadline(r) PROVE TypeOK'
    BY <1>7, StoppedType, OrphanedType, SilentType DEF Deadline, TypeOK
  <1> QED BY <1>1, <1>2, <1>3, <1>4, <1>5, <1>6, <1>7 DEF AppServer

LEMMA HumanType ==
    ASSUME TypeOK, Human
    PROVE  TypeOK'
  <1>1. CASE HumanTurn
    BY <1>1, EnsureType, DismissedType, SilentType DEF HumanTurn, TypeOK, Closed
  <1>2. CASE Release
    BY <1>2, StoppedType, OrphanedType, DismissedType, SilentType DEF Release, TypeOK, Closed
  <1>3. ASSUME NEW r \in Request, Respond(r) PROVE TypeOK'
    <2>1. rows' \in [Request -> Row]
      BY <1>3 DEF Respond, TypeOK, Row, Closed
    <2>2. proc' \in Process
      BY <1>3 DEF Respond, TypeOK, Process
    <2> QED BY <1>3, <2>1, <2>2, SilentType DEF Respond, TypeOK
  <1> QED BY <1>1, <1>2, <1>3 DEF Human

LEMMA OperationType ==
    ASSUME TypeOK, NEW r \in Request, NEW k \in Key, Operation(r, k)
    PROVE  TypeOK'
  <1>0. rows[r] \in Row /\ Begun(rows[r], k) \in Row
    BY BegunType DEF TypeOK
  <1>1. CASE Replay(r, k)
    BY <1>1, SaysType DEF Replay, TypeOK
  <1>2. CASE Stale(r, k)
    BY <1>2, SaysType DEF Stale, TypeOK
  <1>3. CASE Refuse(r, k)
    <2>1. PICK state \in State : rows' = [rows EXCEPT ![r].key = k, ![r].state = state]
      BY <1>0, <1>3 DEF Refuse, State, Row
    <2>2. rows' \in [Request -> Row]
      BY <2>1, KeyedType
    <2> QED BY <1>3, <2>2, SaysType DEF Refuse, TypeOK
  <1>4. CASE Decide(r, k)
    BY <1>0, <1>4, SettleAnsweredType DEF Decide, TypeOK
  <1>5. CASE Guide(r, k)
    <2>1. rows' \in [Request -> Row]
      BY <1>0, <1>5 DEF Guide, TypeOK
    <2>2. ops' \subseteq Op
      BY <1>5 DEF Guide, TypeOK, Op
    <2> QED BY <1>5, <2>1, <2>2, SilentType DEF Guide, TypeOK
  <1>6. CASE Deliver(r, k)
    <2>1. CASE ~proc.up
      <3>1. rows' = [rows EXCEPT ![r].key = k, ![r].state = "active"]
            /\ Says(r, k, "unavailable") /\ UNCHANGED <<proc, saved, history>>
        BY <1>6, <2>1 DEF Deliver
      <3>2. rows' \in [Request -> Row]
        BY <3>1, KeyedType DEF State
      <3> QED BY <1>6, <3>1, <3>2, SaysType DEF Deliver, TypeOK
    <2>2. CASE proc.up /\ proc.held[r] = "held"
      <3>1. /\ proc' = [proc EXCEPT !.held[r] = "settling"]
            /\ SettleAnswered(r, k, Begun(rows[r], k))
        BY <1>6, <2>2 DEF Deliver
      <3>2. proc' \in Process
        BY <3>1 DEF TypeOK, Process
      <3> QED BY <1>0, <1>6, <3>1, <3>2, SettleAnsweredType DEF Deliver, TypeOK
    <2>3. CASE proc.up /\ proc.held[r] # "held"
      <3>1. /\ rows' = [rows EXCEPT ![r] = SettledRow(Begun(rows[r], k), k, "failed")]
            /\ Says(r, k, "cleared") /\ UNCHANGED <<proc, saved, history>>
        BY <1>6, <2>3 DEF Deliver
      <3>2. rows' \in [Request -> Row]
        BY <1>0, <3>1, SettledType DEF TypeOK
      <3> QED BY <1>6, <3>1, <3>2, SaysType DEF Deliver, TypeOK
    <2>4. proc.up \in BOOLEAN
      BY DEF TypeOK, Process
    <2> QED BY <2>1, <2>2, <2>3, <2>4
  <1> QED BY <1>1, <1>2, <1>3, <1>4, <1>5, <1>6 DEF Operation

LEMMA GuidanceType ==
    ASSUME TypeOK, Guidance
    PROVE  TypeOK'
  <1> PICK op \in ops : GuidanceSent(op) \/ GuidanceAccepted(op) \/ GuidanceFails(op)
    BY DEF Guidance
  <1>0. op \in Op /\ op.req \in Request /\ op.key \in Key /\ rows[op.req] \in Row
    BY DEF TypeOK, Op
  <1>1. CASE GuidanceSent(op)
    <2>1. ops' \subseteq Op
      BY <1>0, <1>1 DEF GuidanceSent, TypeOK, Op
    <2> QED BY <1>1, <2>1, EnsureType, SilentType DEF GuidanceSent, TypeOK
  <1>2. CASE GuidanceAccepted(op)
    BY <1>0, <1>2, SettleAnsweredType DEF GuidanceAccepted, TypeOK
  <1>3. CASE GuidanceFails(op)
    <2>1. rows' \in [Request -> Row]
      BY <1>0, <1>3, RetriedType DEF GuidanceFails, TypeOK, State
    <2> QED BY <1>0, <1>3, <2>1, SaysType DEF GuidanceFails, TypeOK
  <1> QED BY <1>1, <1>2, <1>3

LEMMA DownType ==
    ASSUME TypeOK, Down
    PROVE  /\ alive' \in BOOLEAN /\ left' \in 0 .. MaxCrashes /\ proc' \in Process
           /\ armed' \subseteq Request /\ ops' \subseteq Op /\ reply' \in Reply
  <1>1. left \in 0 .. MaxCrashes /\ left > 0 /\ left' = left - 1
    BY DEF Down, TypeOK
  <1>2. left' \in 0 .. MaxCrashes
    BY <1>1, RequestType
  <1>3. alive' \in BOOLEAN /\ armed' \subseteq Request /\ ops' \subseteq Op
    BY DEF Down
  <1>4. proc' \in Process /\ reply' \in Reply
    BY StoppedType, SilentType DEF Down
  <1> QED BY <1>2, <1>3, <1>4

LEMMA LossesType ==
    ASSUME TypeOK, Losses
    PROVE  TypeOK'
  <1>1. CASE Crash
    BY <1>1, DownType DEF Crash, TypeOK
  <1>2. CASE Shutdown
    <2>1. rows' \in [Request -> Row]
      BY <1>2 DEF Shutdown, TypeOK, Row, Closed
    <2> QED BY <1>2, <2>1, DownType DEF Shutdown, TypeOK
  <1>3. CASE Restart
    BY <1>3, SilentType DEF Restart, TypeOK
  <1>4. ASSUME NEW r \in Request, NEW k \in Key, TornSettlement(r, k) PROVE TypeOK'
    <2>1. rows' \in [Request -> Row]
      BY <1>4, BegunType, SettledType DEF TornSettlement, TypeOK
    <2>2. saved' \subseteq Request \X Key /\ history' \in History
      BY <1>4 DEF TornSettlement, TypeOK, History
    <2> QED BY <1>4, <2>1, <2>2, DownType DEF TornSettlement, TypeOK
  <1> QED BY <1>1, <1>2, <1>3, <1>4 DEF Losses

LEMMA TypeStep == TypeOK /\ [Next]_vars => TypeOK'
  <1> SUFFICES ASSUME TypeOK, [Next]_vars PROVE TypeOK'
    OBVIOUS
  <1>1. CASE UNCHANGED vars
    BY <1>1 DEF vars, TypeOK
  <1> QED BY <1>1, AppServerType, HumanType, OperationType, GuidanceType, LossesType DEF Next

LEMMA TypeInit == Init => TypeOK
  BY RequestType DEF Init, TypeOK, Row, Process, Op, Reply, History, Absent, NoReply, State

(* TypeOK: every variable of the model keeps its type, for all bounds. *)
THEOREM HeldTypes == Spec => []TypeOK
  BY TypeInit, TypeStep, PTL DEF Spec
(* ------------------ steps that answer no question ----------------------- *)
\* an attention row is at most lost, and a new one is acknowledged and open
Quiet(r) ==
    IF rows[r].kind = "attention"
    THEN /\ rows'[r].kind = "attention" /\ rows'[r].key = rows[r].key
         /\ rows'[r].state = rows[r].state
         /\ \/ rows'[r].outcome = rows[r].outcome
            \/ rows[r].outcome = "open" /\ rows'[r].outcome \in {"failed", "dismissed"}
    ELSE rows'[r].kind = "attention" =>
             rows'[r].outcome = "open" /\ rows'[r].state = "acknowledged"

LEMMA DismissedQuiet ==
    ASSUME TypeOK, NEW outcome \in {"failed", "dismissed"}, rows' = Dismissed(rows, outcome)
    PROVE  \A r \in Request : Quiet(r)
  <1> TAKE r \in Request
  <1>1. rows[r] \in Row
    BY DEF TypeOK
  <1>2. rows'[r] = IF rows[r].outcome = "open" /\ ~Acknowledged(rows[r])
                   THEN [rows[r] EXCEPT !.outcome = outcome] ELSE rows[r]
    BY DEF Dismissed
  <1> QED BY <1>1, <1>2 DEF Quiet, Row

LEMMA AddedQuiet ==
    ASSUME TypeOK, NEW n \in Request,
           \/ rows' \in {rows, Added(n, "approval", "active")}
           \/ rows' \in {rows, Added(n, "attention", "acknowledged")}
    PROVE  \A r \in Request : Quiet(r)
  BY DEF Quiet, Added, TypeOK

LEMMA SameQuiet == UNCHANGED rows => \A r \in Request : Quiet(r)
  BY DEF Quiet

LEMMA AppServerQuiet ==
    ASSUME TypeOK, AppServer
    PROVE  (\A r \in Request : Quiet(r)) /\ UNCHANGED <<saved, left, history>>
           /\ ops' \in {ops, Orphaned(ops)}
  <1>1. CASE RaiseAttention
    <2>1. /\ proc.next \in Request /\ rows' \in {rows, Added(proc.next, "attention", "acknowledged")}
          /\ UNCHANGED <<ops, saved, left, history>>
      BY <1>1 DEF RaiseAttention
    <2>2. \A r \in Request : Quiet(r)
      BY <2>1, AddedQuiet
    <2> QED BY <2>1, <2>2
  <1>2. CASE RaiseApproval
    <2>1. /\ proc.next \in Request /\ rows' \in {rows, Added(proc.next, "approval", "active")}
          /\ UNCHANGED <<ops, saved, left, history>>
      BY <1>2 DEF RaiseApproval
    <2>2. \A r \in Request : Quiet(r)
      BY <2>1, AddedQuiet
    <2> QED BY <2>1, <2>2
  <1>3. CASE WriterExits
    BY <1>3, DismissedQuiet DEF WriterExits
  <1>4. CASE WriterStarts
    BY <1>4, SameQuiet DEF WriterStarts
  <1>5. ASSUME NEW r \in Request, ResponseSettles(r)
        PROVE  (\A q \in Request : Quiet(q)) /\ UNCHANGED <<saved, left, history, ops>>
    BY <1>5, SameQuiet DEF ResponseSettles
  <1>6. ASSUME NEW r \in Request, RequestCleared(r)
        PROVE  (\A q \in Request : Quiet(q)) /\ UNCHANGED <<saved, left, history, ops>>
    BY <1>6 DEF RequestCleared, Quiet, TypeOK, Row, IsOpen
  <1>7. ASSUME NEW r \in Request, Deadline(r)
        PROVE  /\ \A q \in Request : Quiet(q)
               /\ UNCHANGED <<saved, left, history>> /\ ops' \in {ops, Orphaned(ops)}
    BY <1>7, SameQuiet DEF Deadline
  <1> QED BY <1>1, <1>2, <1>3, <1>4, <1>5, <1>6, <1>7 DEF AppServer

LEMMA HumanQuiet ==
    ASSUME TypeOK, Human
    PROVE  (\A r \in Request : Quiet(r)) /\ UNCHANGED <<saved, left, history>>
           /\ ops' \in {ops, Orphaned(ops)}
  <1>1. CASE HumanTurn
    BY <1>1, DismissedQuiet DEF HumanTurn
  <1>2. CASE Release
    BY <1>2, DismissedQuiet DEF Release
  <1>3. ASSUME NEW r \in Request, Respond(r)
        PROVE  (\A q \in Request : Quiet(q)) /\ UNCHANGED <<saved, left, history, ops>>
    <2>1. rows[r].kind = "approval" /\ UNCHANGED <<saved, left, history, ops>>
      BY <1>3 DEF Respond
    <2>2. \A q \in Request : q # r => rows'[q] = rows[q]
      BY <1>3 DEF Respond, TypeOK
    <2>3. rows'[r].kind = "approval"
      BY <1>3, <2>1 DEF Respond, TypeOK, Row
    <2> QED BY <2>1, <2>2, <2>3 DEF Quiet
  <1> QED BY <1>1, <1>2, <1>3 DEF Human

(* ------------------------------ CarriedOut ------------------------------ *)
LEMMA CarriedKept ==
    ASSUME CarriedOut, UNCHANGED <<saved, history>>, saved \subseteq Request \X Key,
           \A r \in Request :
              /\ rows'[r].kind = "attention" /\ rows'[r].outcome = "answered" <=> Answered(r)
              /\ Answered(r) => rows'[r].key = rows[r].key
    PROVE  CarriedOut'
  <1>1. \A r \in Request : Answered(r)' <=> Answered(r)
    BY DEF Answered
  <1>2. \A s \in saved : s[1] \in Request
    OBVIOUS
  <1> QED BY <1>1, <1>2 DEF CarriedOut

LEMMA QuietCarried ==
    ASSUME TypeOK, CarriedOut, \A r \in Request : Quiet(r), UNCHANGED <<saved, history>>
    PROVE  CarriedOut'
  <1>1. \A r \in Request :
           /\ rows'[r].kind = "attention" /\ rows'[r].outcome = "answered" <=> Answered(r)
           /\ Answered(r) => rows'[r].key = rows[r].key
    BY DEF Quiet, Answered
  <1> QED BY <1>1, CarriedKept DEF TypeOK

(* a settlement answers the question, or finds it gone and does nothing      *)
LEMMA SettleCarried ==
    ASSUME TypeOK, CarriedOut, NEW r \in Request, NEW k \in Key, NEW row \in Row,
           rows[r].kind = "attention", row.kind = "attention", row.key = k,
           row.outcome = rows[r].outcome, Answered(r) => rows[r].key = k,
           SettleAnswered(r, k, row)
    PROVE  CarriedOut'
  <1> DEFINE settled == SettledRow(row, k, "answered")
  <1>1. rows' = [rows EXCEPT ![r] = settled]
    BY DEF SettleAnswered
  <1>2. CASE settled # row
    <2>1. /\ row.outcome = "open" /\ settled.outcome = "answered"
          /\ settled.kind = "attention" /\ settled.key = k
      BY <1>2 DEF SettledRow, Row
    <2>2. /\ saved' = saved \cup {<<r, k>>}
          /\ history' = [history EXCEPT !.done[r] = @ + 1]
      BY <1>2 DEF SettleAnswered
    <2>3. ~Answered(r) /\ history.done[r] = 0 /\ r \notin history.torn
      <3>1. ~Answered(r)
        BY <2>1 DEF Answered
      <3>2. history.done[r] \in Nat
        BY DEF TypeOK, History
      <3> QED BY <3>1, <3>2 DEF CarriedOut
    <2>4. \A q \in Request : rows'[q] = IF q = r THEN settled ELSE rows[q]
      BY <1>1 DEF TypeOK
    <2>5. \A q \in Request : history'.done[q] = IF q = r THEN 1 ELSE history.done[q]
      BY <2>2, <2>3 DEF TypeOK, History
    <2>6. history'.torn = history.torn
      BY <2>2 DEF TypeOK, History
    <2> HIDE DEF settled
    <2>7. \A q \in Request : Answered(q)' <=> (q = r \/ Answered(q))
      BY <2>1, <2>4 DEF Answered
    <2>8. \A q \in Request :
             /\ history'.done[q] <= 1
             /\ history'.done[q] = 1 => q \notin history'.torn
             /\ (history'.done[q] = 1 \/ q \in history'.torn) <=> Answered(q)'
      BY <2>3, <2>5, <2>6, <2>7 DEF CarriedOut
    <2>9. \A s \in saved' : Answered(s[1])' /\ rows'[s[1]].key = s[2]
      <3> SUFFICES ASSUME NEW s \in saved' PROVE Answered(s[1])' /\ rows'[s[1]].key = s[2]
        OBVIOUS
      <3>1. CASE s = <<r, k>>
        BY <3>1, <2>1, <2>4, <2>7
      <3>2. CASE s \in saved
        <4>1. s[1] \in Request /\ Answered(s[1]) /\ rows[s[1]].key = s[2]
          BY <3>2 DEF TypeOK, CarriedOut
        <4>2. s[1] # r
          BY <4>1, <2>3
        <4> QED BY <4>1, <4>2, <2>4, <2>7
      <3> QED BY <2>2, <3>1, <3>2
    <2> QED BY <2>8, <2>9 DEF CarriedOut
  <1>3. CASE settled = row
    <2>1. UNCHANGED <<saved, history>>
      BY <1>3 DEF SettleAnswered
    <2>2. \A q \in Request : rows'[q] = IF q = r THEN row ELSE rows[q]
      BY <1>1, <1>3 DEF TypeOK
    <2>3. \A q \in Request :
             /\ rows'[q].kind = "attention" /\ rows'[q].outcome = "answered" <=> Answered(q)
             /\ Answered(q) => rows'[q].key = rows[q].key
      BY <2>2 DEF Answered
    <2> QED BY <2>1, <2>3, CarriedKept DEF TypeOK
  <1> QED BY <1>2, <1>3
LEMMA OpensFacts ==
    ASSUME TypeOK, NEW r \in Request, NEW k \in Key, Opens(r, k)
    PROVE  /\ rows[r].kind = "attention" /\ rows[r].outcome = "open" /\ rows[r] \in Row
           /\ Claims(r, k) /\ ~InFlight(r, k) /\ ~Answered(r)
           /\ Begun(rows[r], k) \in Row /\ Begun(rows[r], k).kind = "attention"
           /\ Begun(rows[r], k).key = k /\ Begun(rows[r], k).outcome = "open"
           /\ Begun(rows[r], k).state = "delivering"
  <1>1. rows[r] \in Row
    BY DEF TypeOK
  <1>2. rows[r].kind = "attention" /\ rows[r].outcome = "open" /\ Claims(r, k) /\ ~InFlight(r, k)
    BY DEF Opens, OpenAttention, IsOpen
  <1> QED BY <1>1, <1>2, BegunType DEF Begun, Row, Answered

\* of the row of an open question, what a step without an answer may change
Unanswered(r) == /\ rows[r].kind = "attention" /\ rows[r].outcome = "open"
                 /\ rows' \in [Request -> Row] /\ rows'[r].outcome # "answered"
                 /\ \A q \in Request : q # r => rows'[q] = rows[q]

LEMMA UnansweredCarried ==
    ASSUME TypeOK, CarriedOut, NEW r \in Request, Unanswered(r), UNCHANGED <<saved, history>>
    PROVE  CarriedOut'
  <1>1. \A q \in Request :
           /\ rows'[q].kind = "attention" /\ rows'[q].outcome = "answered" <=> Answered(q)
           /\ Answered(q) => rows'[q].key = rows[q].key
    BY DEF Unanswered, Answered
  <1> QED BY <1>1, CarriedKept DEF TypeOK

LEMMA RefuseRow ==
    ASSUME TypeOK, NEW r \in Request, NEW k \in Key, Refuse(r, k)
    PROVE  /\ Unanswered(r) /\ rows'[r].kind = "attention" /\ rows'[r].key = k
           /\ rows'[r].outcome = "open"
           /\ rows'[r].state = "delivering" => rows[r].state = "delivering"
  <1>1. Opens(r, k) /\ rows[r] \in Row
    BY DEF Refuse, TypeOK
  <1>2. PICK state \in State : /\ rows' = [rows EXCEPT ![r].key = k, ![r].state = state]
                               /\ state = "delivering" => rows[r].state = "delivering"
    BY <1>1 DEF Refuse, State, Row
  <1>3. /\ rows'[r] = [rows[r] EXCEPT !.key = k, !.state = state]
        /\ \A q \in Request : q # r => rows'[q] = rows[q]
    BY <1>2 DEF TypeOK
  <1>4. /\ rows'[r].kind = rows[r].kind /\ rows'[r].outcome = rows[r].outcome
        /\ rows'[r].key = k /\ rows'[r].state = state /\ rows'[r] \in Row
    BY <1>1, <1>3 DEF Row
  <1>5. rows' \in [Request -> Row]
    BY <1>2, <1>3, <1>4 DEF TypeOK
  <1> QED BY <1>1, <1>2, <1>3, <1>4, <1>5, OpensFacts DEF Unanswered

LEMMA GuideRow ==
    ASSUME TypeOK, NEW r \in Request, NEW k \in Key, Guide(r, k)
    PROVE  /\ Unanswered(r) /\ rows'[r].kind = "attention" /\ rows'[r].key = k
           /\ rows'[r].outcome = "open" /\ rows'[r].state = "delivering"
  <1>1. Opens(r, k) /\ rows' = [rows EXCEPT ![r] = Begun(rows[r], k)]
    BY DEF Guide
  <1> QED BY <1>1, OpensFacts DEF Unanswered, TypeOK

\* the paths of Deliver that answer nothing
LEMMA DeliverRow ==
    ASSUME TypeOK, NEW r \in Request, NEW k \in Key, Deliver(r, k),
           ~(proc.up /\ proc.held[r] = "held")
    PROVE  /\ Unanswered(r) /\ rows'[r].kind = "attention" /\ rows'[r].key = k
           /\ rows'[r].outcome = "open" => rows'[r].state = "active"
           /\ UNCHANGED <<proc, saved, history>>
  <1>1. Opens(r, k) /\ rows[r] \in Row
    BY DEF Deliver, TypeOK
  <1>2. CASE ~proc.up
    <2>1. /\ rows' = [rows EXCEPT ![r].key = k, ![r].state = "active"]
          /\ UNCHANGED <<proc, saved, history>>
      BY <1>2 DEF Deliver
    <2>2. /\ rows'[r] = [rows[r] EXCEPT !.key = k, !.state = "active"]
          /\ \A q \in Request : q # r => rows'[q] = rows[q]
      BY <2>1 DEF TypeOK
    <2>3. /\ rows'[r].kind = rows[r].kind /\ rows'[r].outcome = rows[r].outcome
          /\ rows'[r].key = k /\ rows'[r].state = "active" /\ rows'[r] \in Row
      BY <1>1, <2>2 DEF Row, State
    <2>4. rows' \in [Request -> Row]
      BY <2>1, <2>2, <2>3 DEF TypeOK
    <2> QED BY <1>1, <2>1, <2>2, <2>3, <2>4, OpensFacts DEF Unanswered
  <1>3. CASE proc.up /\ proc.held[r] # "held"
    <2> DEFINE begun == Begun(rows[r], k)
    <2>1. /\ rows' = [rows EXCEPT ![r] = SettledRow(begun, k, "failed")]
          /\ UNCHANGED <<proc, saved, history>>
      BY <1>3 DEF Deliver
    <2>2. /\ begun \in Row /\ begun.kind = "attention" /\ begun.key = k
          /\ begun.outcome = "open" /\ begun.state = "delivering"
      BY <1>1, OpensFacts
    <2> HIDE DEF begun
    <2>3. /\ SettledRow(begun, k, "failed") \in Row
          /\ SettledRow(begun, k, "failed").kind = "attention"
          /\ SettledRow(begun, k, "failed").key = k
          /\ SettledRow(begun, k, "failed").outcome = "failed"
      BY <2>2 DEF SettledRow, Row, State, Closed
    <2>4. /\ rows'[r] = SettledRow(begun, k, "failed")
          /\ \A q \in Request : q # r => rows'[q] = rows[q]
      BY <2>1 DEF TypeOK
    <2>5. rows' \in [Request -> Row]
      BY <2>1, <2>3 DEF TypeOK
    <2> QED BY <1>1, <2>1, <2>3, <2>4, <2>5, OpensFacts DEF Unanswered
  <1> QED BY <1>2, <1>3

LEMMA FailsRow ==
    ASSUME TypeOK, OneDelivery, NEW op \in ops, GuidanceFails(op)
    PROVE  /\ rows' = [rows EXCEPT ![op.req] = Retried(rows[op.req], op.key, "acknowledged")]
           /\ op.req \in Request /\ op.key \in Key /\ rows[op.req] \in Row
           /\ rows'[op.req].kind = "attention" /\ rows'[op.req].key = op.key
           /\ rows'[op.req].outcome = rows[op.req].outcome
           /\ rows'[op.req].outcome = "open" => rows'[op.req].state = "acknowledged"
           /\ \A q \in Request : q # op.req => rows'[q] = rows[q]
  <1>1. op.req \in Request /\ op.key \in Key /\ rows[op.req] \in Row
    BY DEF TypeOK, Op
  <1>2. rows' = [rows EXCEPT ![op.req] = Retried(rows[op.req], op.key, "acknowledged")]
    BY DEF GuidanceFails
  <1>3. rows'[op.req] = Retried(rows[op.req], op.key, "acknowledged")
        /\ \A q \in Request : q # op.req => rows'[q] = rows[q]
    BY <1>1, <1>2 DEF TypeOK
  <1>4. /\ rows[op.req].kind = "attention" /\ rows[op.req].key = op.key
        /\ rows[op.req].outcome = "open" => rows[op.req].state = "delivering"
    BY <1>1 DEF OneDelivery, OpenAttention, IsOpen
  <1> QED BY <1>1, <1>2, <1>3, <1>4 DEF Retried, Row

(* the crash inside a settlement: the answer is recorded, nothing carried out *)
LEMMA TornRow ==
    ASSUME TypeOK, OneDelivery, NEW r \in Request, NEW k \in Key, TornSettlement(r, k)
    PROVE  /\ rows[r].kind = "attention" /\ rows[r].outcome = "open"
           /\ rows'[r].kind = "attention" /\ rows'[r].outcome = "answered"
           /\ rows'[r].key = k
           /\ \A q \in Request : q # r => rows'[q] = rows[q]
  <1>1. rows[r].kind = "attention" /\ rows[r].outcome = "open" /\ rows[r] \in Row
    <2>1. CASE Opens(r, k)
      BY <2>1, OpensFacts
    <2>2. CASE OpenAttention(r)
      BY <2>2 DEF OpenAttention, IsOpen, TypeOK
    <2> QED BY <2>1, <2>2 DEF TornSettlement
  <1> DEFINE begun == Begun(rows[r], k)
  <1>2. /\ begun \in Row /\ begun.kind = "attention" /\ begun.key = k
        /\ begun.outcome = "open" /\ begun.state = "delivering"
    BY <1>1, BegunType DEF Begun, Row
  <1>3. rows' = [rows EXCEPT ![r] = SettledRow(begun, k, "answered")]
    BY DEF TornSettlement
  <1> HIDE DEF begun
  <1>4. /\ SettledRow(begun, k, "answered").kind = "attention"
        /\ SettledRow(begun, k, "answered").key = k
        /\ SettledRow(begun, k, "answered").outcome = "answered"
    BY <1>2 DEF SettledRow, Row
  <1> QED BY <1>1, <1>3, <1>4 DEF TypeOK

LEMMA TornCarried ==
    ASSUME TypeOK, CarriedOut, OneDelivery, NEW r \in Request, NEW k \in Key, TornSettlement(r, k)
    PROVE  CarriedOut'
  <1>1. \A q \in Request : Answered(q)' <=> (q = r \/ Answered(q))
    BY TornRow DEF Answered
  <1>2. ~Answered(r) /\ history.done[r] # 1
    BY TornRow DEF Answered, CarriedOut
  <1>3. history'.done = history.done /\ history'.torn = history.torn \cup {r}
    BY DEF TornSettlement, TypeOK, History
  <1>4. \A q \in Request :
           /\ history'.done[q] <= 1
           /\ history'.done[q] = 1 => q \notin history'.torn
           /\ (history'.done[q] = 1 \/ q \in history'.torn) <=> Answered(q)'
    BY <1>1, <1>2, <1>3 DEF CarriedOut
  <1>5. \A s \in saved' : Answered(s[1])' /\ rows'[s[1]].key = s[2]
    <2> SUFFICES ASSUME NEW s \in saved' PROVE Answered(s[1])' /\ rows'[s[1]].key = s[2]
      OBVIOUS
    <2>1. CASE s = <<r, k>>
      BY <2>1, <1>1, TornRow
    <2>2. CASE s \in saved
      <3>1. s[1] \in Request /\ Answered(s[1]) /\ rows[s[1]].key = s[2]
        BY <2>2 DEF TypeOK, CarriedOut
      <3>2. s[1] # r
        BY <3>1, <1>2
      <3> QED BY <3>1, <3>2, <1>1, TornRow
    <2>3. s \in saved \/ s = <<r, k>>
      BY DEF TornSettlement
    <2> QED BY <2>1, <2>2, <2>3
  <1> QED BY <1>4, <1>5 DEF CarriedOut
LEMMA LossesQuiet ==
    ASSUME TypeOK, Crash \/ Shutdown \/ Restart
    PROVE  (\A r \in Request : Quiet(r)) /\ UNCHANGED <<saved, history>>
  <1>1. CASE Crash
    BY <1>1, SameQuiet DEF Crash
  <1>2. CASE Shutdown
    BY <1>2 DEF Shutdown, Quiet, TypeOK
  <1>3. CASE Restart
    BY <1>3, SameQuiet DEF Restart
  <1> QED BY <1>1, <1>2, <1>3

LEMMA CarriedStep ==
    ASSUME TypeOK, CarriedOut, OneDelivery, [Next]_vars
    PROVE  CarriedOut'
  <1>1. CASE UNCHANGED vars
    BY <1>1 DEF vars, CarriedOut, Answered
  <1>2. CASE AppServer
    BY <1>2, AppServerQuiet, QuietCarried
  <1>3. CASE Human
    BY <1>3, HumanQuiet, QuietCarried
  <1>4. ASSUME NEW r \in Request, NEW k \in Key, Operation(r, k) PROVE CarriedOut'
    <2>1. CASE Replay(r, k)
      BY <2>1, SameQuiet, QuietCarried DEF Replay
    <2>2. CASE Stale(r, k)
      BY <2>2, SameQuiet, QuietCarried DEF Stale
    <2>3. CASE Refuse(r, k)
      BY <2>3, RefuseRow, UnansweredCarried DEF Refuse
    <2>4. CASE Decide(r, k)
      BY <2>4, OpensFacts, SettleCarried DEF Decide
    <2>5. CASE Guide(r, k)
      BY <2>5, GuideRow, UnansweredCarried DEF Guide
    <2>6. CASE Deliver(r, k)
      <3>1. CASE proc.up /\ proc.held[r] = "held"
        <4>1. Opens(r, k) /\ SettleAnswered(r, k, Begun(rows[r], k))
          BY <2>6, <3>1 DEF Deliver
        <4> QED BY <4>1, OpensFacts, SettleCarried
      <3>2. CASE ~(proc.up /\ proc.held[r] = "held")
        BY <2>6, <3>2, DeliverRow, UnansweredCarried
      <3> QED BY <3>1, <3>2
    <2> QED BY <1>4, <2>1, <2>2, <2>3, <2>4, <2>5, <2>6 DEF Operation
  <1>5. CASE Guidance
    <2> PICK op \in ops : GuidanceSent(op) \/ GuidanceAccepted(op) \/ GuidanceFails(op)
      BY <1>5 DEF Guidance
    <2>1. /\ op.req \in Request /\ op.key \in Key /\ rows[op.req] \in Row
          /\ rows[op.req].kind = "attention" /\ rows[op.req].key = op.key
      BY DEF TypeOK, Op, OneDelivery
    <2>2. CASE GuidanceSent(op)
      BY <2>2, SameQuiet, QuietCarried DEF GuidanceSent
    <2>3. CASE GuidanceAccepted(op)
      <3>1. SettleAnswered(op.req, op.key, rows[op.req])
        BY <2>3 DEF GuidanceAccepted
      <3> QED BY <2>1, <3>1, SettleCarried
    <2>4. CASE GuidanceFails(op)
      <3>1. \A q \in Request :
               /\ rows'[q].kind = "attention" /\ rows'[q].outcome = "answered" <=> Answered(q)
               /\ Answered(q) => rows'[q].key = rows[q].key
        BY <2>1, <2>4, FailsRow DEF Answered
      <3>2. UNCHANGED <<saved, history>>
        BY <2>4 DEF GuidanceFails
      <3> QED BY <3>1, <3>2, CarriedKept DEF TypeOK
    <2> QED BY <2>2, <2>3, <2>4
  <1>6. CASE Losses
    <2>1. CASE Crash \/ Shutdown \/ Restart
      BY <2>1, LossesQuiet, QuietCarried
    <2>2. ASSUME NEW r \in Request, NEW k \in Key, TornSettlement(r, k) PROVE CarriedOut'
      BY <2>2, TornCarried
    <2> QED BY <1>6, <2>1, <2>2 DEF Losses
  <1> QED BY <1>1, <1>2, <1>3, <1>4, <1>5, <1>6 DEF Next

(* ------------------------------ OneDelivery ----------------------------- *)
LEMMA OrphanedFacts ==
    ASSUME TypeOK, ops' \in {ops, Orphaned(ops)}
    PROVE  /\ \A o \in ops' : \E p \in ops : o.req = p.req /\ o.key = p.key
           /\ \A p \in ops : \E o \in ops' : o.req = p.req
           /\ (\A p, q \in ops : p.req = q.req => p = q) =>
                 \A o, q \in ops' : o.req = q.req => o = q
  <1>1. CASE ops' = ops
    BY <1>1
  <1>2. CASE ops' = Orphaned(ops)
    <2> DEFINE f(op) == [op EXCEPT !.stage = IF @ = "sent" THEN "lost" ELSE @]
    <2>1. ops' = {f(op) : op \in ops}
      BY <1>2 DEF Orphaned
    <2>2. \A op \in ops : f(op).req = op.req /\ f(op).key = op.key
      BY DEF TypeOK, Op
    <2> HIDE DEF f
    <2> QED BY <2>1, <2>2
  <1> QED BY <1>1, <1>2

LEMMA QuietDelivery ==
    ASSUME TypeOK, OneDelivery, \A r \in Request : Quiet(r),
           ops' \in {ops, Orphaned(ops)}, left' = left
    PROVE  OneDelivery'
  <1>1. \A o \in ops' : o.req \in Request
    BY OrphanedFacts DEF TypeOK, Op
  <1>2. \A o, q \in ops' : o.req = q.req => o = q
    BY OrphanedFacts DEF OneDelivery
  <1>3. \A o \in ops' : rows'[o.req].kind = "attention" /\ rows'[o.req].key = o.key
    BY <1>1, OrphanedFacts DEF OneDelivery, Quiet
  <1>4. ASSUME NEW r \in Request, rows'[r].kind = "attention", rows'[r].outcome = "open"
        PROVE  /\ (\E o \in ops' : o.req = r) => rows'[r].state = "delivering"
               /\ rows'[r].state = "delivering" => (\E o \in ops' : o.req = r) \/ left' < MaxCrashes
    <2>1. CASE rows[r].kind = "attention"
      <3>1. rows[r].outcome = "open" /\ rows'[r].state = rows[r].state
        BY <1>4, <2>1 DEF Quiet
      <3> QED BY <2>1, <3>1, OrphanedFacts DEF OneDelivery, OpenAttention, IsOpen
    <2>2. CASE rows[r].kind # "attention"
      <3>1. rows'[r].state = "acknowledged"
        BY <1>4, <2>2 DEF Quiet
      <3>2. \A o \in ops' : o.req # r
        BY <2>2, OrphanedFacts DEF OneDelivery
      <3> QED BY <3>1, <3>2
    <2> QED BY <2>1, <2>2
  <1> QED BY <1>2, <1>3, <1>4 DEF OneDelivery, OpenAttention, IsOpen

LEMMA DownDelivery ==
    ASSUME TypeOK, Down
    PROVE  OneDelivery'
  <1>1. ops' = {} /\ left' < MaxCrashes
    BY RequestType DEF Down, TypeOK
  <1> QED BY <1>1 DEF OneDelivery

(* the key that opens a question has no operation of another one to join     *)
LEMMA OpensAlone ==
    ASSUME TypeOK, OneDelivery, NEW r \in Request, NEW k \in Key, Opens(r, k)
    PROVE  \A op \in ops : op.req # r
  BY NoKeyNotKey DEF Opens, Claims, InFlight, OneDelivery, TypeOK, Op

LEMMA RowDelivery ==
    ASSUME TypeOK, OneDelivery, NEW r \in Request, \A op \in ops : op.req # r,
           UNCHANGED <<ops, left>>,
           \A q \in Request : q # r => rows'[q] = rows[q],
           rows'[r].outcome = "open" /\ rows'[r].state = "delivering" =>
               rows[r].kind = "attention" /\ rows[r].outcome = "open" /\ rows[r].state = "delivering"
    PROVE  OneDelivery'
  <1>1. \A op \in ops' : rows'[op.req].kind = "attention" /\ rows'[op.req].key = op.key
    BY DEF OneDelivery, TypeOK, Op
  <1>2. ASSUME NEW q \in Request, rows'[q].kind = "attention", rows'[q].outcome = "open"
        PROVE  /\ (\E op \in ops' : op.req = q) => rows'[q].state = "delivering"
               /\ rows'[q].state = "delivering" => (\E op \in ops' : op.req = q) \/ left' < MaxCrashes
    BY <1>2 DEF OneDelivery, OpenAttention, IsOpen
  <1>3. \A op, other \in ops' : op.req = other.req => op = other
    BY DEF OneDelivery
  <1> QED BY <1>1, <1>2, <1>3 DEF OneDelivery, OpenAttention, IsOpen

LEMMA SettlesRow ==
    ASSUME TypeOK, NEW r \in Request, NEW k \in Key, NEW row \in Row, SettleAnswered(r, k, row),
           row.outcome = "open" => row.key = k /\ row.state = "delivering"
    PROVE  /\ rows'[r].kind = row.kind /\ rows'[r].key = row.key /\ rows'[r].outcome # "open"
           /\ rows'[r].by = row.by
           /\ \A q \in Request : q # r => rows'[q] = rows[q]
  <1> DEFINE settled == SettledRow(row, k, "answered")
  <1>1. rows' = [rows EXCEPT ![r] = settled]
    BY DEF SettleAnswered
  <1>2. settled.kind = row.kind /\ settled.key = row.key /\ settled.outcome # "open"
        /\ settled.by = row.by
    BY DEF SettledRow, Row
  <1> HIDE DEF settled
  <1> QED BY <1>1, <1>2 DEF TypeOK

(* one operation leaves, and its question is not in delivery any more        *)
LEMMA RemovedDelivery ==
    ASSUME TypeOK, OneDelivery, NEW op \in ops, ops' = ops \ {op}, left' = left,
           \A q \in Request : q # op.req => rows'[q] = rows[q],
           rows'[op.req].outcome = "open" => rows'[op.req].state # "delivering"
    PROVE  OneDelivery'
  <1>1. \A o \in ops' : o \in ops /\ o.req # op.req /\ o.req \in Request
    BY DEF OneDelivery, TypeOK, Op
  <1>2. \A o \in ops' : rows'[o.req].kind = "attention" /\ rows'[o.req].key = o.key
    BY <1>1 DEF OneDelivery
  <1>3. ASSUME NEW q \in Request, rows'[q].kind = "attention", rows'[q].outcome = "open"
        PROVE  /\ (\E o \in ops' : o.req = q) => rows'[q].state = "delivering"
               /\ rows'[q].state = "delivering" => (\E o \in ops' : o.req = q) \/ left' < MaxCrashes
    <2>1. CASE q = op.req
      BY <1>1, <1>3, <2>1
    <2>2. CASE q # op.req
      <3>1. rows'[q] = rows[q]
        BY <2>2
      <3>2. (\E o \in ops' : o.req = q) <=> (\E o \in ops : o.req = q)
        BY <2>2
      <3> QED BY <1>3, <3>1, <3>2 DEF OneDelivery, OpenAttention, IsOpen
    <2> QED BY <2>1, <2>2
  <1>4. \A o, other \in ops' : o.req = other.req => o = other
    BY <1>1 DEF OneDelivery
  <1> QED BY <1>2, <1>3, <1>4 DEF OneDelivery, OpenAttention, IsOpen

LEMMA GuideDelivery ==
    ASSUME TypeOK, OneDelivery, NEW r \in Request, NEW k \in Key, Guide(r, k)
    PROVE  OneDelivery'
  <1> DEFINE new == [req |-> r, key |-> k, stage |-> "acquiring"]
  <1>1. ops' = ops \cup {new} /\ left' = left /\ Opens(r, k)
    BY DEF Guide
  <1>2. new.req = r /\ new.key = k
    OBVIOUS
  <1> HIDE DEF new
  <1>3. \A op \in ops : op.req # r /\ op.req \in Request
    BY <1>1, OpensAlone DEF TypeOK, Op
  <1>4. /\ rows'[r].kind = "attention" /\ rows'[r].key = k /\ rows'[r].state = "delivering"
        /\ \A q \in Request : q # r => rows'[q] = rows[q]
    BY GuideRow DEF Unanswered
  <1>5. \A op, other \in ops' : op.req = other.req => op = other
    BY <1>1, <1>2, <1>3 DEF OneDelivery
  <1>6. \A op \in ops' : rows'[op.req].kind = "attention" /\ rows'[op.req].key = op.key
    BY <1>1, <1>2, <1>3, <1>4 DEF OneDelivery
  <1>7. ASSUME NEW q \in Request, rows'[q].kind = "attention", rows'[q].outcome = "open"
        PROVE  /\ (\E op \in ops' : op.req = q) => rows'[q].state = "delivering"
               /\ rows'[q].state = "delivering" => (\E op \in ops' : op.req = q) \/ left' < MaxCrashes
    BY <1>1, <1>2, <1>4, <1>7 DEF OneDelivery, OpenAttention, IsOpen
  <1> QED BY <1>5, <1>6, <1>7 DEF OneDelivery, OpenAttention, IsOpen

LEMMA SentDelivery ==
    ASSUME TypeOK, OneDelivery, NEW op \in ops, GuidanceSent(op)
    PROVE  OneDelivery'
  <1> DEFINE sent == [op EXCEPT !.stage = "sent"]
  <1>1. ops' = (ops \ {op}) \cup {sent} /\ left' = left /\ rows' = rows
    BY DEF GuidanceSent
  <1>2. sent.req = op.req /\ sent.key = op.key
    BY DEF TypeOK, Op
  <1> HIDE DEF sent
  <1>3. \A o, other \in ops' : o.req = other.req => o = other
    BY <1>1, <1>2 DEF OneDelivery
  <1>4. \A o \in ops' : rows'[o.req].kind = "attention" /\ rows'[o.req].key = o.key
    BY <1>1, <1>2 DEF OneDelivery
  <1>5. \A q \in Request : (\E o \in ops' : o.req = q) <=> (\E o \in ops : o.req = q)
    BY <1>1, <1>2
  <1> QED BY <1>1, <1>3, <1>4, <1>5 DEF OneDelivery, OpenAttention, IsOpen

LEMMA DeliveryStep ==
    ASSUME TypeOK, OneDelivery, [Next]_vars
    PROVE  OneDelivery'
  <1>1. CASE UNCHANGED vars
    BY <1>1 DEF vars, OneDelivery, OpenAttention, IsOpen
  <1>2. CASE AppServer
    BY <1>2, AppServerQuiet, QuietDelivery
  <1>3. CASE Human
    BY <1>3, HumanQuiet, QuietDelivery
  <1>4. ASSUME NEW r \in Request, NEW k \in Key, Operation(r, k) PROVE OneDelivery'
    <2>1. CASE Replay(r, k)
      BY <2>1, SameQuiet, QuietDelivery DEF Replay
    <2>2. CASE Stale(r, k)
      BY <2>2, SameQuiet, QuietDelivery DEF Stale
    <2>3. CASE Refuse(r, k)
      <3>1. Opens(r, k) /\ UNCHANGED <<ops, left>>
        BY <2>3 DEF Refuse
      <3>2. rows[r].kind = "attention" /\ rows[r].outcome = "open" /\ \A op \in ops : op.req # r
        BY <3>1, OpensFacts, OpensAlone
      <3>3. /\ \A q \in Request : q # r => rows'[q] = rows[q]
            /\ rows'[r].state = "delivering" => rows[r].state = "delivering"
        BY <2>3, RefuseRow DEF Unanswered
      <3> QED BY <3>1, <3>2, <3>3, RowDelivery
    <2>4. CASE Decide(r, k)
      <3>1. Opens(r, k) /\ UNCHANGED <<ops, left>> /\ SettleAnswered(r, k, Begun(rows[r], k))
        BY <2>4 DEF Decide
      <3>2. rows'[r].outcome # "open" /\ \A q \in Request : q # r => rows'[q] = rows[q]
        BY <3>1, OpensFacts, SettlesRow
      <3> QED BY <3>1, <3>2, OpensAlone, RowDelivery
    <2>5. CASE Guide(r, k)
      BY <2>5, GuideDelivery
    <2>6. CASE Deliver(r, k)
      <3>1. Opens(r, k) /\ UNCHANGED <<ops, left>>
        BY <2>6 DEF Deliver
      <3>2. CASE proc.up /\ proc.held[r] = "held"
        <4>1. SettleAnswered(r, k, Begun(rows[r], k))
          BY <2>6, <3>2 DEF Deliver
        <4>2. rows'[r].outcome # "open" /\ \A q \in Request : q # r => rows'[q] = rows[q]
          BY <3>1, <4>1, OpensFacts, SettlesRow
        <4> QED BY <3>1, <4>2, OpensAlone, RowDelivery
      <3>3. CASE ~(proc.up /\ proc.held[r] = "held")
        <4>1. /\ rows'[r].outcome = "open" => rows'[r].state = "active"
              /\ \A q \in Request : q # r => rows'[q] = rows[q]
          BY <2>6, <3>3, DeliverRow DEF Unanswered
        <4> QED BY <3>1, <4>1, OpensAlone, RowDelivery
      <3> QED BY <3>2, <3>3
    <2> QED BY <1>4, <2>1, <2>2, <2>3, <2>4, <2>5, <2>6 DEF Operation
  <1>5. CASE Guidance
    <2> PICK op \in ops : GuidanceSent(op) \/ GuidanceAccepted(op) \/ GuidanceFails(op)
      BY <1>5 DEF Guidance
    <2>1. /\ op.req \in Request /\ op.key \in Key /\ rows[op.req] \in Row
          /\ rows[op.req].kind = "attention" /\ rows[op.req].key = op.key
          /\ rows[op.req].outcome = "open" => rows[op.req].state = "delivering"
      BY DEF TypeOK, Op, OneDelivery, OpenAttention, IsOpen
    <2>2. CASE GuidanceSent(op)
      BY <2>2, SentDelivery
    <2>3. CASE GuidanceAccepted(op)
      <3>1. /\ SettleAnswered(op.req, op.key, rows[op.req])
            /\ ops' = ops \ {op} /\ left' = left
        BY <2>3 DEF GuidanceAccepted
      <3>2. rows'[op.req].outcome # "open" /\ \A q \in Request : q # op.req => rows'[q] = rows[q]
        BY <2>1, <3>1, SettlesRow
      <3> QED BY <3>1, <3>2, RemovedDelivery
    <2>4. CASE GuidanceFails(op)
      <3>1. ops' = ops \ {op} /\ left' = left
        BY <2>4 DEF GuidanceFails
      <3> QED BY <2>4, <3>1, FailsRow, RemovedDelivery
    <2> QED BY <2>2, <2>3, <2>4
  <1>6. CASE Losses
    <2>1. CASE Crash
      BY <2>1, DownDelivery DEF Crash
    <2>2. CASE Shutdown
      BY <2>2, DownDelivery DEF Shutdown
    <2>3. CASE Restart
      BY <2>3, SameQuiet, QuietDelivery DEF Restart
    <2>4. ASSUME NEW r \in Request, NEW k \in Key, TornSettlement(r, k) PROVE OneDelivery'
      BY <2>4, DownDelivery DEF TornSettlement
    <2> QED BY <1>6, <2>1, <2>2, <2>3, <2>4 DEF Losses
  <1> QED BY <1>1, <1>2, <1>3, <1>4, <1>5, <1>6 DEF Next
(* ------------------- what the process holds, and for whom --------------- *)
\* the step takes no request in, answers a held one only for an open row, and
\* no row becomes open or another's
Lets(r) == /\ proc'.held[r] = "acking" => proc.held[r] = "acking"
           /\ proc'.held[r] = "held" => proc.held[r] = "held" /\ proc'.gen = proc.gen
           /\ proc'.held[r] = "settling" /\ proc.held[r] = "held" => rows[r].outcome = "open"

Shut(r) == rows'[r].outcome = "open" => /\ rows[r].outcome = "open"
                                        /\ rows'[r].kind = rows[r].kind /\ rows'[r].by = rows[r].by

LEMMA ProcessLets ==
    ASSUME TypeOK, proc' = proc \/ proc' = Stopped(proc) \/ EnsureWriter
    PROVE  \A r \in Request : Lets(r)
  <1>0. proc \in Process
    BY DEF TypeOK
  <1>1. CASE proc' = proc
    BY <1>1 DEF Lets
  <1>2. CASE proc' = Stopped(proc)
    <2>1. \A r \in Request : proc'.held[r] = "none"
      BY <1>0, <1>2 DEF Stopped, Process
    <2> QED BY <2>1 DEF Lets
  <1>3. CASE EnsureWriter /\ ~proc.up
    <2>1. proc' = Started(proc)
      BY <1>3 DEF EnsureWriter
    <2>2. \A r \in Request : proc'.held[r] = "none"
      BY <2>1 DEF Started
    <2> QED BY <2>2 DEF Lets
  <1>4. CASE EnsureWriter /\ proc.up
    BY <1>1, <1>4 DEF EnsureWriter
  <1> QED BY <1>1, <1>2, <1>3, <1>4

LEMMA HeldLets ==
    ASSUME TypeOK, NEW r \in Request, NEW v \in {"none", "settling"},
           v = "settling" => rows[r].outcome = "open",
           \/ proc' = [proc EXCEPT !.held[r] = v]
           \/ proc' = [proc EXCEPT !.held[r] = v, !.unresolved = @ \ {r}]
    PROVE  \A q \in Request : Lets(q)
  <1>0. proc \in Process
    BY DEF TypeOK
  <1>1. proc'.gen = proc.gen /\ proc'.held = [proc.held EXCEPT ![r] = v]
    BY <1>0 DEF Process
  <1>2. \A q \in Request : proc'.held[q] = IF q = r THEN v ELSE proc.held[q]
    BY <1>0, <1>1 DEF Process
  <1> QED BY <1>1, <1>2 DEF Lets

LEMMA SameShut == UNCHANGED rows => \A r \in Request : Shut(r)
  BY DEF Shut

LEMMA DismissedShut ==
    ASSUME TypeOK, NEW outcome \in {"failed", "dismissed"}, rows' = Dismissed(rows, outcome)
    PROVE  \A r \in Request : Shut(r)
  <1> TAKE r \in Request
  <1>1. rows[r] \in Row
    BY DEF TypeOK
  <1>2. rows'[r] = IF rows[r].outcome = "open" /\ ~Acknowledged(rows[r])
                   THEN [rows[r] EXCEPT !.outcome = outcome] ELSE rows[r]
    BY DEF Dismissed
  <1> QED BY <1>1, <1>2 DEF Shut, Row

LEMMA OutcomeShut ==
    ASSUME TypeOK, NEW r \in Request, NEW v \in Closed,
           rows' \in {rows, [rows EXCEPT ![r].outcome = v]}
    PROVE  \A q \in Request : Shut(q)
  <1>1. \A q \in Request : q # r => rows'[q] = rows[q]
    BY DEF TypeOK
  <1>2. rows'[r] = rows[r] \/ rows'[r] = [rows[r] EXCEPT !.outcome = v]
    BY DEF TypeOK
  <1>3. rows[r] \in Row
    BY DEF TypeOK
  <1>4. rows'[r] = rows[r] \/ rows'[r].outcome = v
    BY <1>2, <1>3 DEF Row
  <1> QED BY <1>1, <1>4 DEF Shut, Closed

\* a row of an open question: a step on it keeps its kind and the asking process
LEMMA OneShut ==
    ASSUME TypeOK, NEW r \in Request, \A q \in Request : q # r => rows'[q] = rows[q],
           rows'[r].outcome = "open" => rows[r].outcome = "open"
                                        /\ rows'[r].kind = rows[r].kind /\ rows'[r].by = rows[r].by
    PROVE  \A q \in Request : Shut(q)
  BY DEF Shut

LEMMA KeyedRow ==
    ASSUME NEW row \in Row, NEW k, NEW state
    PROVE  /\ [row EXCEPT !.key = k, !.state = state].kind = row.kind
           /\ [row EXCEPT !.key = k, !.state = state].by = row.by
  BY DEF Row

LEMMA KeyedShut ==
    ASSUME TypeOK, NEW r \in Request, NEW k \in Key, NEW state \in State, rows[r].outcome = "open",
           rows' = [rows EXCEPT ![r].key = k, ![r].state = state]
    PROVE  \A q \in Request : Shut(q)
  <1> DEFINE keyed == [rows[r] EXCEPT !.key = k, !.state = state]
  <1>1. rows'[r] = keyed /\ \A q \in Request : q # r => rows'[q] = rows[q]
    BY DEF TypeOK
  <1>2. rows[r] \in Row
    BY DEF TypeOK
  <1>3. keyed.kind = rows[r].kind /\ keyed.by = rows[r].by
    BY <1>2, KeyedRow
  <1> HIDE DEF keyed
  <1> QED BY <1>1, <1>3, OneShut

LEMMA OperationHolds ==
    ASSUME TypeOK, NEW r \in Request, NEW k \in Key, Operation(r, k)
    PROVE  (\A q \in Request : Lets(q) /\ Shut(q)) /\ armed' = armed
  <1>1. CASE Replay(r, k)
    BY <1>1, ProcessLets, SameShut DEF Replay
  <1>2. CASE Stale(r, k)
    BY <1>2, ProcessLets, SameShut DEF Stale
  <1>3. CASE Refuse(r, k)
    <2>1. Opens(r, k) /\ rows[r] \in Row /\ UNCHANGED <<proc, armed>>
      BY <1>3 DEF Refuse, TypeOK
    <2>2. PICK state \in State : rows' = [rows EXCEPT ![r].key = k, ![r].state = state]
      BY <1>3, <2>1 DEF Refuse, State, Row
    <2>3. \A q \in Request : Shut(q)
      BY <2>1, <2>2, OpensFacts, KeyedShut
    <2> QED BY <2>1, <2>3, ProcessLets
  <1>4. CASE Decide(r, k)
    <2>1. /\ Opens(r, k) /\ UNCHANGED <<proc, armed>>
          /\ SettleAnswered(r, k, Begun(rows[r], k))
      BY <1>4 DEF Decide
    <2>2. \A q \in Request : Shut(q)
      BY <2>1, OpensFacts, SettlesRow, OneShut
    <2> QED BY <2>1, <2>2, ProcessLets
  <1>5. CASE Guide(r, k)
    <2>1. Opens(r, k) /\ UNCHANGED <<proc, armed>> /\ rows' = [rows EXCEPT ![r] = Begun(rows[r], k)]
      BY <1>5 DEF Guide
    <2>2. rows' = [rows EXCEPT ![r].key = k, ![r].state = "delivering"]
      BY <2>1 DEF Begun, TypeOK, Row
    <2>3. \A q \in Request : Shut(q)
      BY <2>1, <2>2, OpensFacts, KeyedShut, ZenonT(60) DEF State
    <2> QED BY <2>1, <2>3, ProcessLets
  <1>6. CASE Deliver(r, k)
    <2>1. Opens(r, k) /\ armed' = armed
      BY <1>6 DEF Deliver
    <2>2. CASE ~proc.up
      <3>1. /\ rows' = [rows EXCEPT ![r].key = k, ![r].state = "active"]
            /\ UNCHANGED proc
        BY <1>6, <2>2 DEF Deliver
      <3>2. \A q \in Request : Shut(q)
        BY <2>1, <3>1, OpensFacts, KeyedShut DEF State
      <3> QED BY <2>1, <3>1, <3>2, ProcessLets
    <2>3. CASE proc.up /\ proc.held[r] = "held"
      <3>1. /\ proc' = [proc EXCEPT !.held[r] = "settling"]
            /\ SettleAnswered(r, k, Begun(rows[r], k))
        BY <1>6, <2>3 DEF Deliver
      <3>2. \A q \in Request : Shut(q)
        BY <2>1, <3>1, OpensFacts, SettlesRow, OneShut
      <3> QED BY <2>1, <3>1, <3>2, OpensFacts, HeldLets
    <2>4. CASE proc.up /\ proc.held[r] # "held"
      <3>1. /\ rows' = [rows EXCEPT ![r] = SettledRow(Begun(rows[r], k), k, "failed")]
            /\ UNCHANGED proc
        BY <1>6, <2>4 DEF Deliver
      <3>2. SettledRow(Begun(rows[r], k), k, "failed").outcome = "failed"
        BY <2>1, OpensFacts DEF SettledRow, Row
      <3>3. rows'[r].outcome = "failed" /\ \A q \in Request : q # r => rows'[q] = rows[q]
        BY <3>1, <3>2 DEF TypeOK
      <3>4. \A q \in Request : Shut(q)
        BY <3>3, OneShut
      <3> QED BY <2>1, <3>1, <3>4, ProcessLets
    <2> QED BY <2>2, <2>3, <2>4
  <1> QED BY <1>1, <1>2, <1>3, <1>4, <1>5, <1>6 DEF Operation

LEMMA GuidanceHolds ==
    ASSUME TypeOK, OneDelivery, Guidance
    PROVE  (\A q \in Request : Lets(q) /\ Shut(q)) /\ armed' = armed
  <1> PICK op \in ops : GuidanceSent(op) \/ GuidanceAccepted(op) \/ GuidanceFails(op)
    BY DEF Guidance
  <1>0. /\ op.req \in Request /\ op.key \in Key /\ rows[op.req] \in Row
        /\ rows[op.req].key = op.key /\ rows[op.req].kind = "attention"
        /\ rows[op.req].outcome = "open" => rows[op.req].state = "delivering"
    BY DEF TypeOK, Op, OneDelivery, OpenAttention, IsOpen
  <1>1. CASE GuidanceSent(op)
    BY <1>1, ProcessLets, SameShut DEF GuidanceSent
  <1>2. CASE GuidanceAccepted(op)
    <2>1. SettleAnswered(op.req, op.key, rows[op.req]) /\ UNCHANGED <<proc, armed>>
      BY <1>2 DEF GuidanceAccepted
    <2>2. \A q \in Request : Shut(q)
      BY <1>0, <2>1, SettlesRow, OneShut
    <2> QED BY <2>1, <2>2, ProcessLets
  <1>3. CASE GuidanceFails(op)
    <2>1. UNCHANGED <<proc, armed>> /\ rows' = [rows EXCEPT ![op.req] = Retried(rows[op.req], op.key, "acknowledged")]
      BY <1>3 DEF GuidanceFails
    <2>2. /\ rows'[op.req] = Retried(rows[op.req], op.key, "acknowledged")
          /\ \A q \in Request : q # op.req => rows'[q] = rows[q]
      BY <1>0, <2>1 DEF TypeOK
    <2>3. /\ rows'[op.req].kind = rows[op.req].kind /\ rows'[op.req].by = rows[op.req].by
          /\ rows'[op.req].outcome = rows[op.req].outcome
      BY <1>0, <2>2 DEF Retried, Row
    <2>4. \A q \in Request : Shut(q)
      BY <1>0, <2>2, <2>3, OneShut
    <2> QED BY <2>1, <2>4, ProcessLets
  <1> QED BY <1>1, <1>2, <1>3

LEMMA HumanHolds ==
    ASSUME TypeOK, Human
    PROVE  (\A q \in Request : Lets(q) /\ Shut(q)) /\ armed' = armed
  <1>1. CASE HumanTurn
    BY <1>1, DismissedShut, ProcessLets DEF HumanTurn
  <1>2. CASE Release
    BY <1>2, DismissedShut, ProcessLets DEF Release
  <1>3. ASSUME NEW r \in Request, Respond(r)
        PROVE  (\A q \in Request : Lets(q) /\ Shut(q)) /\ armed' = armed
    <2>1. /\ armed' = armed /\ rows[r].outcome = "open"
          /\ \/ rows' = [rows EXCEPT ![r].outcome = "answered"]
             \/ rows' = [rows EXCEPT ![r].outcome = "dismissed"]
          /\ proc' = proc \/ proc' = [proc EXCEPT !.held[r] = "settling"]
      BY <1>3 DEF Respond, IsOpen
    <2>2. \A q \in Request : Shut(q)
      BY <2>1, OutcomeShut DEF Closed
    <2>3. CASE proc' = proc
      BY <2>1, <2>2, <2>3, ProcessLets
    <2>4. CASE proc' = [proc EXCEPT !.held[r] = "settling"]
      <3>1. \A q \in Request : Lets(q)
        BY <2>1, <2>4, HeldLets
      <3> QED BY <2>1, <2>2, <3>1
    <2> QED BY <2>1, <2>3, <2>4
  <1> QED BY <1>1, <1>2, <1>3 DEF Human
LEMMA HoldsStep ==
    ASSUME HeldIsOwn, \A r \in Request : Lets(r) /\ Shut(r)
    PROVE  HeldIsOwn'
  <1> SUFFICES ASSUME NEW r \in Request, proc'.held[r] = "held", rows'[r].outcome = "open"
               PROVE  rows'[r].kind = "approval" /\ rows'[r].by = proc'.gen
    BY DEF HeldIsOwn, IsOpen
  <1> QED BY DEF HeldIsOwn, IsOpen, Lets, Shut

LEMMA WatchStep ==
    ASSUME AcknowledgementWatched, \A r \in Request : Lets(r), armed' = armed
    PROVE  AcknowledgementWatched'
  BY DEF AcknowledgementWatched, Lets

LEMMA CallStep ==
    ASSUME HeldIsOwn, \A r \in Request : Lets(r),
           NEW r \in Request, proc.held[r] = "held", proc'.held[r] = "settling"
    PROVE  rows[r].by = proc.gen
  BY DEF HeldIsOwn, IsOpen, Lets

\* what the two properties of the process ask of a step
Kept == /\ AcknowledgementWatched' /\ HeldIsOwn'
        /\ \A r \in Request :
              proc.held[r] = "held" /\ proc'.held[r] = "settling" => rows[r].by = proc.gen

LEMMA KeptSimply ==
    ASSUME TypeOK, AcknowledgementWatched, HeldIsOwn,
           \A r \in Request : Lets(r) /\ Shut(r), armed' = armed
    PROVE  Kept
  BY HoldsStep, WatchStep, CallStep DEF Kept

LEMMA RaiseAttentionKept ==
    ASSUME TypeOK, AcknowledgementWatched, HeldIsOwn, RaiseAttention
    PROVE  Kept
  <1> DEFINE n == proc.next
  <1>1. n \in Request /\ armed' = armed \cup {n} /\ proc'.gen = proc.gen
        /\ proc'.held = [proc.held EXCEPT ![n] = "acking"]
        /\ rows' \in {rows, Added(n, "attention", "acknowledged")}
    BY DEF RaiseAttention, Asked, TypeOK, Process
  <1>2. \A r \in Request : proc'.held[r] = IF r = n THEN "acking" ELSE proc.held[r]
    BY <1>1 DEF TypeOK, Process
  <1>3. \A r \in Request : r # n => rows'[r] = rows[r]
    BY <1>1 DEF Added, TypeOK
  <1> HIDE DEF n
  <1>4. AcknowledgementWatched'
    BY <1>1, <1>2 DEF AcknowledgementWatched
  <1>5. HeldIsOwn'
    BY <1>1, <1>2, <1>3 DEF HeldIsOwn, IsOpen
  <1>6. \A r \in Request : ~(proc.held[r] = "held" /\ proc'.held[r] = "settling")
    BY <1>2
  <1> QED BY <1>4, <1>5, <1>6 DEF Kept

LEMMA RaiseApprovalKept ==
    ASSUME TypeOK, AcknowledgementWatched, HeldIsOwn, RaiseApproval
    PROVE  Kept
  <1> DEFINE n == proc.next
  <1> PICK saves \in BOOLEAN, published \in BOOLEAN :
          /\ published => saves
          /\ rows' = IF saves THEN Added(n, "approval", "active") ELSE rows
          /\ proc' = [proc EXCEPT !.next = n + 1,
                                  !.held[n] = IF Holds(published) THEN "held" ELSE "none",
                                  !.unresolved = @ \cup {n}]
    BY DEF RaiseApproval
  <1>1. n \in Request /\ armed' = armed /\ proc'.gen = proc.gen
        /\ proc'.held = [proc.held EXCEPT ![n] = IF Holds(published) THEN "held" ELSE "none"]
    BY DEF RaiseApproval, TypeOK, Process
  <1>2. \A r \in Request : proc'.held[r] = IF r = n THEN IF Holds(published) THEN "held" ELSE "none"
                                                   ELSE proc.held[r]
    BY <1>1 DEF TypeOK, Process
  <1>3. \A r \in Request : r # n => rows'[r] = rows[r]
    BY <1>1 DEF Added, TypeOK
  <1>4. proc'.held[n] = "held" /\ rows'[n].outcome = "open" =>
            rows'[n].kind = "approval" /\ rows'[n].by = proc.gen
    <2> SUFFICES ASSUME proc'.held[n] = "held", rows'[n].outcome = "open"
                 PROVE  rows'[n].kind = "approval" /\ rows'[n].by = proc.gen
      OBVIOUS
    <2>1. Holds(published)
      BY <1>1, <1>2
    <2>2. saves = TRUE /\ rows[n].outcome # "open"
      BY <2>1 DEF Holds, IsOpen
    <2>3. rows' = Added(n, "approval", "active")
      BY <2>2
    <2> HIDE DEF n
    <2> QED BY <1>1, <2>2, <2>3 DEF Added, TypeOK
  <1> HIDE DEF n
  <1>5. AcknowledgementWatched'
    BY <1>1, <1>2 DEF AcknowledgementWatched
  <1>6. HeldIsOwn'
    BY <1>1, <1>2, <1>3, <1>4 DEF HeldIsOwn, IsOpen
  <1>7. \A r \in Request : ~(proc.held[r] = "held" /\ proc'.held[r] = "settling")
    BY <1>2
  <1> QED BY <1>5, <1>6, <1>7 DEF Kept

LEMMA AppServerKept ==
    ASSUME TypeOK, AcknowledgementWatched, HeldIsOwn, AppServer
    PROVE  Kept
  <1>1. CASE RaiseAttention
    BY <1>1, RaiseAttentionKept
  <1>2. CASE RaiseApproval
    BY <1>2, RaiseApprovalKept
  <1>3. CASE WriterExits
    BY <1>3, DismissedShut, ProcessLets, KeptSimply DEF WriterExits
  <1>4. CASE WriterStarts
    BY <1>4, SameShut, ProcessLets, KeptSimply DEF WriterStarts
  <1>5. ASSUME NEW r \in Request, ResponseSettles(r) PROVE Kept
    <2>1. /\ proc' = [proc EXCEPT !.held[r] = "none"] /\ armed' = armed \ {r}
          /\ UNCHANGED rows
      BY <1>5 DEF ResponseSettles
    <2>2. \A q \in Request : Lets(q) /\ Shut(q)
      BY <2>1, HeldLets, SameShut
    <2>3. proc'.held[r] = "none"
      BY <2>1 DEF TypeOK, Process
    <2>4. AcknowledgementWatched'
      BY <2>1, <2>2, <2>3 DEF AcknowledgementWatched, Lets
    <2> QED BY <2>2, <2>4, HoldsStep, CallStep DEF Kept
  <1>6. ASSUME NEW r \in Request, RequestCleared(r) PROVE Kept
    <2>1. /\ proc' = [proc EXCEPT !.held[r] = "none", !.unresolved = @ \ {r}]
          /\ armed' = armed
          /\ \/ rows' \in {rows, [rows EXCEPT ![r].outcome = "failed"]}
             \/ rows' \in {rows, [rows EXCEPT ![r].outcome = "dismissed"]}
      BY <1>6 DEF RequestCleared
    <2>2. \A q \in Request : Shut(q)
      BY <2>1, OutcomeShut DEF Closed
    <2>3. \A q \in Request : Lets(q)
      BY <2>1, HeldLets
    <2> QED BY <2>1, <2>2, <2>3, KeptSimply
  <1>7. ASSUME NEW r \in Request, Deadline(r) PROVE Kept
    <2>1. /\ armed' = armed \ {r} /\ UNCHANGED rows
          /\ \/ proc' = proc /\ proc.held[r] = "none"
             \/ proc' = Stopped(proc)
      BY <1>7 DEF Deadline
    <2>2. \A q \in Request : Lets(q) /\ Shut(q)
      BY <2>1, ProcessLets, SameShut
    <2>3. proc'.held[r] = "none"
      <3>1. proc \in Process
        BY DEF TypeOK
      <3>2. CASE proc' = Stopped(proc)
        BY <3>1, <3>2 DEF Stopped, Process
      <3> QED BY <2>1, <3>2
    <2>4. AcknowledgementWatched'
      BY <2>1, <2>2, <2>3 DEF AcknowledgementWatched, Lets
    <2> QED BY <2>2, <2>4, HoldsStep, CallStep DEF Kept
  <1> QED BY <1>1, <1>2, <1>3, <1>4, <1>5, <1>6, <1>7 DEF AppServer

LEMMA LossesKept ==
    ASSUME TypeOK, OneDelivery, AcknowledgementWatched, HeldIsOwn, Losses
    PROVE  Kept
  <1>1. ASSUME Down, \A r \in Request : Shut(r) PROVE Kept
    <2>1. proc' = Stopped(proc)
      BY <1>1 DEF Down
    <2>2. \A r \in Request : Lets(r)
      BY <2>1, ProcessLets
    <2>3. \A r \in Request : proc'.held[r] = "none"
      BY <2>1 DEF Stopped, TypeOK, Process
    <2>4. AcknowledgementWatched'
      BY <2>3 DEF AcknowledgementWatched
    <2> QED BY <1>1, <2>2, <2>4, HoldsStep, CallStep DEF Kept
  <1>2. CASE Crash
    BY <1>1, <1>2, SameShut DEF Crash
  <1>3. CASE Shutdown
    <2>1. \A r \in Request : Shut(r)
      BY <1>3 DEF Shutdown, Shut, TypeOK, Row
    <2> QED BY <1>1, <1>3, <2>1 DEF Shutdown
  <1>4. CASE Restart
    BY <1>4, SameShut, ProcessLets, KeptSimply DEF Restart
  <1>5. ASSUME NEW r \in Request, NEW k \in Key, TornSettlement(r, k) PROVE Kept
    <2>1. rows'[r].outcome = "answered" /\ \A q \in Request : q # r => rows'[q] = rows[q]
      BY <1>5, TornRow
    <2>2. \A q \in Request : Shut(q)
      BY <2>1, OneShut
    <2> QED BY <1>1, <1>5, <2>2 DEF TornSettlement
  <1> QED BY <1>2, <1>3, <1>4, <1>5 DEF Losses

LEMMA KeptStep ==
    ASSUME TypeOK, OneDelivery, AcknowledgementWatched, HeldIsOwn, [Next]_vars
    PROVE  Kept
  <1>1. CASE UNCHANGED vars
    BY <1>1, SameShut, ProcessLets, KeptSimply DEF vars
  <1>2. CASE AppServer
    BY <1>2, AppServerKept
  <1>3. CASE Human
    BY <1>3, HumanHolds, KeptSimply
  <1>4. CASE Guidance
    BY <1>4, GuidanceHolds, KeptSimply
  <1>5. CASE Losses
    BY <1>5, LossesKept
  <1>6. ASSUME NEW r \in Request, NEW k \in Key, Operation(r, k) PROVE Kept
    BY <1>6, OperationHolds, KeptSimply
  <1> QED BY <1>1, <1>2, <1>3, <1>4, <1>5, <1>6 DEF Next

(* ------------------------------ AttentionDecision ----------------------- *)
\* the question of a row
View(r) == IF rows[r].kind = "attention" THEN Question(r) ELSE Decision!Unasked

\* the questions AttentionDecision sees
Asks == [r \in Request |->
            IF rows[r].kind = "attention" THEN Question(r)
            ELSE [state |-> "unasked", owner |-> NoKey, done |-> FALSE]]

\* A step of the questions, or one that changes none of them.
DecisionStep == [Decision!Next]_Asks

LEMMA AsksAre ==
    /\ Asks = [r \in Request |-> View(r)]
    /\ Asks' = [r \in Request |-> View(r)']
  BY DEF Asks, View, Decision!Unasked

\* A question that is open was not answered before.
LEMMA NotDone ==
    ASSUME TypeOK, CarriedOut, NEW r \in Request, ~Answered(r)
    PROVE  (history.done[r] > 0) = FALSE
  <1>1. history.done[r] \in Nat /\ history.done[r] <= 1 /\ history.done[r] # 1
    BY DEF TypeOK, History, CarriedOut
  <1> QED BY <1>1

\* No row becomes a question, and a question is at most lost.
OnlyLoses(r) ==
    IF rows[r].kind = "attention"
    THEN /\ rows'[r].kind = "attention" /\ rows'[r].key = rows[r].key
         /\ \/ rows'[r].outcome = rows[r].outcome
            \/ rows[r].outcome = "open" /\ rows'[r].outcome \in {"failed", "dismissed"}
    ELSE rows'[r].kind # "attention"

LEMMA LosesDecision ==
    ASSUME \A r \in Request : OnlyLoses(r), history' = history
    PROVE  DecisionStep
  <1> DEFINE lost == {r \in Request : rows[r].kind = "attention" /\ rows[r].outcome = "open"
                                      /\ rows'[r].outcome # "open"}
  <1>1. \A r \in Request :
           View(r)' = IF r \in lost THEN [View(r) EXCEPT !.state = "lost"] ELSE View(r)
    <2> SUFFICES ASSUME NEW r \in Request
                 PROVE  View(r)' = IF r \in lost THEN [View(r) EXCEPT !.state = "lost"]
                                                 ELSE View(r)
      OBVIOUS
    <2>1. OnlyLoses(r)
      OBVIOUS
    <2>2. CASE rows[r].kind = "attention"
      BY <2>1, <2>2 DEF OnlyLoses, View, Question, IsOpen
    <2>3. CASE rows[r].kind # "attention"
      BY <2>1, <2>3 DEF OnlyLoses, View, Decision!Unasked
    <2> QED BY <2>2, <2>3
  <1>2. \A r \in lost : View(r).state = "open"
    BY DEF View, Question, IsOpen
  <1>3. \A r \in Request : Asks[r] = View(r)
    BY AsksAre
  <1>4. lost \in SUBSET {r \in Request : Asks[r].state = "open"}
    BY <1>2, <1>3
  <1> HIDE DEF lost
  <1>5. Asks' = [r \in Request |-> IF r \in lost THEN [Asks[r] EXCEPT !.state = "lost"]
                                                ELSE Asks[r]]
    BY <1>1, <1>3, AsksAre
  <1>6. Decision!LoseMany
    BY <1>4, <1>5 DEF Decision!LoseMany, Asks
  <1> QED BY <1>6 DEF DecisionStep, Decision!Next

LEMMA DismissedLoses ==
    ASSUME TypeOK, NEW outcome \in {"failed", "dismissed"}, rows' = Dismissed(rows, outcome)
    PROVE  \A r \in Request : OnlyLoses(r)
  <1> TAKE r \in Request
  <1>1. rows[r] \in Row
    BY DEF TypeOK
  <1>2. rows'[r] = IF rows[r].outcome = "open" /\ ~Acknowledged(rows[r])
                   THEN [rows[r] EXCEPT !.outcome = outcome] ELSE rows[r]
    BY DEF Dismissed
  <1> QED BY <1>1, <1>2 DEF OnlyLoses, Row

LEMMA SameDecision == UNCHANGED <<rows, history>> => DecisionStep
  BY DEF DecisionStep, Asks, Question, IsOpen

\* The row of one question changes, and what was carried out for it.
OnlyRow(r) == \A q \in Request : q # r =>
                 rows'[q] = rows[q] /\ history'.done[q] = history.done[q]

LEMMA OneView ==
    ASSUME NEW r \in Request, OnlyRow(r)
    PROVE  Asks' = [Asks EXCEPT ![r] = View(r)']
  <1>1. \A q \in Request : q # r => View(q)' = View(q)
    BY DEF OnlyRow, View, Question, IsOpen, Decision!Unasked
  <1> QED BY <1>1, AsksAre

\* Whoever may answer an open question claims it, answers it or finds it lost.
LEMMA OwnerDecision ==
    ASSUME TypeOK, CarriedOut, NEW r \in Request, NEW k \in Key, OnlyRow(r),
           rows[r].kind = "attention", rows[r].outcome = "open", Claims(r, k),
           rows'[r].kind = "attention", rows'[r].key = k,
           rows'[r].outcome # "answered" => history'.done[r] = history.done[r]
    PROVE  DecisionStep
  <1>1. (history.done[r] > 0) = FALSE
    BY NotDone DEF Answered
  <1>2. Asks[r] = [state |-> "open", owner |-> rows[r].key, done |-> history.done[r] > 0]
    BY AsksAre DEF View, Question, IsOpen
  <1>3. Decision!MayOwn(r, k)
    BY <1>2 DEF Decision!MayOwn, Claims, Asks
  <1> DEFINE done == history'.done[r] > 0
  <1>4. View(r)' = [state |-> IF rows'[r].outcome = "open" THEN "open"
                              ELSE IF rows'[r].outcome = "answered" THEN "answered" ELSE "lost",
                    owner |-> k, done |-> done]
    BY DEF View, Question, IsOpen
  <1>5. Asks' = [Asks EXCEPT ![r] = View(r)']
    BY OneView
  <1>6. done \in BOOLEAN
    OBVIOUS
  <1>7. rows'[r].outcome # "answered" => done = FALSE
    BY <1>1
  <1> HIDE DEF done
  <1>8. CASE rows'[r].outcome = "open"
    <2>1. Asks' = [Asks EXCEPT ![r] = [state |-> "open", owner |-> k, done |-> FALSE]]
      BY <1>4, <1>5, <1>7, <1>8
    <2>2. Decision!Claim(r, k)
      BY <1>3, <2>1 DEF Decision!Claim, Decision!Becomes, Asks
    <2> QED BY <2>2 DEF DecisionStep, Decision!Next
  <1>9. CASE rows'[r].outcome = "answered"
    <2>1. Asks' = [Asks EXCEPT ![r] = [state |-> "answered", owner |-> k, done |-> done]]
      BY <1>4, <1>5, <1>9
    <2>2. Decision!Answer(r, k)
      BY <1>3, <1>6, <2>1 DEF Decision!Answer, Decision!Becomes, Asks
    <2> QED BY <2>2 DEF DecisionStep, Decision!Next
  <1>10. CASE rows'[r].outcome \notin {"open", "answered"}
    <2>1. Asks' = [Asks EXCEPT ![r] = [state |-> "lost", owner |-> k, done |-> FALSE]]
      BY <1>4, <1>5, <1>7, <1>10
    <2>2. Decision!Lose(r, k)
      BY <1>3, <2>1 DEF Decision!Lose, Decision!Becomes, Asks
    <2> QED BY <2>2 DEF DecisionStep, Decision!Next
  <1> QED BY <1>8, <1>9, <1>10

\* A settlement answers the open question of its key.
LEMMA SettleDecision ==
    ASSUME TypeOK, CarriedOut, NEW r \in Request, NEW k \in Key, NEW row \in Row,
           rows[r].kind = "attention", rows[r].outcome = "open", Claims(r, k),
           row.kind = "attention", row.key = k, row.outcome = "open",
           row.state = "delivering", SettleAnswered(r, k, row)
    PROVE  DecisionStep
  <1> DEFINE settled == SettledRow(row, k, "answered")
  <1>1. /\ settled.kind = "attention" /\ settled.key = k /\ settled.outcome = "answered"
        /\ settled # row
    BY DEF SettledRow, Row
  <1>2. /\ rows' = [rows EXCEPT ![r] = settled]
        /\ history' = [history EXCEPT !.done[r] = @ + 1]
    BY <1>1 DEF SettleAnswered
  <1> HIDE DEF settled
  <1>3. rows'[r] = settled /\ OnlyRow(r)
    BY <1>2 DEF TypeOK, History, OnlyRow
  <1> QED BY <1>1, <1>3, OwnerDecision

LEMMA AppServerDecision ==
    ASSUME TypeOK, CarriedOut, AppServer
    PROVE  DecisionStep
  <1>1. CASE RaiseAttention
    <2> PICK n \in Request : n = proc.next
      BY <1>1 DEF RaiseAttention
    <2>1. /\ rows' \in {rows, Added(n, "attention", "acknowledged")}
          /\ history' = history
      BY <1>1 DEF RaiseAttention
    <2>2. CASE rows' = rows
      BY <2>1, <2>2, SameDecision
    <2>3. CASE rows' # rows
      <3>1. /\ rows[n].kind # "attention" /\ rows'[n].kind = "attention"
            /\ rows'[n].outcome = "open" /\ rows'[n].key = NoKey
            /\ \A q \in Request : q # n => rows'[q] = rows[q]
        BY <2>1, <2>3 DEF Added, TypeOK
      <3>2. OnlyRow(n)
        BY <2>1, <3>1 DEF OnlyRow
      <3>3. (history.done[n] > 0) = FALSE
        BY <2>1, <3>1, NotDone DEF Answered
      <3>4. View(n)' = [state |-> "open", owner |-> NoKey, done |-> FALSE]
        BY <2>1, <3>1, <3>3 DEF View, Question, IsOpen
      <3>5. Asks[n] = Decision!Unasked
        BY <2>1, <3>1, AsksAre DEF View
      <3>6. Asks' = [Asks EXCEPT ![n] = [state |-> "open", owner |-> NoKey, done |-> FALSE]]
        BY <2>1, <3>2, <3>4, OneView
      <3>7. Decision!Ask(n)
        BY <3>5, <3>6 DEF Decision!Ask, Decision!Becomes, Asks
      <3> QED BY <2>1, <3>7 DEF DecisionStep, Decision!Next
    <2> QED BY <2>2, <2>3
  <1>2. CASE RaiseApproval
    <2>1. /\ proc.next \in Request /\ rows' \in {rows, Added(proc.next, "approval", "active")}
          /\ history' = history
      BY <1>2 DEF RaiseApproval
    <2>2. \A r \in Request : OnlyLoses(r)
      BY <2>1 DEF OnlyLoses, Added, TypeOK
    <2> QED BY <2>1, <2>2, LosesDecision
  <1>3. CASE WriterExits
    BY <1>3, DismissedLoses, LosesDecision DEF WriterExits
  <1>4. CASE WriterStarts
    BY <1>4, SameDecision DEF WriterStarts
  <1>5. ASSUME NEW r \in Request, ResponseSettles(r) PROVE DecisionStep
    BY <1>5, SameDecision DEF ResponseSettles
  <1>6. ASSUME NEW r \in Request, RequestCleared(r) PROVE DecisionStep
    <2>1. \A q \in Request : OnlyLoses(q)
      BY <1>6 DEF RequestCleared, OnlyLoses, TypeOK, Row, IsOpen
    <2> QED BY <1>6, <2>1, LosesDecision DEF RequestCleared
  <1>7. ASSUME NEW r \in Request, Deadline(r) PROVE DecisionStep
    BY <1>7, SameDecision DEF Deadline
  <1> QED BY <1>1, <1>2, <1>3, <1>4, <1>5, <1>6, <1>7 DEF AppServer

LEMMA HumanDecision ==
    ASSUME TypeOK, Human
    PROVE  DecisionStep
  <1>1. CASE HumanTurn
    BY <1>1, DismissedLoses, LosesDecision DEF HumanTurn
  <1>2. CASE Release
    BY <1>2, DismissedLoses, LosesDecision DEF Release
  <1>3. ASSUME NEW r \in Request, Respond(r) PROVE DecisionStep
    <2>1. \A q \in Request : OnlyLoses(q)
      <3>1. /\ rows[r].kind = "approval"
            /\ \/ rows' = [rows EXCEPT ![r].outcome = "answered"]
               \/ rows' = [rows EXCEPT ![r].outcome = "dismissed"]
        BY <1>3 DEF Respond
      <3>2. \A q \in Request : rows'[q].kind = rows[q].kind /\ (q # r => rows'[q] = rows[q])
        BY <3>1 DEF TypeOK, Row
      <3> QED BY <3>1, <3>2 DEF OnlyLoses
    <2> QED BY <1>3, <2>1, LosesDecision DEF Respond
  <1> QED BY <1>1, <1>2, <1>3 DEF Human

LEMMA OperationDecision ==
    ASSUME TypeOK, CarriedOut, NEW r \in Request, NEW k \in Key, Operation(r, k)
    PROVE  DecisionStep
  <1>1. ASSUME Opens(r, k), SettleAnswered(r, k, Begun(rows[r], k)) PROVE DecisionStep
    BY <1>1, OpensFacts, SettleDecision
  <1>2. ASSUME Opens(r, k), Unanswered(r), rows'[r].kind = "attention", rows'[r].key = k,
               history' = history
        PROVE  DecisionStep
    <2>1. OnlyRow(r)
      BY <1>2 DEF Unanswered, OnlyRow
    <2> QED BY <1>2, <2>1, OpensFacts, OwnerDecision
  <1>3. CASE Replay(r, k) \/ Stale(r, k)
    BY <1>3, SameDecision DEF Replay, Stale
  <1>4. CASE Refuse(r, k)
    BY <1>2, <1>4, RefuseRow DEF Refuse
  <1>5. CASE Decide(r, k)
    BY <1>1, <1>5 DEF Decide
  <1>6. CASE Guide(r, k)
    BY <1>2, <1>6, GuideRow DEF Guide
  <1>7. CASE Deliver(r, k)
    <2>1. CASE proc.up /\ proc.held[r] = "held"
      BY <1>1, <1>7, <2>1 DEF Deliver
    <2>2. CASE ~(proc.up /\ proc.held[r] = "held")
      BY <1>2, <1>7, <2>2, DeliverRow DEF Deliver
    <2> QED BY <2>1, <2>2
  <1> QED BY <1>3, <1>4, <1>5, <1>6, <1>7 DEF Operation

LEMMA GuidanceDecision ==
    ASSUME TypeOK, CarriedOut, OneDelivery, Guidance
    PROVE  DecisionStep
  <1> PICK op \in ops : GuidanceSent(op) \/ GuidanceAccepted(op) \/ GuidanceFails(op)
    BY DEF Guidance
  <1>0. /\ op.req \in Request /\ op.key \in Key /\ rows[op.req] \in Row
        /\ rows[op.req].kind = "attention" /\ rows[op.req].key = op.key
    BY DEF TypeOK, Op, OneDelivery
  <1>1. CASE GuidanceSent(op)
    BY <1>1, SameDecision DEF GuidanceSent
  <1>2. CASE GuidanceAccepted(op)
    <2>1. SettleAnswered(op.req, op.key, rows[op.req])
      BY <1>2 DEF GuidanceAccepted
    <2>2. CASE rows[op.req].outcome = "open"
      <3>1. rows[op.req].state = "delivering" /\ Claims(op.req, op.key)
        BY <1>0, <2>2 DEF OneDelivery, OpenAttention, IsOpen, Claims
      <3> QED BY <1>0, <2>1, <2>2, <3>1, SettleDecision
    <2>3. CASE rows[op.req].outcome # "open"
      <3>1. SettledRow(rows[op.req], op.key, "answered") = rows[op.req]
        BY <2>3 DEF SettledRow
      <3>2. UNCHANGED <<rows, history>>
        BY <1>0, <2>1, <3>1 DEF SettleAnswered, TypeOK
      <3> QED BY <3>2, SameDecision
    <2> QED BY <2>2, <2>3
  <1>3. CASE GuidanceFails(op)
    <2>1. /\ rows'[op.req].kind = "attention" /\ rows'[op.req].key = op.key
          /\ rows'[op.req].outcome = rows[op.req].outcome
          /\ \A q \in Request : q # op.req => rows'[q] = rows[q]
      BY <1>3, FailsRow
    <2>2. \A q \in Request : OnlyLoses(q)
      BY <1>0, <2>1 DEF OnlyLoses
    <2> QED BY <1>3, <2>2, LosesDecision DEF GuidanceFails
  <1> QED BY <1>1, <1>2, <1>3

LEMMA LossesDecision ==
    ASSUME TypeOK, CarriedOut, OneDelivery, Losses
    PROVE  DecisionStep
  <1>1. CASE Crash \/ Restart
    BY <1>1, SameDecision DEF Crash, Restart
  <1>2. CASE Shutdown
    <2>1. \A r \in Request : OnlyLoses(r)
      BY <1>2 DEF Shutdown, OnlyLoses, TypeOK, Row
    <2> QED BY <1>2, <2>1, LosesDecision DEF Shutdown
  <1>3. ASSUME NEW r \in Request, NEW k \in Key, TornSettlement(r, k) PROVE DecisionStep
    <2>1. /\ rows[r].kind = "attention" /\ rows[r].outcome = "open"
          /\ rows'[r].kind = "attention" /\ rows'[r].outcome = "answered" /\ rows'[r].key = k
          /\ \A q \in Request : q # r => rows'[q] = rows[q]
      BY <1>3, TornRow
    <2>2. Claims(r, k)
      <3>1. CASE Opens(r, k)
        BY <3>1 DEF Opens
      <3>2. CASE [req |-> r, key |-> k, stage |-> "sent"] \in ops
        BY <3>2 DEF OneDelivery, Claims
      <3> QED BY <1>3, <3>1, <3>2 DEF TornSettlement
    <2>3. history'.done = history.done
      BY <1>3 DEF TornSettlement, TypeOK, History
    <2>4. OnlyRow(r)
      BY <2>1, <2>3 DEF OnlyRow
    <2> QED BY <2>1, <2>2, <2>4, OwnerDecision
  <1> QED BY <1>1, <1>2, <1>3 DEF Losses

LEMMA DecisionNext == IInv /\ [Next]_vars => DecisionStep
  <1> SUFFICES ASSUME IInv, [Next]_vars PROVE DecisionStep
    OBVIOUS
  <1>1. TypeOK /\ CarriedOut /\ OneDelivery
    BY DEF IInv
  <1>2. CASE UNCHANGED vars
    BY <1>2, SameDecision DEF vars
  <1> QED BY <1>1, <1>2, AppServerDecision, HumanDecision, OperationDecision, GuidanceDecision,
             LossesDecision DEF Next

(* ------------------------------- theorems ------------------------------- *)
LEMMA InvInit == Init => IInv
  <1> SUFFICES ASSUME Init PROVE IInv
    OBVIOUS
  <1>1. /\ \A r \in Request : rows[r] = Absent /\ proc.held[r] = "none" /\ history.done[r] = 0
        /\ history.torn = {} /\ ops = {} /\ saved = {}
    BY DEF Init
  <1>2. CarriedOut /\ OneDelivery
    BY <1>1 DEF CarriedOut, OneDelivery, Answered, OpenAttention, IsOpen, Absent
  <1>3. AcknowledgementWatched /\ HeldIsOwn
    BY <1>1 DEF AcknowledgementWatched, HeldIsOwn
  <1> QED BY <1>2, <1>3, TypeInit DEF IInv

LEMMA InvStep == IInv /\ [Next]_vars => IInv' /\ Kept
  BY TypeStep, CarriedStep, DeliveryStep, KeptStep DEF IInv, Kept

(* IInv is an invariant of the specification, for all bounds. *)
THEOREM HeldInvariance == Spec => []IInv
  BY InvInit, InvStep, PTL DEF Spec

(* An answer is carried out at most once, and replayed only to the key whose *)
(* answer it was (settleAnswered, the idempotency table).                    *)
THEOREM AnsweredOnce == Spec => []CarriedOut
  <1>1. IInv => CarriedOut
    BY DEF IInv
  <1> QED BY <1>1, HeldInvariance, PTL

(* One operation delivers a question at a time, and a failed delivery gives  *)
(* it back (claimOperation, beginDelivery, retryDelivery).                   *)
THEOREM DeliveredByOne == Spec => []OneDelivery
  <1>1. IInv => OneDelivery
    BY DEF IInv
  <1> QED BY <1>1, HeldInvariance, PTL

(* Every acknowledgement under way has its deadline (acknowledgement.ts).    *)
THEOREM NeverWedged == Spec => []AcknowledgementWatched
  <1>1. IInv => AcknowledgementWatched
    BY DEF IInv
  <1> QED BY <1>1, HeldInvariance, PTL

(* A held request is answered only with the answer to its own question,      *)
(* although request ids collide between processes.                           *)
THEOREM AnswersItsOwn == Spec => RightCall
  <1>1. IInv /\ [Next]_vars =>
          [\A r \in Request :
              proc.held[r] = "held" /\ proc'.held[r] = "settling" => rows[r].by = proc.gen]_vars
    BY InvStep DEF Kept
  <1> QED BY <1>1, HeldInvariance, PTL DEF Spec, RightCall

(* The questions are claimed, answered and lost as AttentionDecision allows, *)
(* through writers, retries and crashes.                                     *)
THEOREM ImplementsDecision == Spec => DecisionSpec
  <1>1. Init => Decision!Init
    BY DEF Init, Absent, Decision!Init, Decision!Unasked
  <1>2. IInv /\ [Next]_vars => [Decision!Next]_Asks
    BY DecisionNext DEF DecisionStep
  <1> QED BY <1>1, <1>2, HeldInvariance, PTL DEF Spec, DecisionSpec, Decision!Spec, Asks
=============================================================================
