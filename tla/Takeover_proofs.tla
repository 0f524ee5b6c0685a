---------------------------- MODULE Takeover_proofs -----------------------------
(***************************************************************************)
(* Theorems of Takeover for every set of sessions and every bound: Calm is *)
(* about the steps that leave the reservation and the retired supervisors  *)
(* alone, the other actions have a lemma each; every lemma shows that the  *)
(* action preserves the inductive invariant and is a step of the ledger.   *)
(***************************************************************************)
EXTENDS Takeover, TLAPS

\* what the ledger makes of a step
LedgerStep == [Ledger!Next]_<<claim.owner, claim.epoch, claim.phase, Requests>>

\* a run is over, or goes on with less in its favour
Weaker(s) ==
    \/ op'[s] = Idle
    \/ /\ op'[s].on = op[s].on /\ op'[s].epoch = op[s].epoch
       /\ op'[s].todo = op[s].todo /\ op'[s].at = op[s].at
       /\ op'[s].turn => op[s].turn
       /\ op'[s].same => op[s].same

\* Idle is one of the runs.
LEMMA IdleIsRun ==
    /\ Idle \in [on : BOOLEAN, epoch : Nat, todo : SUBSET Session,
                 at : Session \cup {None}, turn : BOOLEAN, same : BOOLEAN]
    /\ Idle.on = FALSE /\ Idle.at = None /\ Idle.todo = {} /\ Idle.turn = FALSE
  BY DEF Idle

\* A run that goes on with less in its favour keeps what is asked of runs.
LEMMA RunsKept ==
    ASSUME IInv, UNCHANGED claim, NEW s \in Session, Weaker(s), op'[s].turn => state'[s] = "turn"
    PROVE  RunOK(s)'
  BY IdleIsRun DEF IInv, RunOK, Weaker, Current

\* For the ledger, requests are withdrawn or over.
LEMMA OnlyWithdrawn ==
    ASSUME TypeOK, UNCHANGED claim, \A s \in Session : Weaker(s)
    PROVE  LedgerStep
<1>1. \A s \in Session : \/ Requests'[s] \in {"none", Requests[s]}
                         \/ Requests[s] = "stands" /\ Requests'[s] = "withdrawn"
  BY IdleIsRun DEF Requests, Weaker
<1>2. Requests' \in [Session -> {"none", "stands", "withdrawn"}]
  BY DEF Requests
<1>3. Ledger!Withdraw
  BY <1>1, <1>2 DEF Ledger!Withdraw
<1>4. QED
  BY <1>3 DEF LedgerStep, Ledger!Next

\* Whoever owns nothing does not start to drive the plan, and what has driven it
\* before was fenced or passed over already.
LEMMA Calm ==
    ASSUME IInv, TypeOK', UNCHANGED durable, GoneOK',
           \A s \in Session : Weaker(s) /\ (op'[s].turn => state'[s] = "turn"),
           \A s \in Session : Drives(s)' => Drives(s) \/ Ownership(s, "plan") = "owned"
    PROVE  IInv' /\ LedgerStep
<1>1. ClaimOK'
  BY DEF IInv, ClaimOK, durable
<1>2. \A s \in Session : RunOK(s)'
  BY RunsKept DEF durable
<1>3. \A o \in Session : Holds(o)' => Holds(o)
  BY IdleIsRun DEF Holds, Weaker, Current, durable
<1>4. \A s \in Session : Ownership(s, "plan") = "owned" =>
        claim.owner = None \/ (claim.owner = s /\ claim.phase = "ready")
  BY DEF IInv, TypeOK, ClaimOK, Ownership
<1>5. FencedOK'
  <2>1. SUFFICES ASSUME NEW o \in Session, Holds(o)', NEW s \in Session \ {o}, Drives(s)'
                 PROVE  s \in regranted
    BY DEF FencedOK, durable
  <2>2. Holds(o) /\ claim.owner = o
    BY <1>3, <2>1 DEF Holds
  <2>3. claim.owner # None
    BY <2>2, SessionAssumption
  <2>4. Drives(s)
    BY <2>1, <2>2, <2>3, <1>4
  <2>5. QED
    BY <2>1, <2>2, <2>4 DEF IInv, FencedOK
<1>6. StoppedOK'
  <2>1. SUFFICES ASSUME NEW s \in Session, retired[s] = "stopped",
                        Drives(s)' \/ (claim.owner = s /\ claim.phase = "ready")
                 PROVE  s \in regranted
    BY DEF StoppedOK, durable
  <2>2. claim.owner # None
    BY <2>1 DEF IInv, ClaimOK
  <2>3. Drives(s) \/ (claim.owner = s /\ claim.phase = "ready")
    BY <2>1, <2>2, <1>4
  <2>4. QED
    BY <2>1, <2>3 DEF IInv, StoppedOK
<1>7. LedgerStep
  BY OnlyWithdrawn DEF IInv, durable
<1>8. QED
  BY <1>1, <1>2, <1>5, <1>6, <1>7 DEF IInv

\* A write of the row, the end of a turn: the run of the session weakens.
LEMMA Weakened ==
    ASSUME TypeOK, NEW s \in Session, Written(s) \/ Ended(s) \/ UNCHANGED op
    PROVE  /\ op' \in [Session -> [on : BOOLEAN, epoch : Nat, todo : SUBSET Session,
                                   at : Session \cup {None}, turn : BOOLEAN, same : BOOLEAN]]
           /\ \A p \in Session : Weaker(p) /\ (op'[p].turn => op[p].turn)
           /\ Ended(s) => op'[s].turn = FALSE
<1>1. CASE Written(s)  BY <1>1 DEF TypeOK, Written, Ended, Weaker, Run
<1>2. CASE Ended(s)  BY <1>2 DEF TypeOK, Written, Ended, Weaker, Run
<1>3. CASE UNCHANGED op  BY <1>3 DEF TypeOK, Written, Ended, Weaker, Run
<1>4. QED
  BY <1>1, <1>2, <1>3

\* A session whose state changes keeps the turn of a run under way only in a turn.
LEMMA TurnsMove ==
    ASSUME TypeOK, \A p \in Session : RunOK(p), NEW s \in Session, NEW v,
           state' = [state EXCEPT ![s] = v],
           Written(s) \/ Ended(s) \/ UNCHANGED op, v = "turn" \/ Ended(s)
    PROVE  \A p \in Session : op'[p].turn => state'[p] = "turn"
<1>1. \A p \in Session : state'[p] = IF p = s THEN v ELSE state[p]
  BY DEF TypeOK
<1>2. /\ \A p \in Session : op'[p].turn => op[p].turn
      /\ Ended(s) => op'[s].turn = FALSE
  BY Weakened
<1>3. \A p \in Session : op[p].turn => state[p] = "turn"
  BY DEF RunOK
<1>4. QED
  BY <1>1, <1>2, <1>3

\* The budget stays a number.
LEMMA Spent == ASSUME TypeOK, Spend \/ UNCHANGED left PROVE left' \in Nat
  BY DEF TypeOK, Spend

\* Enable is such a step.
LEMMA EnableCalm == ASSUME IInv, NEW s \in Session, Enable(s) PROVE IInv' /\ LedgerStep
<1>1. TypeOK /\ GoneOK /\ \A p \in Session : RunOK(p)
  BY DEF IInv
<1>2. TypeOK'
  BY <1>1, Weakened, Spent, IdleIsRun DEF TypeOK, Enable, durable, Plans, Modes
<1>3. \A p \in Session : Weaker(p)
  BY <1>1, Weakened DEF Enable, durable, Plans, Modes
<1>4. \A p \in Session : op'[p].turn => state'[p] = "turn"
  BY <1>1, Weakened DEF TypeOK, RunOK, Enable, durable, Plans, Modes
<1>5. GoneOK'
  BY <1>1 DEF TypeOK, GoneOK, Enable, durable, Plans, Modes
<1>6. \A p \in Session : Drives(p)' => Drives(p) \/ Ownership(p, "plan") = "owned"
  BY <1>1 DEF TypeOK, Drives, Enable, durable, Plans, Modes
<1>7. QED
  BY <1>2, <1>3, <1>4, <1>5, <1>6, Calm DEF Enable, durable, Plans, Modes

\* Disable is such a step.
LEMMA DisableCalm == ASSUME IInv, NEW s \in Session, Disable(s) PROVE IInv' /\ LedgerStep
<1>1. TypeOK /\ GoneOK /\ \A p \in Session : RunOK(p)
  BY DEF IInv
<1>2. TypeOK'
  BY <1>1, Weakened, Spent, IdleIsRun DEF TypeOK, Disable, durable, Plans, Modes, There
<1>3. \A p \in Session : Weaker(p)
  BY <1>1, Weakened DEF Disable, durable, Plans, Modes, There
<1>4. \A p \in Session : op'[p].turn => state'[p] = "turn"
  BY <1>1, Weakened DEF TypeOK, RunOK, Disable, durable, Plans, Modes, There
<1>5. GoneOK'
  BY <1>1 DEF TypeOK, GoneOK, Disable, durable, Plans, Modes, There
<1>6. \A p \in Session : Drives(p)' => Drives(p) \/ Ownership(p, "plan") = "owned"
  BY <1>1 DEF TypeOK, Drives, Disable, durable, Plans, Modes, There
<1>7. QED
  BY <1>2, <1>3, <1>4, <1>5, <1>6, Calm DEF Disable, durable, Plans, Modes, There

\* Pauses is such a step.
LEMMA PausesCalm == ASSUME IInv, NEW s \in Session, Pauses(s) PROVE IInv' /\ LedgerStep
<1>1. TypeOK /\ GoneOK /\ \A p \in Session : RunOK(p)
  BY DEF IInv
<1>2. TypeOK'
  BY <1>1, Weakened, Spent, IdleIsRun DEF TypeOK, Pauses, durable, Modes, InMode
<1>3. \A p \in Session : Weaker(p)
  BY <1>1, Weakened DEF Pauses, durable, Modes, InMode
<1>4. \A p \in Session : op'[p].turn => state'[p] = "turn"
  BY <1>1, Weakened DEF TypeOK, RunOK, Pauses, durable, Modes, InMode
<1>5. GoneOK'
  BY <1>1 DEF TypeOK, GoneOK, Pauses, durable, Modes, InMode
<1>6. \A p \in Session : Drives(p)' => Drives(p) \/ Ownership(p, "plan") = "owned"
  BY <1>1 DEF TypeOK, Drives, Pauses, durable, Modes, InMode
<1>7. QED
  BY <1>2, <1>3, <1>4, <1>5, <1>6, Calm DEF Pauses, durable, Modes, InMode

\* ProviderFails is such a step.
LEMMA ProviderFailsCalm == ASSUME IInv, NEW s \in Session, ProviderFails(s) PROVE IInv' /\ LedgerStep
<1>1. TypeOK /\ GoneOK /\ \A p \in Session : RunOK(p)
  BY DEF IInv
<1>2. TypeOK'
  BY <1>1, Weakened, Spent, IdleIsRun DEF TypeOK, ProviderFails, durable, Modes, InMode
<1>3. \A p \in Session : Weaker(p)
  BY <1>1, Weakened DEF ProviderFails, durable, Modes, InMode
<1>4. \A p \in Session : op'[p].turn => state'[p] = "turn"
  BY <1>1, Weakened DEF TypeOK, RunOK, ProviderFails, durable, Modes, InMode
<1>5. GoneOK'
  BY <1>1 DEF TypeOK, GoneOK, ProviderFails, durable, Modes, InMode
<1>6. \A p \in Session : Drives(p)' => Drives(p) \/ Ownership(p, "plan") = "owned"
  BY <1>1 DEF TypeOK, Drives, ProviderFails, durable, Modes, InMode
<1>7. QED
  BY <1>2, <1>3, <1>4, <1>5, <1>6, Calm DEF ProviderFails, durable, Modes, InMode

\* Retries is such a step.
LEMMA RetriesCalm == ASSUME IInv, NEW s \in Session, Retries(s) PROVE IInv' /\ LedgerStep
<1>1. TypeOK /\ GoneOK /\ \A p \in Session : RunOK(p)
  BY DEF IInv
<1>2. TypeOK'
  BY <1>1, Weakened, Spent, IdleIsRun, SMTT(40) DEF TypeOK, Retries, durable, Modes, InMode
<1>3. \A p \in Session : Weaker(p)
  BY <1>1, Weakened DEF Retries, durable, Modes, InMode
<1>4. \A p \in Session : op'[p].turn => state'[p] = "turn"
  BY <1>1, Weakened DEF TypeOK, RunOK, Retries, durable, Modes, InMode
<1>5. GoneOK'
  BY <1>1, SMTT(40) DEF TypeOK, GoneOK, Retries, durable, Modes, InMode
<1>6. \A p \in Session : Drives(p)' => Drives(p) \/ Ownership(p, "plan") = "owned"
  BY <1>1 DEF TypeOK, Drives, Retries, durable, Modes, InMode
<1>7. QED
  BY <1>2, <1>3, <1>4, <1>5, <1>6, Calm DEF Retries, durable, Modes, InMode

\* Close is such a step.
LEMMA CloseCalm == ASSUME IInv, NEW s \in Session, Close(s) PROVE IInv' /\ LedgerStep
<1>1. TypeOK /\ GoneOK /\ \A p \in Session : RunOK(p)
  BY DEF IInv
<1>2. TypeOK'
  BY <1>1, Weakened, Spent, IdleIsRun DEF TypeOK, Close, durable, Cancelled, InMode, Modes
<1>3. \A p \in Session : Weaker(p)
  BY <1>1, Weakened DEF Close, durable, Cancelled, InMode, Modes
<1>4. \A p \in Session : op'[p].turn => state'[p] = "turn"
  BY <1>1, Weakened DEF TypeOK, RunOK, Close, durable, Cancelled, InMode, Modes
<1>5. GoneOK'
  BY <1>1 DEF TypeOK, GoneOK, Close, durable, Cancelled, InMode, Modes
<1>6. \A p \in Session : Drives(p)' => Drives(p) \/ Ownership(p, "plan") = "owned"
  BY <1>1 DEF TypeOK, Drives, Close, durable, Cancelled, InMode, Modes
<1>7. QED
  BY <1>2, <1>3, <1>4, <1>5, <1>6, Calm DEF Close, durable, Cancelled, InMode, Modes

\* Send is such a step.
LEMMA SendCalm == ASSUME IInv, NEW s \in Session, Send(s) PROVE IInv' /\ LedgerStep
<1>1. TypeOK /\ GoneOK /\ \A p \in Session : RunOK(p)
  BY DEF IInv
<1>2. TypeOK'
  BY <1>1, Weakened, Spent, IdleIsRun DEF TypeOK, Send, durable
<1>3. \A p \in Session : Weaker(p)
  BY <1>1, Weakened DEF Send, durable
<1>4. \A p \in Session : op'[p].turn => state'[p] = "turn"
  BY <1>1, Weakened DEF TypeOK, RunOK, Send, durable
<1>5. GoneOK'
  BY <1>1 DEF TypeOK, GoneOK, Send, durable
<1>6. \A p \in Session : Drives(p)' => Drives(p) \/ Ownership(p, "plan") = "owned"
  BY <1>1 DEF TypeOK, Drives, Send, durable
<1>7. QED
  BY <1>2, <1>3, <1>4, <1>5, <1>6, Calm DEF Send, durable

\* SendStarts is such a step.
LEMMA SendStartsCalm == ASSUME IInv, NEW s \in Session, SendStarts(s) PROVE IInv' /\ LedgerStep
<1>1. TypeOK /\ GoneOK /\ \A p \in Session : RunOK(p)
  BY DEF IInv
<1>2. TypeOK'
  BY <1>1, Weakened, Spent, IdleIsRun DEF TypeOK, SendStarts, durable, Modes, Withdrawn, InMode
<1>3. \A p \in Session : Weaker(p)
  BY <1>1, Weakened DEF SendStarts, durable, Modes, Withdrawn, InMode
<1>4. \A p \in Session : op'[p].turn => state'[p] = "turn"
  BY <1>1, TurnsMove DEF SendStarts
<1>5. GoneOK'
  BY <1>1 DEF TypeOK, GoneOK, SendStarts, durable, Modes, Withdrawn, InMode
<1>6. \A p \in Session : Drives(p)' => Drives(p) \/ Ownership(p, "plan") = "owned"
  BY <1>1 DEF TypeOK, Drives, SendStarts, durable, Modes, Withdrawn, InMode
<1>7. QED
  BY <1>2, <1>3, <1>4, <1>5, <1>6, Calm DEF SendStarts, durable, Modes, Withdrawn, InMode

\* SendFails is such a step.
LEMMA SendFailsCalm == ASSUME IInv, NEW s \in Session, SendFails(s) PROVE IInv' /\ LedgerStep
<1>1. TypeOK /\ GoneOK /\ \A p \in Session : RunOK(p)
  BY DEF IInv
<1>2. TypeOK'
  BY <1>1, Weakened, Spent, IdleIsRun DEF TypeOK, SendFails, durable
<1>3. \A p \in Session : Weaker(p)
  BY <1>1, Weakened DEF SendFails, durable
<1>4. \A p \in Session : op'[p].turn => state'[p] = "turn"
  BY <1>1, Weakened DEF TypeOK, RunOK, SendFails, durable
<1>5. GoneOK'
  BY <1>1 DEF TypeOK, GoneOK, SendFails, durable
<1>6. \A p \in Session : Drives(p)' => Drives(p) \/ Ownership(p, "plan") = "owned"
  BY <1>1 DEF TypeOK, Drives, SendFails, durable
<1>7. QED
  BY <1>2, <1>3, <1>4, <1>5, <1>6, Calm DEF SendFails, durable

\* AutoStarts is such a step.
LEMMA AutoStartsCalm == ASSUME IInv, NEW s \in Session, AutoStarts(s) PROVE IInv' /\ LedgerStep
<1>1. TypeOK /\ GoneOK /\ \A p \in Session : RunOK(p)
  BY DEF IInv
<1>2. TypeOK'
  BY <1>1, Weakened, Spent, IdleIsRun DEF TypeOK, AutoStarts, durable
<1>3. \A p \in Session : Weaker(p)
  BY <1>1, Weakened DEF AutoStarts, durable
<1>4. \A p \in Session : op'[p].turn => state'[p] = "turn"
  BY <1>1, Weakened DEF TypeOK, RunOK, AutoStarts, durable
<1>5. GoneOK'
  BY <1>1 DEF TypeOK, GoneOK, AutoStarts, durable
<1>6. \A p \in Session : Drives(p)' => Drives(p) \/ Ownership(p, "plan") = "owned"
  BY <1>1 DEF TypeOK, Drives, AutoStarts, durable
<1>7. QED
  BY <1>2, <1>3, <1>4, <1>5, <1>6, Calm DEF AutoStarts, durable

\* TurnEnds is such a step.
LEMMA TurnEndsCalm == ASSUME IInv, NEW s \in Session, TurnEnds(s) PROVE IInv' /\ LedgerStep
<1>1. TypeOK /\ GoneOK /\ \A p \in Session : RunOK(p)
  BY DEF IInv
<1>2. TypeOK'
  BY <1>1, Weakened, Spent, IdleIsRun DEF TypeOK, TurnEnds, durable
<1>3. \A p \in Session : Weaker(p)
  BY <1>1, Weakened DEF TurnEnds, durable
<1>4. \A p \in Session : op'[p].turn => state'[p] = "turn"
  BY <1>1, TurnsMove DEF TurnEnds
<1>5. GoneOK'
  BY <1>1 DEF TypeOK, GoneOK, TurnEnds, durable
<1>6. \A p \in Session : Drives(p)' => Drives(p) \/ Ownership(p, "plan") = "owned"
  BY <1>1 DEF TypeOK, Drives, TurnEnds, durable
<1>7. QED
  BY <1>2, <1>3, <1>4, <1>5, <1>6, Calm DEF TurnEnds, durable

\* Open is such a step.
LEMMA OpenCalm == ASSUME IInv, NEW s \in Session, Open(s) PROVE IInv' /\ LedgerStep
<1>1. TypeOK /\ GoneOK /\ \A p \in Session : RunOK(p)
  BY DEF IInv
<1>2. TypeOK'
  BY <1>1, Weakened, Spent, IdleIsRun DEF TypeOK, Open, durable
<1>3. \A p \in Session : Weaker(p)
  BY <1>1, Weakened DEF Open, durable
<1>4. \A p \in Session : op'[p].turn => state'[p] = "turn"
  BY <1>1, Weakened DEF TypeOK, RunOK, Open, durable
<1>5. GoneOK'
  BY <1>1 DEF TypeOK, GoneOK, Open, durable
<1>6. \A p \in Session : Drives(p)' => Drives(p) \/ Ownership(p, "plan") = "owned"
  BY <1>1 DEF TypeOK, Drives, Open, durable
<1>7. QED
  BY <1>2, <1>3, <1>4, <1>5, <1>6, Calm DEF Open, durable

\* Leaves is such a step.
LEMMA LeavesCalm == ASSUME IInv, NEW s \in Session, Leaves(s) PROVE IInv' /\ LedgerStep
<1>1. TypeOK /\ GoneOK /\ \A p \in Session : RunOK(p)
  BY DEF IInv
<1>2. TypeOK'
  BY <1>1, Weakened, Spent, IdleIsRun DEF TypeOK, Leaves, durable, Cancelled, InMode, Modes
<1>3. \A p \in Session : Weaker(p)
  BY <1>1, Weakened DEF Leaves, durable, Cancelled, InMode, Modes
<1>4. \A p \in Session : op'[p].turn => state'[p] = "turn"
  BY <1>1, TurnsMove DEF Leaves
<1>5. GoneOK'
  BY <1>1 DEF TypeOK, GoneOK, Leaves, durable, Cancelled, InMode, Modes
<1>6. \A p \in Session : Drives(p)' => Drives(p) \/ Ownership(p, "plan") = "owned"
  BY <1>1 DEF TypeOK, Drives, Leaves, durable, Cancelled, InMode, Modes
<1>7. QED
  BY <1>2, <1>3, <1>4, <1>5, <1>6, Calm DEF Leaves, durable, Cancelled, InMode, Modes

\* Forget is such a step.
LEMMA ForgetCalm == ASSUME IInv, NEW s \in Session, Forget(s) PROVE IInv' /\ LedgerStep
<1>1. TypeOK /\ GoneOK /\ \A p \in Session : RunOK(p)
  BY DEF IInv
<1>2. TypeOK'
  BY <1>1, Weakened, Spent, IdleIsRun DEF TypeOK, Forget, durable, NoRow, Modes, There
<1>3. \A p \in Session : Weaker(p)
  BY <1>1, Weakened DEF Forget, durable, NoRow, Modes, There
<1>4. \A p \in Session : op'[p].turn => state'[p] = "turn"
  BY <1>1, Weakened, ZenonT(60) DEF TypeOK, RunOK, Forget, durable, NoRow, Modes, There
<1>5. GoneOK'
  BY <1>1 DEF TypeOK, GoneOK, Forget, durable, NoRow, Modes, There
<1>6. \A p \in Session : Drives(p)' => Drives(p) \/ Ownership(p, "plan") = "owned"
  BY <1>1 DEF TypeOK, Drives, Forget, durable, NoRow, Modes, There
<1>7. QED
  BY <1>2, <1>3, <1>4, <1>5, <1>6, Calm DEF Forget, durable, NoRow, Modes, There

\* StopFails is such a step.
LEMMA StopFailsCalm == ASSUME IInv, NEW s \in Session, StopFails(s) PROVE IInv' /\ LedgerStep
<1>1. TypeOK /\ GoneOK /\ \A p \in Session : RunOK(p)
  BY DEF IInv
<1>2. TypeOK'
  BY <1>1, IdleIsRun DEF TypeOK, StopFails, durable
<1>3. \A p \in Session : Weaker(p)
  BY <1>1 DEF TypeOK, Weaker, StopFails, durable
<1>4. \A p \in Session : op'[p].turn => state'[p] = "turn"
  BY <1>1, IdleIsRun DEF TypeOK, RunOK, StopFails, durable
<1>5. GoneOK'
  BY <1>1 DEF TypeOK, GoneOK, StopFails, durable
<1>6. \A p \in Session : Drives(p)' => Drives(p) \/ Ownership(p, "plan") = "owned"
  BY <1>1 DEF TypeOK, Drives, StopFails, durable
<1>7. QED
  BY <1>2, <1>3, <1>4, <1>5, <1>6, Calm DEF StopFails, durable

\* MarkFails is such a step.
LEMMA MarkFailsCalm == ASSUME IInv, NEW s \in Session, MarkFails(s) PROVE IInv' /\ LedgerStep
<1>1. TypeOK /\ GoneOK /\ \A p \in Session : RunOK(p)
  BY DEF IInv
<1>2. TypeOK'
  BY <1>1, IdleIsRun DEF TypeOK, MarkFails, durable
<1>3. \A p \in Session : Weaker(p)
  BY <1>1 DEF TypeOK, Weaker, MarkFails, durable
<1>4. \A p \in Session : op'[p].turn => state'[p] = "turn"
  BY <1>1, IdleIsRun DEF TypeOK, RunOK, MarkFails, durable
<1>5. GoneOK'
  BY <1>1 DEF TypeOK, GoneOK, MarkFails, durable
<1>6. \A p \in Session : Drives(p)' => Drives(p) \/ Ownership(p, "plan") = "owned"
  BY <1>1 DEF TypeOK, Drives, MarkFails, durable
<1>7. QED
  BY <1>2, <1>3, <1>4, <1>5, <1>6, Calm DEF MarkFails, durable

\* A supervision request turns on only what owns the plan.
LEMMA AttachCalm == ASSUME IInv, NEW s \in Session, Attach(s) PROVE IInv' /\ LedgerStep
<1>1. TypeOK /\ GoneOK /\ \A p \in Session : RunOK(p)
  BY DEF IInv
<1>2. PICK plan \in Plans, start \in BOOLEAN : Follow(s, plan, start)
  BY DEF Attach
<1>3. left' \in Nat
  BY <1>1, Spent DEF Attach
<1>4. TypeOK'
  BY <1>1, <1>2, <1>3 DEF TypeOK, Follow, durable, Cancelled, InMode, Modes, Plans, Run
<1>5. \A p \in Session : Weaker(p) /\ (op'[p].turn => op[p].turn)
  BY <1>1, <1>2 DEF TypeOK, Weaker, Follow, Run
<1>6. \A p \in Session : op'[p].turn => state'[p] = "turn"
  BY <1>1, <1>2, <1>5 DEF RunOK, Follow
<1>7. GoneOK'
  BY <1>1, <1>2 DEF TypeOK, GoneOK, Follow, There, Cancelled, InMode
<1>8. \A p \in Session : Drives(p)' => Drives(p) \/ Ownership(p, "plan") = "owned"
  BY <1>1, <1>2 DEF TypeOK, Drives, Follow, Cancelled, InMode
<1>9. UNCHANGED durable
  BY <1>2 DEF Follow
<1>10. QED
  BY <1>4, <1>5, <1>6, <1>7, <1>8, <1>9, Calm

\* What a boot leaves of the rows it reads.
LEMMA Booted ==
    ASSUME TypeOK, NEW rows \in [Session -> [plan : Plans \cup {"none"}, mode : Modes]], Reboot(rows)
    PROVE  /\ state' \in [Session -> {"down", "ready", "turn", "gone"}]
           /\ follows' \in [Session -> Plans \cup {"none"}] /\ send' \in Session \cup {None}
           /\ row' \in [Session -> [plan : Plans \cup {"none"}, mode : Modes]]
           /\ op' \in [Session -> [on : BOOLEAN, epoch : Nat, todo : SUBSET Session,
                                   at : Session \cup {None}, turn : BOOLEAN, same : BOOLEAN]]
           /\ \A p \in Session :
                /\ op'[p] = Idle
                /\ state'[p] = "gone" => state[p] = "gone"
                /\ row'[p].plan = rows[p].plan
                /\ Drives(p)' => rows[p].plan = "plan" /\ rows[p].mode = "on"
  BY IdleIsRun DEF TypeOK, Reboot, There, Withdrawn, InMode, Drives, Modes

\* A boot over the rows as they are is such a step.
LEMMA RestartCalm == ASSUME IInv, Restart PROVE IInv' /\ LedgerStep
<1>1. TypeOK /\ GoneOK /\ Reboot(row) /\ UNCHANGED durable /\ left' \in Nat
  BY Spent DEF IInv, Restart
<1>2. row \in [Session -> [plan : Plans \cup {"none"}, mode : Modes]]
  BY <1>1 DEF TypeOK
<1>3. TypeOK'
  BY <1>1, <1>2, Booted DEF TypeOK, durable
<1>4. \A p \in Session : Weaker(p) /\ ~op'[p].turn
  BY <1>1, <1>2, Booted, IdleIsRun DEF Weaker
<1>5. GoneOK'
  BY <1>1, <1>2, Booted DEF GoneOK
<1>6. \A p \in Session : Drives(p)' => Drives(p)
  BY <1>1, <1>2, Booted DEF Drives
<1>7. QED
  BY <1>1, <1>3, <1>4, <1>5, <1>6, Calm

-----------------------------------------------------------------------------
(* ------------------------- the steps of a takeover --------------------- *)
\* While the reservation stays, only a session that was fenced is marked, and
\* nothing starts to drive the plan.
LEMMA Marked ==
    ASSUME IInv, TypeOK', UNCHANGED <<claim, regranted, row, state>>,
           \A s \in Session : RunOK(s)' /\ (op'[s].on => op[s].on /\ op'[s].epoch = op[s].epoch),
           \A s \in Session : retired'[s] = "stopped" => retired[s] = "stopped"
                \/ (claim.phase = "stopping" /\ \E o \in Session \ {s} : Holds(o)),
           claim.owner = None => UNCHANGED retired
    PROVE  IInv'
<1>1. ClaimOK' /\ GoneOK'
  BY DEF IInv, ClaimOK, GoneOK
<1>2. \A o \in Session : Holds(o)' => Holds(o)
  BY DEF Holds, Current
<1>3. FencedOK'
  BY <1>2 DEF IInv, FencedOK, Drives
<1>4. StoppedOK'
  BY DEF IInv, FencedOK, StoppedOK, Drives
<1>5. QED
  BY <1>1, <1>3, <1>4 DEF IInv

\* The state of the session that is stopped is not read by what is marked.
LEMMA StopOkKeeps == ASSUME IInv, NEW s \in Session, StopOk(s) PROVE IInv' /\ LedgerStep
<1>1. TypeOK /\ \A p \in Session : RunOK(p)
  BY DEF IInv
<1>2. PICK p \in op[s].todo :
        /\ There(p) /\ state' = [state EXCEPT ![p] = "down"]
        /\ op' = [op EXCEPT ![s] = Stopping(@, p, @.todo), ![p] = Run(@, FALSE, FALSE)]
  BY DEF StopOk
<1>3. p \in Session /\ p # s /\ p \in op[s].todo /\ op[s].on /\ UNCHANGED <<durable, follows, row, send, left>>
  BY <1>1, <1>2 DEF TypeOK, RunOK, StopOk
<1>4. TypeOK'
  BY <1>1, <1>2, <1>3, ZenonT(60) DEF TypeOK, Stopping, Run, durable
<1>5. \A q \in Session : /\ op'[q].on = op[q].on /\ op'[q].epoch = op[q].epoch
                         /\ op'[q].todo = op[q].todo
                         /\ op'[q].same => op[q].same
                         /\ op'[q].turn => op[q].turn /\ q # p
                         /\ q # s => op'[q].at = op[q].at
                         /\ q # p => op'[q].turn = op[q].turn /\ op'[q].same = op[q].same
  BY <1>1, <1>2, <1>3 DEF TypeOK, Stopping, Run
<1>6. op'[s].at = p
  BY <1>1, <1>2, <1>3 DEF TypeOK, Stopping, Run
<1>7. \A q \in Session : RunOK(q)'
  <2>1. SUFFICES ASSUME NEW q \in Session PROVE RunOK(q)'
    OBVIOUS
  <2>2. op'[q].turn => state'[q] = "turn"
    <3>1. op'[q].turn => op[q].turn /\ q # p
      BY <1>5
    <3>2. op[q].turn => state[q] = "turn"
      BY <1>1 DEF RunOK
    <3>3. q # p => state'[q] = state[q]
      BY <1>1, <1>2 DEF TypeOK
    <3>4. QED
      BY <3>1, <3>2, <3>3
  <2>3. op'[q].at # None => op'[q].on /\ op'[q].at \in op'[q].todo
    BY <1>1, <1>3, <1>5, <1>6 DEF RunOK
  <2>4. q \notin op'[q].todo
    BY <1>1, <1>5 DEF RunOK
  <2>5. op'[q].on /\ op'[q].turn /\ op'[q].same => Current(q)'
    BY <1>1, <1>3, <1>5 DEF RunOK, Current, durable
  <2>6. QED
    BY <2>2, <2>3, <2>4, <2>5 DEF RunOK
<1>8. ClaimOK' /\ GoneOK'
  BY <1>1, <1>2, <1>3 DEF IInv, TypeOK, ClaimOK, GoneOK, There, durable
<1>9. \A o \in Session : Holds(o)' => Holds(o)
  BY <1>3, <1>5 DEF Holds, Current, durable
<1>10. FencedOK'
  BY <1>3, <1>9 DEF IInv, FencedOK, Drives, durable
<1>11. StoppedOK'
  BY <1>3 DEF IInv, StoppedOK, Drives, durable
<1>12. \A q \in Session : \/ Requests'[q] \in {"none", Requests[q]}
                          \/ Requests[q] = "stands" /\ Requests'[q] = "withdrawn"
  BY <1>5 DEF Requests
<1>13. Requests' \in [Session -> {"none", "stands", "withdrawn"}]
  BY DEF Requests
<1>14. LedgerStep
  BY <1>3, <1>12, <1>13 DEF LedgerStep, Ledger!Next, Ledger!Withdraw, durable
<1>15. QED
  BY <1>4, <1>7, <1>8, <1>10, <1>11, <1>14 DEF IInv

\* A run that is the last owner's and stops sessions holds the reservation.
LEMMA Holder ==
    ASSUME IInv, NEW s \in Session, op[s].at # None, Current(s)
    PROVE  /\ Holds(s) /\ claim.owner = s /\ claim.phase = "stopping" /\ claim.owner # None
           /\ op[s].on /\ op[s].at \in Session \ {s} /\ op[s].at \in op[s].todo
  BY SessionAssumption DEF IInv, TypeOK, RunOK, Holds, Current

\* A mark in between leaves the reservation to its run.
LEMMA MarkNextKeeps == ASSUME IInv, NEW s \in Session, MarkNext(s) PROVE IInv' /\ LedgerStep
<1>1. TypeOK /\ \A q \in Session : RunOK(q)
  BY DEF IInv
<1>2. /\ op[s].at \in Session \ {s} /\ op[s].on /\ Holds(s)
      /\ claim.owner # None /\ claim.phase = "stopping"
  BY Holder DEF MarkNext
<1>3. TypeOK'
  BY <1>1, <1>2 DEF TypeOK, MarkNext, Stopping
<1>4. \A q \in Session : /\ op'[q].on = op[q].on /\ op'[q].epoch = op[q].epoch
                         /\ op'[q].turn = op[q].turn /\ op'[q].same = op[q].same
                         /\ q # s => op'[q] = op[q]
  BY <1>1 DEF TypeOK, MarkNext, Stopping
<1>5. op'[s].at = None /\ op'[s].todo = op[s].todo \ {op[s].at}
  BY <1>1 DEF TypeOK, MarkNext, Stopping
<1>6. UNCHANGED <<claim, regranted, row, state>>
  BY DEF MarkNext
<1>7. \A q \in Session : RunOK(q)'
  BY <1>1, <1>4, <1>5, <1>6 DEF RunOK, Current
<1>8. \A q \in Session : retired'[q] = "stopped" => retired[q] = "stopped"
        \/ (claim.phase = "stopping" /\ \E o \in Session \ {q} : Holds(o))
  BY <1>1, <1>2 DEF TypeOK, MarkNext
<1>9. IInv'
  BY <1>2, <1>3, <1>4, <1>6, <1>7, <1>8, Marked
<1>10. Requests' = Requests
  BY <1>4 DEF Requests
<1>11. QED
  BY <1>6, <1>9, <1>10 DEF LedgerStep

\* A refusal leaves the reservation without a run.
LEMMA MarkRefusedKeeps == ASSUME IInv, NEW s \in Session, MarkRefused(s) PROVE IInv' /\ LedgerStep
<1>1. TypeOK /\ \A q \in Session : RunOK(q)
  BY DEF IInv
<1>2. /\ op[s].at \in Session \ {s} /\ op[s].on /\ Holds(s)
      /\ claim.owner # None /\ claim.phase = "stopping"
  BY Holder DEF MarkRefused
<1>3. TypeOK'
  BY <1>1, <1>2, IdleIsRun DEF TypeOK, MarkRefused
<1>4. op'[s] = Idle /\ \A q \in Session \ {s} : op'[q] = op[q]
  BY <1>1 DEF TypeOK, MarkRefused
<1>5. UNCHANGED <<claim, regranted, row, state>>
  BY DEF MarkRefused
<1>6. \A q \in Session : RunOK(q)' /\ Weaker(q)
  BY <1>1, <1>4, <1>5, IdleIsRun DEF RunOK, Current, Weaker
<1>7. \A q \in Session : op'[q].on => op[q].on /\ op'[q].epoch = op[q].epoch
  BY <1>4, IdleIsRun
<1>8. \A q \in Session : retired'[q] = "stopped" => retired[q] = "stopped"
        \/ (claim.phase = "stopping" /\ \E o \in Session \ {q} : Holds(o))
  BY <1>1, <1>2 DEF TypeOK, MarkRefused
<1>9. IInv'
  BY <1>2, <1>3, <1>5, <1>6, <1>7, <1>8, Marked
<1>10. QED
  BY <1>1, <1>5, <1>6, <1>9, OnlyWithdrawn

\* The last mark grants the plan: everybody else was fenced by this takeover or
\* an earlier one.
LEMMA MarkLastKeeps == ASSUME IInv, NEW s \in Session, MarkLast(s) PROVE IInv' /\ LedgerStep
<1>1. TypeOK /\ ClaimOK /\ GoneOK /\ FencedOK /\ StoppedOK /\ \A q \in Session : RunOK(q)
  BY DEF IInv
<1>2. /\ op[s].at \in Session \ {s} /\ op[s].on /\ Holds(s)
      /\ claim.owner = s /\ claim.phase = "stopping" /\ s # None
  BY Holder DEF MarkLast
<1>3. state[s] = "turn" /\ op[s].turn /\ op[s].same
  BY <1>1 DEF MarkLast, Stands, RunOK
<1>4. /\ claim'.owner = s /\ claim'.epoch = claim.epoch /\ claim'.phase = "ready"
      /\ row' = [row EXCEPT ![s] = Supervising] /\ UNCHANGED <<state, follows, send, left>>
      /\ retired' = [retired EXCEPT ![op[s].at] = "stopped"]
  BY <1>2 DEF MarkLast, Granted
<1>5. regranted' = IF retired[s] = "stopped" THEN regranted \cup {s} ELSE regranted
  BY DEF MarkLast, Granted
<1>6. op'[s] = Idle /\ \A q \in Session \ {s} : op'[q] = op[q]
  BY <1>1 DEF TypeOK, MarkLast
<1>7. TypeOK'
  BY <1>1, <1>2, IdleIsRun DEF TypeOK, MarkLast, Granted, Supervising, Plans, Modes
<1>8. ClaimOK' /\ GoneOK'
  BY <1>1, <1>2, <1>3, <1>4 DEF TypeOK, ClaimOK, GoneOK
<1>9. \A q \in Session : RunOK(q)'
  BY <1>1, <1>2, <1>4, <1>6, IdleIsRun DEF RunOK, Current
<1>10. \A q \in Session \ {s} : Drives(q)' => q \in regranted
  BY <1>1, <1>2, <1>4 DEF TypeOK, FencedOK, Drives
<1>11. FencedOK'
  BY <1>4, <1>5, <1>10 DEF FencedOK, Holds
<1>12. StoppedOK'
  BY <1>1, <1>2, <1>4, <1>5, <1>10 DEF TypeOK, StoppedOK
<1>13. Ledger!Grant(s)
  <2>1. Requests[s] = "stands"
    BY <1>2, <1>3 DEF Requests
  <2>2. Requests' = [Requests EXCEPT ![s] = "none"]
    BY <1>6, IdleIsRun DEF Requests
  <2>3. QED
    BY <1>2, <1>4, <2>1, <2>2 DEF Ledger!Grant
<1>14. QED
  BY <1>7, <1>8, <1>9, <1>11, <1>12, <1>13 DEF IInv, LedgerStep, Ledger!Next

\* Where a takeover is admitted, no request of another session stands, and the
\* predecessors it does not stop were stopped before.
LEMMA Admission ==
    ASSUME IInv, NEW s \in Session, Admitted(s)
    PROVE  /\ state[s] = "turn" /\ follows[s] = "plan" /\ ~op[s].on /\ s # None
           /\ \A q \in Session : ~(op[q].on /\ op[q].turn /\ op[q].same)
           /\ \A q \in Session \ {s} : Drives(q) => q \in Running(s) \/ q \in regranted
           /\ Running(s) \subseteq Session \ {s} /\ Predecessors(s) \subseteq Session \ {s}
           /\ Reserved(s) \in [owner : {s}, epoch : Nat, phase : {"stopping"}]
           /\ ~Ledger!Contested(s) /\ Requests[s] = "none"
           /\ IF claim.owner = s THEN claim.phase = "stopping" /\ Reserved(s) = claim
                                 ELSE Reserved(s).epoch = claim.epoch + 1
<1>1. TypeOK /\ ClaimOK /\ GoneOK /\ StoppedOK /\ \A q \in Session : RunOK(q)
  BY DEF IInv
<1>2. state[s] = "turn" /\ follows[s] = "plan" /\ ~op[s].on /\ s # None /\ ~Contested(s)
  BY SessionAssumption DEF Admitted
<1>3. \A q \in Session : ~(op[q].on /\ op[q].turn /\ op[q].same)
  BY <1>1, <1>2 DEF RunOK, Current, Contested
<1>4. \A q \in Session \ {s} : Drives(q) => q \in Running(s) \/ q \in regranted
  BY <1>1 DEF GoneOK, StoppedOK, Drives, Running, Predecessors, There
<1>5. Running(s) \subseteq Session \ {s} /\ Predecessors(s) \subseteq Session \ {s}
  BY DEF Running, Predecessors
<1>6. claim.owner = s => claim.phase = "stopping"
  BY <1>1, <1>2 DEF Admitted, TypeOK, ClaimOK
<1>7. Reserved(s) \in [owner : {s}, epoch : Nat, phase : {"stopping"}]
  BY <1>1, <1>6 DEF TypeOK, Reserved
<1>8. ~Ledger!Contested(s)
  BY <1>1, <1>2, <1>3 DEF Ledger!Contested, Requests, TypeOK, ClaimOK
<1>9. Requests[s] = "none"
  BY <1>2 DEF Requests
<1>10. IF claim.owner = s THEN claim.phase = "stopping" /\ Reserved(s) = claim
                          ELSE Reserved(s).epoch = claim.epoch + 1
  BY <1>6 DEF Reserved
<1>11. QED
  BY <1>2, <1>3, <1>4, <1>5, <1>7, <1>8, <1>9, <1>10

\* With nobody left to stop, whoever drives the plan was marked as stopped earlier.
LEMMA TakeOverAtOnceKeeps ==
    ASSUME IInv, NEW s \in Session, TakeOverAtOnce(s) PROVE IInv' /\ LedgerStep
<1>1. TypeOK /\ ClaimOK /\ GoneOK /\ FencedOK /\ StoppedOK /\ \A q \in Session : RunOK(q)
  BY DEF IInv
<1>2. Admitted(s) /\ Running(s) = {} /\ Granted(s, Reserved(s))
      /\ UNCHANGED <<retired, state, follows, send, op, left>>
  BY DEF TakeOverAtOnce
<1>3. /\ claim'.owner = s /\ claim'.epoch = Reserved(s).epoch /\ claim'.phase = "ready"
      /\ claim' = [owner |-> claim'.owner, epoch |-> claim'.epoch, phase |-> claim'.phase]
      /\ row' = [row EXCEPT ![s] = Supervising] /\ Reserved(s).epoch \in Nat
      /\ regranted' = IF retired[s] = "stopped" THEN regranted \cup {s} ELSE regranted
  BY <1>2, Admission DEF Granted
<1>4. TypeOK'
  BY <1>1, <1>2, <1>3 DEF TypeOK, Supervising, Plans, Modes
<1>5. ClaimOK' /\ GoneOK'
  BY <1>1, <1>2, <1>3, Admission DEF TypeOK, ClaimOK, GoneOK
<1>6. \A q \in Session : RunOK(q)'
  BY <1>1, <1>2, Admission DEF RunOK
<1>7. \A q \in Session \ {s} : Drives(q)' => q \in regranted
  BY <1>1, <1>2, <1>3, Admission DEF TypeOK, Drives
<1>8. FencedOK'
  BY <1>3, <1>7 DEF FencedOK, Holds
<1>9. StoppedOK'
  BY <1>1, <1>2, <1>3, <1>7 DEF StoppedOK
<1>10. Requests' = Requests
  BY <1>2 DEF Requests
<1>11. CASE claim.owner = s
  <2>1. Ledger!Renew(s)
    BY <1>2, <1>3, <1>10, <1>11, Admission DEF Ledger!Renew, Ledger!Asks
  <2>2. QED
    BY <1>4, <1>5, <1>6, <1>8, <1>9, <2>1 DEF IInv, LedgerStep, Ledger!Next
<1>12. CASE claim.owner # s
  <2>1. Ledger!Reserve(s)
    BY <1>2, <1>3, <1>10, <1>12, Admission DEF Ledger!Reserve, Ledger!Asks
  <2>2. QED
    BY <1>4, <1>5, <1>6, <1>8, <1>9, <2>1 DEF IInv, LedgerStep, Ledger!Next
<1>13. QED
  BY <1>11, <1>12

\* The claim and the fences come in one step, which leaves no other request standing.
LEMMA TakeOverKeeps == ASSUME IInv, NEW s \in Session, TakeOver(s) PROVE IInv' /\ LedgerStep
<1>1. TypeOK /\ ClaimOK /\ GoneOK /\ FencedOK /\ StoppedOK /\ \A q \in Session : RunOK(q)
  BY DEF IInv
<1>2. /\ Admitted(s) /\ claim' = Reserved(s) /\ retired' = Retired(Predecessors(s))
      /\ UNCHANGED <<state, follows, send, left, regranted>>
  BY DEF TakeOver
<1>3. /\ claim'.owner = s /\ claim'.epoch = Reserved(s).epoch /\ claim'.phase = "stopping"
      /\ claim' \in [owner : Session \cup {None}, epoch : Nat, phase : {"none", "stopping", "ready"}]
  BY <1>2, Admission
<1>4. retired' \in [Session -> {"no", "retired", "stopped"}]
      /\ \A q \in Session : retired'[q] = "stopped" => retired[q] = "stopped"
  BY <1>1, <1>2 DEF TypeOK, Retired
<1>5. row' \in [Session -> [plan : Plans \cup {"none"}, mode : Modes]]
      /\ \A q \in Session : /\ row'[q].plan = row[q].plan
                            /\ Drives(q)' => Drives(q) /\ q \notin Running(s)
  BY <1>1 DEF TypeOK, TakeOver, Fenced, Cancelled, InMode, Drives, Modes
<1>6. op'[s] = [on |-> TRUE, epoch |-> Reserved(s).epoch, todo |-> Running(s),
                at |-> None, turn |-> TRUE, same |-> TRUE]
  BY DEF TakeOver
<1>7. \A q \in Session \ {s} :
        op'[q] = IF q \in Fenced(s) THEN Run(op[q], op[q].turn, FALSE) ELSE op[q]
  BY DEF TakeOver
<1>8. \A q \in Session \ {s} :
        /\ op'[q] \in [on : BOOLEAN, epoch : Nat, todo : SUBSET Session,
                       at : Session \cup {None}, turn : BOOLEAN, same : BOOLEAN]
        /\ op'[q].on = op[q].on /\ op'[q].epoch = op[q].epoch
        /\ op'[q].todo = op[q].todo /\ op'[q].at = op[q].at
        /\ op'[q].turn = op[q].turn
        /\ op'[q].same => op[q].same
  <2>1. SUFFICES ASSUME NEW q \in Session \ {s}
        PROVE  /\ op'[q] \in [on : BOOLEAN, epoch : Nat, todo : SUBSET Session,
                              at : Session \cup {None}, turn : BOOLEAN, same : BOOLEAN]
               /\ op'[q].on = op[q].on /\ op'[q].epoch = op[q].epoch
               /\ op'[q].todo = op[q].todo /\ op'[q].at = op[q].at
               /\ op'[q].turn = op[q].turn
               /\ op'[q].same => op[q].same
    OBVIOUS
  <2>2. op[q] \in [on : BOOLEAN, epoch : Nat, todo : SUBSET Session,
                   at : Session \cup {None}, turn : BOOLEAN, same : BOOLEAN]
    BY <1>1 DEF TypeOK
  <2>3. CASE q \in Fenced(s)
    <3>1. op'[q] = Run(op[q], op[q].turn, FALSE)
      BY <1>7, <2>3
    <3>2. QED
      BY <2>2, <3>1 DEF Run
  <2>4. CASE q \notin Fenced(s)
    BY <1>7, <2>2, <2>4
  <2>5. QED
    BY <2>3, <2>4
<1>9. op' \in [Session -> [on : BOOLEAN, epoch : Nat, todo : SUBSET Session,
                           at : Session \cup {None}, turn : BOOLEAN, same : BOOLEAN]]
  <2>1. op'[s] \in [on : BOOLEAN, epoch : Nat, todo : SUBSET Session,
                    at : Session \cup {None}, turn : BOOLEAN, same : BOOLEAN]
    BY <1>2, <1>6, Admission
  <2>2. op' = [p \in Session |-> op'[p]]
    BY DEF TakeOver
  <2>3. QED
    BY <1>8, <2>1, <2>2
<1>10. TypeOK'
  BY <1>1, <1>2, <1>3, <1>4, <1>5, <1>9 DEF TypeOK
<1>11. ClaimOK' /\ GoneOK'
  BY <1>1, <1>2, <1>3, <1>5, Admission DEF ClaimOK, GoneOK
<1>12. \A q \in Session : RunOK(q)'
  <2>1. RunOK(s)'
    BY <1>2, <1>3, <1>6, Admission DEF RunOK, Current
  <2>2. ASSUME NEW q \in Session \ {s} PROVE RunOK(q)'
    BY <1>1, <1>2, <1>8, Admission DEF RunOK
  <2>3. QED
    BY <2>1, <2>2
<1>13. FencedOK'
  BY <1>2, <1>3, <1>5, Admission DEF FencedOK, Holds
<1>14. StoppedOK'
  BY <1>1, <1>2, <1>3, <1>4, <1>5 DEF StoppedOK
<1>15. Requests[s] = "none" /\ Requests' = [Requests EXCEPT ![s] = "stands"]
  <2>1. Requests'[s] = "stands" /\ DOMAIN Requests' = Session /\ DOMAIN Requests = Session
    BY <1>6 DEF Requests
  <2>2. \A q \in Session \ {s} : Requests'[q] = Requests[q]
    BY <1>2, <1>8, Admission DEF Requests
  <2>3. QED
    BY <1>2, <2>1, <2>2, Admission, ZenonT(60) DEF Requests
<1>16. CASE claim.owner = s
  <2>1. Ledger!Renew(s)
    BY <1>2, <1>3, <1>15, <1>16, Admission DEF Ledger!Renew, Ledger!Asks
  <2>2. QED
    BY <1>10, <1>11, <1>12, <1>13, <1>14, <2>1 DEF IInv, LedgerStep, Ledger!Next
<1>17. CASE claim.owner # s
  <2>1. Ledger!Reserve(s)
    BY <1>2, <1>3, <1>15, <1>17, Admission DEF Ledger!Reserve, Ledger!Asks
  <2>2. QED
    BY <1>10, <1>11, <1>12, <1>13, <1>14, <2>1 DEF IInv, LedgerStep, Ledger!Next
<1>18. QED
  BY <1>16, <1>17

\* A takeover torn by a crash leaves a reservation that nobody runs.
LEMMA TornTakeOverKeeps ==
    ASSUME IInv, NEW s \in Session, TornTakeOver(s) PROVE IInv' /\ LedgerStep
<1>1. TypeOK /\ ClaimOK /\ GoneOK /\ StoppedOK
  BY DEF IInv
<1>2. Admitted(s) /\ claim' = Reserved(s) /\ UNCHANGED regranted /\ left' \in Nat
  BY <1>1, Spent DEF TornTakeOver
<1>3. /\ retired' \in [Session -> {"no", "retired", "stopped"}]
      /\ \A q \in Session : retired'[q] = "stopped" => retired[q] = "stopped"
  BY <1>1 DEF TypeOK, TornTakeOver, Retired
<1>4. PICK rows \in [Session -> [plan : Plans \cup {"none"}, mode : Modes]] :
        /\ Reboot(rows)
        /\ \A q \in Session : rows[q].plan = row[q].plan
                              /\ (rows[q].mode = row[q].mode \/ rows[q].mode = "off")
  <2>1. ASSUME NEW done \in SUBSET Fenced(s),
               Reboot([p \in Session |-> IF p \in done THEN Cancelled(row[p]) ELSE row[p]])
        PROVE  \E rows \in [Session -> [plan : Plans \cup {"none"}, mode : Modes]] :
                 /\ Reboot(rows)
                 /\ \A q \in Session : rows[q].plan = row[q].plan
                                       /\ (rows[q].mode = row[q].mode \/ rows[q].mode = "off")
    <3> DEFINE rows == [p \in Session |-> IF p \in done THEN Cancelled(row[p]) ELSE row[p]]
    <3>1. rows \in [Session -> [plan : Plans \cup {"none"}, mode : Modes]]
      BY <1>1 DEF TypeOK, Cancelled, InMode, Modes
    <3>2. \A q \in Session : rows[q].plan = row[q].plan
                             /\ (rows[q].mode = row[q].mode \/ rows[q].mode = "off")
      BY DEF Cancelled, InMode
    <3>3. Reboot(rows)
      BY <2>1
    <3> HIDE DEF rows
    <3>4. QED
      BY <3>1, <3>2, <3>3
  <2>2. row \in [Session -> [plan : Plans \cup {"none"}, mode : Modes]]
    BY <1>1 DEF TypeOK
  <2>3. QED
    BY <2>1, <2>2 DEF TornTakeOver
<1>5. /\ claim'.owner = s /\ claim'.epoch = Reserved(s).epoch /\ claim'.phase = "stopping"
      /\ claim' \in [owner : Session \cup {None}, epoch : Nat, phase : {"none", "stopping", "ready"}]
  BY <1>2, Admission
<1>6. TypeOK'
  BY <1>1, <1>2, <1>3, <1>4, <1>5, Booted DEF TypeOK
<1>7. \A q \in Session : op'[q] = Idle /\ (Drives(q)' => Drives(q))
  BY <1>1, <1>4, Booted DEF Drives
<1>8. ClaimOK' /\ GoneOK'
  BY <1>1, <1>2, <1>4, <1>5, Booted, Admission, SMTT(40) DEF ClaimOK, GoneOK
<1>9. \A q \in Session : RunOK(q)' /\ ~Holds(q)'
  BY <1>5, <1>7, IdleIsRun DEF RunOK, Holds
<1>10. FencedOK' /\ StoppedOK'
  BY <1>1, <1>2, <1>3, <1>5, <1>7, <1>9 DEF FencedOK, StoppedOK
<1>11. Requests' = Ledger!NoRequests
  BY <1>7, IdleIsRun DEF Requests, Ledger!NoRequests
<1>12. CASE claim.owner = s
  <2>1. UNCHANGED claim
    BY <1>2, <1>12, Admission
  <2>2. LedgerStep
    BY <1>1, <1>7, <2>1, OnlyWithdrawn DEF Weaker
  <2>3. QED
    BY <1>6, <1>8, <1>9, <1>10, <2>2 DEF IInv
<1>13. CASE claim.owner # s
  <2>1. Ledger!Reserve(s)
    BY <1>2, <1>5, <1>11, <1>13, Admission DEF Ledger!Reserve
  <2>2. QED
    BY <1>6, <1>8, <1>9, <1>10, <2>1 DEF IInv, LedgerStep, Ledger!Next
<1>14. QED
  BY <1>12, <1>13

-----------------------------------------------------------------------------
(* ------------------------------ the theorems --------------------------- *)
\* The initial states satisfy the inductive invariant and those of the ledger.
LEMMA InitialState == Init => IInv /\ Ledger!Init
<1>1. SUFFICES ASSUME Init PROVE IInv /\ Ledger!Init
  OBVIOUS
<1>2. row \in [Session -> [plan : Plans \cup {"none"}, mode : Modes]]
  BY <1>1 DEF Init, NoRow, Supervising, Plans, Modes
<1>3. TypeOK
  BY <1>1, <1>2, IdleIsRun, BoundsAssumption DEF Init, TypeOK, NoClaim, Plans
<1>4. ClaimOK /\ GoneOK /\ \A s \in Session : RunOK(s)
  BY <1>1, IdleIsRun, SessionAssumption DEF Init, ClaimOK, GoneOK, RunOK, NoClaim
<1>5. FencedOK /\ StoppedOK
  BY <1>1, SessionAssumption DEF Init, FencedOK, StoppedOK, Holds, NoClaim
<1>6. Ledger!Init
  BY <1>1, IdleIsRun DEF Init, Ledger!Init, Ledger!NoRequests, NoClaim, Requests
<1>7. QED
  BY <1>3, <1>4, <1>5, <1>6 DEF IInv

\* Every step keeps the inductive invariant and is a step of the ledger.
LEMMA Inductive == IInv /\ [Next]_vars => IInv' /\ LedgerStep
<1>1. SUFFICES ASSUME IInv, [Next]_vars PROVE IInv' /\ LedgerStep
  OBVIOUS
<1>2. CASE UNCHANGED vars
  <2>1. UNCHANGED <<claim, retired, state, follows, row, send, op, left, regranted>>
    BY <1>2 DEF vars
  <2>2. IInv'
    BY <1>1, <2>1 DEF IInv, TypeOK, ClaimOK, GoneOK, RunOK, FencedOK, StoppedOK, Holds, Drives, Current
  <2>3. QED
    BY <2>1, <2>2 DEF LedgerStep, Requests
<1>3. CASE Restart
  BY <1>1, <1>3, RestartCalm
<1>5. ASSUME NEW s \in Session,
             \/ Enable(s) \/ Disable(s) \/ Pauses(s) \/ ProviderFails(s) \/ Retries(s)
             \/ Attach(s) \/ Close(s)
             \/ Send(s) \/ SendStarts(s) \/ SendFails(s) \/ AutoStarts(s)
             \/ TurnEnds(s) \/ Open(s) \/ Leaves(s) \/ Forget(s)
      PROVE  IInv' /\ LedgerStep
  BY <1>1, <1>5, EnableCalm, DisableCalm, PausesCalm, ProviderFailsCalm, RetriesCalm, AttachCalm,
     CloseCalm, SendCalm, SendStartsCalm, SendFailsCalm, AutoStartsCalm, TurnEndsCalm, OpenCalm,
     LeavesCalm, ForgetCalm
<1>6. ASSUME NEW s \in Session,
             \/ TakeOver(s) \/ TakeOverAtOnce(s) \/ TornTakeOver(s)
             \/ StopOk(s) \/ StopFails(s)
             \/ MarkFails(s) \/ MarkNext(s) \/ MarkLast(s) \/ MarkRefused(s)
      PROVE  IInv' /\ LedgerStep
  BY <1>1, <1>6, TakeOverKeeps, TakeOverAtOnceKeeps, TornTakeOverKeeps, StopOkKeeps, StopFailsCalm,
     MarkFailsCalm, MarkNextKeeps, MarkLastKeeps, MarkRefusedKeeps
<1>7. QED
  BY <1>1, <1>2, <1>3, <1>5, <1>6 DEF Next

\* The inductive invariant holds.
LEMMA Invariance == Spec => []IInv
<1>1. Init => IInv
  BY InitialState
<1>2. IInv /\ [Next]_vars => IInv'
  BY Inductive
<1>3. QED
  BY <1>1, <1>2, PTL DEF Spec

\* Every variable holds a value of its kind (Takeover!TypeOK).
THEOREM TypeCorrect == Spec => []TypeOK
<1>1. IInv => TypeOK
  BY DEF IInv
<1>2. QED
  BY <1>1, Invariance, PTL

\* Once a takeover is granted, no other session's Autopilot drives the plan, but
\* for one granted the plan although it was marked as stopped: run() claims and
\* fences before it awaits, and only the owner's requests turn a row on.
THEOREM OneSupervisorHolds == Spec => []OneSupervisor
<1>1. IInv => OneSupervisor
  <2>1. SUFFICES ASSUME IInv, claim.phase = "ready" PROVE \A s \in Session :
                   s # claim.owner /\ Drives(s) => s \in regranted
    BY DEF OneSupervisor
  <2>2. claim.owner \in Session
    BY <2>1 DEF IInv, TypeOK, ClaimOK
  <2>3. QED
    BY <2>1, <2>2 DEF IInv, FencedOK, Holds
<1>2. QED
  BY <1>1, Invariance, PTL

\* The reservation behaves as TakeoverLedger says: an epoch is granted once, to
\* its session, on a request that still stands.
THEOREM ImplementsLedger == Spec => LedgerSpec
<1>1. Init => Ledger!Init
  BY InitialState
<1>2. IInv /\ [Next]_vars => [Ledger!Next]_(Ledger!vars)
  BY Inductive DEF LedgerStep, Ledger!vars
<1>3. QED
  BY <1>1, <1>2, Invariance, PTL DEF Spec, LedgerSpec, Ledger!Spec
================================================================================
