------------------------ MODULE CheckpointHandoff_proofs ------------------------
(***************************************************************************)
(* Theorems of CheckpointHandoff for every set of child steps and every    *)
(* bound. The first lemmas say what the operators return, field by field:  *)
(* the durable checkpoints, the process, the rows, and what fail() makes   *)
(* of them (Follows). Four lemmas then say which changes of the durable    *)
(* checkpoints keep the epochs in order and are steps of the ledger: none  *)
(* to a boundary (KeepsStep), a release (ReleasesStep), a record           *)
(* (RecordsStep), an observed plan (ObservesStep). Every action has a      *)
(* lemma that finds which of them it is.                                   *)
(***************************************************************************)
EXTENDS CheckpointHandoff, FiniteSetTheorems, TLAPS

\* what fail() and failPending() read and write, typed
Settlings == [rows : [Request -> Rows], ctl : Controls, armed : SUBSET Request,
              proc : Procs, recoveries : SUBSET Recoveries]

\* the completions stay as they are
SameEpochs(c) ==
    /\ c.epochs = ctl.epochs /\ c.accepted = ctl.accepted /\ c.terminal = ctl.terminal
    /\ c.identity = ctl.identity /\ c.supervised = ctl.supervised

\* the pending boundary stays as it is
SameBoundary(c) == c.pending = ctl.pending /\ c.target = ctl.target

\* the boundary that occupies the hand-off, from the three fields it is read from
Occupying(pending, target, accepted) ==
    IF pending = NoTurn THEN NoBoundary
    ELSE CHOOSE b \in accepted : b[1] = target /\ \A o \in accepted : o[1] = b[1] => o[2] <= b[2]

\* the boundary that occupies the hand-off now
Current == Occupying(ctl.pending, ctl.target, ctl.accepted)

\* what the ledger makes of a step
LedgerStep == [Ledger!Next]_<<ctl.accepted, Current>>

\* d is c, with its boundary flagged or not
SameButFailed(c, d) ==
    /\ d.identity = c.identity /\ d.supervised = c.supervised /\ d.pending = c.pending
    /\ d.target = c.target /\ d.terminal = c.terminal /\ d.epochs = c.epochs
    /\ d.accepted = c.accepted /\ (c.failed => d.failed)

\* what OncePerCompletion says of a step
OnceStep ==
    \A t \in Target : ctl'.accepted # ctl.accepted /\ ctl'.target = t => t \in reopened

\* what ReleasedByItsFinal says of a step
ReleaseStep ==
    ctl.pending # NoTurn /\ ctl'.pending = NoTurn =>
        session.turn = ctl.pending \/ recoveries' # recoveries \/ relay = "booting"

\* what every step is shown to be
StepOK == LedgerStep /\ OnceStep /\ ReleaseStep

\* The bounds are numbers; no turn is the number 0.
LEMMA ConstantFacts ==
    /\ MaxPlans \in Nat \ {0} /\ MaxRequests \in Nat \ {0} /\ MaxProcs \in Nat \ {0}
    /\ MaxTurns \in Nat \ {0} /\ MaxEpoch \in Nat /\ MaxCrashes \in Nat
    /\ NoTurn = 0 /\ NoTurn \in 0 .. MaxTurns
  BY BoundsAssumption DEF NoTurn

\* The child steps, the milestone and the terminal review are different targets.
LEMMA TargetFacts ==
    /\ "milestone" \in Target /\ "terminal" \in Target /\ "none" \notin Target
    /\ \A t \in Step : t \in Target /\ t # "milestone" /\ t # "terminal"
  BY StepAssumption DEF Target

\* The fields of the durable checkpoints.
LEMMA ControlFields ==
    ASSUME NEW c \in Controls
    PROVE  /\ c.identity \in 0 .. MaxPlans /\ c.supervised \in 1 .. MaxPlans
           /\ c.pending \in 0 .. MaxTurns /\ c.target \in Target \cup {"none"}
           /\ c.failed \in BOOLEAN /\ c.terminal \in BOOLEAN /\ c.epochs \in Epochs
           /\ c.accepted \in SUBSET (Target \X (0 .. MaxEpoch))
  BY DEF Controls

\* The fields of an epoch.
LEMMA EpochFields ==
    ASSUME NEW c \in Controls, NEW t \in Target
    PROVE  /\ c.epochs[t].epoch \in 0 .. MaxEpoch /\ c.epochs[t].reopened \in BOOLEAN
           /\ c.epochs[t].completed \in BOOLEAN
           /\ c.epochs[t] \in [epoch : 0 .. MaxEpoch, reopened : BOOLEAN, completed : BOOLEAN]
  BY ControlFields DEF Epochs

\* The fields of a process.
LEMMA ProcFields ==
    ASSUME NEW p \in Procs
    PROVE  /\ p.gen \in 0 .. MaxProcs /\ p.up \in BOOLEAN /\ p.next \in 1 .. MaxRequests + 1
           /\ p.turn \in 0 .. MaxTurns /\ p.held \in [Request -> Holdings]
  BY DEF Procs

\* The fields of a row.
LEMMA RowFields ==
    ASSUME NEW rs \in [Request -> Rows], NEW r \in Request
    PROVE  /\ rs[r].state \in {"none", "open", "answered", "failed", "dismissed"}
           /\ rs[r].turn \in 0 .. MaxTurns
  BY DEF Rows

\* Flagging the boundary of a turn changes nothing else.
LEMMA FlaggedIs ==
    ASSUME NEW c \in Controls, NEW turn
    PROVE  /\ Flagged(c, turn) \in Controls
           /\ SameButFailed(c, Flagged(c, turn))
           /\ c.pending # NoTurn /\ c.pending = turn => Flagged(c, turn).failed
  BY ControlFields DEF Flagged, Controls, SameButFailed

\* A final leaves the checkpoints alone, or releases the boundary of its own
\* turn; a recovery asks for no turn.
LEMMA ReleasedIs ==
    ASSUME NEW c \in Controls, NEW turn
    PROVE  /\ Released(c, turn) \in Controls
           /\ Released(c, turn).identity = c.identity /\ Released(c, turn).supervised = c.supervised
           /\ Released(c, turn).epochs = c.epochs /\ Released(c, turn).accepted = c.accepted
           /\ Released(c, turn).terminal = c.terminal
           /\ \/ Released(c, turn) = c
              \/ Released(c, turn).pending = NoTurn /\ turn \in {NoTurn, c.pending}
  BY ControlFields, ConstantFacts, ZenonT(60) DEF Released, ReleasedByAny, Controls

\* A recovery releases the boundary or leaves it flagged.
LEMMA RecoveredIs ==
    ASSUME NEW c \in Controls
    PROVE  /\ Recovered(c) \in Controls
           /\ Recovered(c).identity = c.identity /\ Recovered(c).supervised = c.supervised
           /\ Recovered(c).epochs = c.epochs /\ Recovered(c).accepted = c.accepted
           /\ Recovered(c).terminal = c.terminal
           /\ \/ Recovered(c).pending = NoTurn
              \/ /\ Recovered(c).pending = c.pending /\ Recovered(c).target = c.target
                 /\ Recovered(c).failed
<1> DEFINE f == Flagged(c, c.pending)
<1>1. CASE c.pending = NoTurn
  BY <1>1 DEF Recovered
<1>2. CASE c.pending # NoTurn
  <2>1. /\ f \in Controls /\ f.identity = c.identity /\ f.supervised = c.supervised
        /\ f.pending = c.pending /\ f.target = c.target /\ f.epochs = c.epochs
        /\ f.accepted = c.accepted /\ f.terminal = c.terminal /\ f.failed
    BY <1>2, FlaggedIs DEF SameButFailed
  <2>2. Recovered(c) = Released(f, NoTurn)
    BY <1>2 DEF Recovered
  <2> HIDE DEF f
  <2>3. QED
    BY <2>1, <2>2, ReleasedIs
<1>3. QED
  BY <1>1, <1>2

\* c is the durable checkpoints after the boundary t of a turn was recorded
Records(c, t, turn) ==
    /\ c \in Controls /\ c.pending = turn /\ c.target = t
    /\ c.accepted = ctl.accepted \cup {Key(t)}
    /\ \A o \in Target : o # t => c.epochs[o] = ctl.epochs[o]
    /\ c.epochs[t].epoch = ctl.epochs[t].epoch
    /\ c.epochs[t].completed /\ ~c.epochs[t].reopened
    /\ c.terminal => ctl.terminal \/ t = "terminal"

\* checkpointAccepted records the boundary, and no other.
LEMMA AcceptedIs ==
    ASSUME TypeOK, NEW t \in Target, NEW turn \in 0 .. MaxTurns
    PROVE  Records(Accepted(t, turn), t, turn)
<1> DEFINE e == [ctl.epochs[t] EXCEPT !.reopened = FALSE, !.completed = TRUE]
<1> DEFINE es == [ctl.epochs EXCEPT ![t] = e]
<1> DEFINE term == ctl.terminal \/ t = "terminal"
<1>1. ctl \in Controls /\ plan.identity \in 0 .. MaxPlans
  BY ConstantFacts DEF TypeOK, Plans
<1>2. /\ e \in [epoch : 0 .. MaxEpoch, reopened : BOOLEAN, completed : BOOLEAN]
      /\ e.epoch = ctl.epochs[t].epoch /\ e.completed = TRUE /\ e.reopened = FALSE
  BY <1>1, EpochFields
<1>3. /\ [ctl.epochs EXCEPT ![t] = e] \in Epochs /\ [ctl.epochs EXCEPT ![t] = e][t] = e
      /\ \A o \in Target : o # t => [ctl.epochs EXCEPT ![t] = e][o] = ctl.epochs[o]
  BY <1>1, <1>2, ControlFields DEF Epochs
<1>4. Key(t) \in Target \X (0 .. MaxEpoch)
  BY <1>1, EpochFields DEF Key
<1>5. Accepted(t, turn) = [ctl EXCEPT !.identity = plan.identity,
                !.epochs = es,
                !.accepted = ctl.accepted \cup {Key(t)},
                !.pending = turn, !.target = t, !.failed = FALSE,
                !.terminal = term]
  BY <1>1 DEF Accepted, Controls
<1> HIDE DEF e
<1>6. Accepted(t, turn).epochs = es /\ Accepted(t, turn).accepted = ctl.accepted \cup {Key(t)}
  BY <1>1, <1>5 DEF Controls
<1>7. /\ Accepted(t, turn).pending = turn /\ Accepted(t, turn).target = t
      /\ Accepted(t, turn).failed = FALSE
      /\ Accepted(t, turn).terminal = (ctl.terminal \/ t = "terminal")
  BY <1>1, <1>5 DEF Controls
<1>8. /\ es \in Epochs /\ ctl.accepted \cup {Key(t)} \in SUBSET (Target \X (0 .. MaxEpoch))
      /\ term \in BOOLEAN
  BY <1>1, <1>3, <1>4, ControlFields
<1> HIDE DEF es, term
<1>9. Accepted(t, turn) \in Controls
  BY <1>1, <1>5, <1>8, ZenonT(60) DEF Controls
<1> USE DEF es, term
<1>10. QED
  BY <1>2, <1>3, <1>6, <1>7, <1>8, <1>9 DEF Records

\* A step that leaves the epochs and the boundary as they are keeps them in
\* order, and is a stutter of the ledger.
LEMMA KeepsStep ==
    ASSUME TypeOK, EpochsOK, PendingOK, UNCHANGED reopened, SameEpochs(ctl'), SameBoundary(ctl')
    PROVE  EpochsOK' /\ PendingOK' /\ StepOK
<1>1. EpochsOK'
  BY DEF SameEpochs, EpochsOK, Key
<1>2. PendingOK'
  BY DEF SameEpochs, SameBoundary, PendingOK, Latest
<1>3. UNCHANGED <<ctl.accepted, Current>>
  BY DEF SameEpochs, SameBoundary, Current
<1>4. OnceStep /\ ReleaseStep
  BY DEF SameEpochs, SameBoundary, OnceStep, ReleaseStep
<1>5. QED
  BY <1>1, <1>2, <1>3, <1>4 DEF StepOK, LedgerStep

\* A pending boundary is one that was recorded, and it occupies the hand-off.
LEMMA LatestIs ==
    ASSUME TypeOK, PendingOK, ctl.pending # NoTurn
    PROVE  Current \in ctl.accepted /\ Current # NoBoundary
<1>1. PICK b \in ctl.accepted : Latest(b)
  BY DEF PendingOK
<1>2. Current \in ctl.accepted
  BY <1>1 DEF Current, Occupying, Latest
<1>3. ctl.accepted \subseteq Target \X (0 .. MaxEpoch)
  BY ControlFields DEF TypeOK
<1>4. QED
  BY <1>2, <1>3, TargetFacts DEF NoBoundary

\* A release of the boundary keeps the epochs in order and is a release of the
\* ledger.
LEMMA ReleasesStep ==
    ASSUME TypeOK, EpochsOK, PendingOK, UNCHANGED reopened, SameEpochs(ctl'), ctl'.pending = NoTurn,
           session.turn = ctl.pending \/ recoveries' # recoveries \/ relay = "booting"
    PROVE  EpochsOK' /\ PendingOK' /\ StepOK
<1>1. EpochsOK'
  BY DEF SameEpochs, EpochsOK, Key
<1>2. PendingOK'
  BY DEF PendingOK
<1>3. OnceStep /\ ReleaseStep
  BY DEF SameEpochs, OnceStep, ReleaseStep
<1>4. Current' = NoBoundary
  BY DEF Current, Occupying
<1>5. LedgerStep
  <2>1. CASE ctl.pending = NoTurn
    BY <1>4, <2>1 DEF LedgerStep, SameEpochs, Current, Occupying
  <2>2. CASE ctl.pending # NoTurn
    <3>1. Current # NoBoundary
      BY <2>2, LatestIs
    <3>2. ctl'.accepted = ctl.accepted
      BY DEF SameEpochs
    <3>3. Ledger!Release
      BY <1>4, <3>1, <3>2 DEF Ledger!Release, Current, Occupying, Latest
    <3>4. QED
      BY <3>3 DEF LedgerStep, Ledger!Next
  <2>3. QED
    BY <2>1, <2>2
<1>6. QED
  BY <1>1, <1>2, <1>3, <1>5 DEF StepOK

\* A record keeps the epochs in order and is a record of the ledger: the key is
\* new, it becomes the latest of its target, and the target was seen incomplete
\* since the last one.
LEMMA RecordsStep ==
    ASSUME TypeOK, EpochsOK, PendingOK, NEW t \in Target, Outcome(t) = "recorded",
           NEW turn \in 1 .. MaxTurns,
           reopened' = reopened \ {t},
           Records(ctl', t, turn)
    PROVE  EpochsOK' /\ PendingOK' /\ StepOK
<1>1. /\ Key(t) \notin ctl.accepted /\ ~(t = "terminal" /\ ctl.terminal)
      /\ ~(ctl.epochs[t].completed /\ ~ctl.epochs[t].reopened) /\ ctl.pending = NoTurn
  BY DEF Outcome
<1>2. /\ ctl'.pending = turn /\ ctl'.target = t
      /\ ctl'.accepted = ctl.accepted \cup {Key(t)}
      /\ \A o \in Target : o # t => ctl'.epochs[o] = ctl.epochs[o]
      /\ ctl'.epochs[t].epoch = ctl.epochs[t].epoch
      /\ ctl'.epochs[t].completed /\ ~ctl'.epochs[t].reopened
      /\ ctl'.terminal => ctl.terminal \/ t = "terminal"
  BY DEF Records
<1>3. ~ctl.epochs[t].completed /\ t \in reopened
  BY <1>1 DEF EpochsOK
<1>4. ctl.accepted \subseteq Target \X (0 .. MaxEpoch) /\ ctl.epochs[t].epoch \in 0 .. MaxEpoch
  BY ControlFields, EpochFields DEF TypeOK
<1>5. Key(t) = <<t, ctl.epochs[t].epoch>>
  BY DEF Key
<1>6. EpochsOK'
  <2>1. ASSUME NEW o \in Target
        PROVE  /\ ctl'.epochs[o].completed => ~ctl'.epochs[o].reopened
               /\ Key(o)' \in ctl'.accepted => ctl'.epochs[o].completed
               /\ o \in reopened' <=> ~ctl'.epochs[o].completed
    BY <1>2, <1>5 DEF EpochsOK, Key
  <2>2. ASSUME NEW b \in ctl'.accepted PROVE b[2] <= ctl'.epochs[b[1]].epoch
    <3>1. CASE b = Key(t)
      BY <1>2, <1>4, <1>5, <3>1
    <3>2. CASE b \in ctl.accepted
      <4>1. b[2] <= ctl.epochs[b[1]].epoch /\ b[1] \in Target
        BY <1>4, <3>2 DEF EpochsOK
      <4>2. ctl'.epochs[b[1]].epoch = ctl.epochs[b[1]].epoch
        BY <1>2, <4>1
      <4>3. QED
        BY <4>1, <4>2
    <3>3. QED
      BY <1>2, <3>1, <3>2
  <2>3. "terminal" \in reopened' => ~ctl'.terminal
    BY <1>2 DEF EpochsOK
  <2>4. QED
    BY <2>1, <2>2, <2>3 DEF EpochsOK
<1>7. ASSUME NEW o \in ctl'.accepted, o[1] = t PROVE o[2] <= ctl.epochs[t].epoch
  BY <1>2, <1>4, <1>5, <1>7 DEF EpochsOK
<1>8. PendingOK'
  <2>1. Key(t) \in ctl'.accepted /\ Key(t)[1] = t /\ Key(t)[2] = ctl.epochs[t].epoch
    BY <1>2, <1>5
  <2>2. QED
    BY <1>2, <1>7, <2>1 DEF PendingOK, Latest
<1>9. Current' = Key(t)
  <2> DEFINE Is(b) == b[1] = t /\ \A o \in ctl'.accepted : o[1] = b[1] => o[2] <= b[2]
  <2>1. Current' = CHOOSE b \in ctl'.accepted : Is(b)
    BY <1>2, ConstantFacts DEF Current, Occupying
  <2>2. Key(t) \in ctl'.accepted /\ Is(Key(t))
    BY <1>2, <1>5, <1>7
  <2>3. ASSUME NEW b \in ctl'.accepted, Is(b) PROVE b = Key(t)
    <3>1. b[1] = t /\ b[2] <= ctl.epochs[t].epoch
      BY <1>7, <2>3
    <3>2. ctl.epochs[t].epoch <= b[2]
      BY <1>5, <2>2, <2>3
    <3>3. b \in Target \X (0 .. MaxEpoch)
      BY <1>2, <1>4, <1>5
    <3>4. QED
      BY <1>4, <1>5, <3>1, <3>2, <3>3
  <2> HIDE DEF Is
  <2>4. QED
    BY <2>1, <2>2, <2>3
<1>10. OnceStep /\ ReleaseStep
  BY <1>2, <1>3, ConstantFacts DEF OnceStep, ReleaseStep
<1>11. LedgerStep
  <2>1. Current = NoBoundary
    BY <1>1 DEF Current, Occupying
  <2>2. Ledger!Record(Key(t))
    BY <1>2, <1>1, <1>9, <2>1 DEF Ledger!Record, Current, Occupying, Latest
  <2>3. Key(t) \in Target \X (0 .. MaxEpoch)
    BY <1>4, <1>5
  <2>4. QED
    BY <2>2, <2>3 DEF LedgerStep, Ledger!Next
<1>12. QED
  BY <1>6, <1>8, <1>10, <1>11 DEF StepOK

\* the epoch that follows the completed one of t
Bumped(t) == [epoch |-> ctl.epochs[t].epoch + 1, reopened |-> TRUE, completed |-> FALSE]

\* es is the epochs, with those of the targets in bumped moved on
Moves(es, bumped) ==
    \A t \in Target :
        (t \in bumped => es[t] = Bumped(t)) /\ (t \notin bumped => es[t] = ctl.epochs[t])

\* the targets whose completion an observed plan takes back
Undone(p, refined) == {t \in Incomplete(p, refined) : ctl.epochs[t].completed}

\* An observed plan moves on the epochs of the completions it takes back, and
\* leaves the boundary and the accepted keys alone.
LEMMA ObservedIs ==
    ASSUME TypeOK, EpochsOK, NEW p, NEW refined \in BOOLEAN,
           \A t \in Target : Observed(p, refined).epochs[t].epoch <= MaxEpoch
    PROVE  LET c == Observed(p, refined)
           IN  /\ c \in Controls /\ SameBoundary(c)
               /\ c.accepted = ctl.accepted /\ c.failed = ctl.failed
               /\ c.terminal = (ctl.terminal /\ ~StaleReview(p, refined))
               /\ Moves(c.epochs, Undone(p, refined))
<1> DEFINE c == Observed(p, refined)
<1> DEFINE es == Reopened(p)
<1> DEFINE last == es["terminal"]
<1> DEFINE fs == [es EXCEPT !["terminal"] =
                             IF last.completed /\ ~last.reopened
                             THEN [epoch |-> last.epoch + 1, reopened |-> TRUE, completed |-> FALSE]
                             ELSE last]
<1>1. ctl \in Controls
  BY DEF TypeOK
<1>2. ASSUME NEW t \in Target
      PROVE  IF ctl.epochs[t].completed /\ ~Completed(p, t)
             THEN es[t] = [epoch |-> ctl.epochs[t].epoch + 1,
                           reopened |-> TRUE, completed |-> FALSE]
             ELSE es[t] = ctl.epochs[t]
  BY DEF EpochsOK, Reopened
<1>3. DOMAIN es = Target /\ es = [t \in Target |-> es[t]]
  BY DEF Reopened
<1>4. /\ DOMAIN fs = Target /\ fs = [t \in Target |-> fs[t]]
      /\ \A t \in Target : t # "terminal" => fs[t] = es[t]
  BY <1>3
<1>5. fs["terminal"] = IF last.completed /\ ~last.reopened
                       THEN [epoch |-> last.epoch + 1, reopened |-> TRUE, completed |-> FALSE]
                       ELSE last
  BY <1>3, TargetFacts
<1>6. /\ SameBoundary(c) /\ c.accepted = ctl.accepted /\ c.failed = ctl.failed
      /\ c.identity = ctl.identity /\ c.supervised = ctl.supervised
      /\ c.epochs = IF StaleReview(p, refined) THEN fs ELSE es
  BY <1>1 DEF Observed, SameBoundary, Controls
<1>7. c.terminal = (ctl.terminal /\ ~StaleReview(p, refined))
  BY <1>1 DEF Observed, Controls
<1> HIDE DEF es
<1>8. Moves(c.epochs, Undone(p, refined))
  <2> HIDE DEF c, fs
  <2>1. ASSUME NEW t \in Target
        PROVE  (t \in Undone(p, refined) => c.epochs[t] = Bumped(t))
               /\ (t \notin Undone(p, refined) => c.epochs[t] = ctl.epochs[t])
    <3>1. CASE StaleReview(p, refined) /\ t = "terminal"
      <4>1. c.epochs[t] = fs["terminal"] /\ last = es[t]
            /\ (t \in Undone(p, refined) <=> ctl.epochs[t].completed)
        BY <1>6, <3>1 DEF Incomplete, Undone
      <4>2. CASE ~ctl.epochs[t].completed
        BY <1>2, <1>5, <3>1, <4>1, <4>2
      <4>3. CASE ctl.epochs[t].completed /\ ~Completed(p, t)
        <5>1. es[t] = Bumped(t) /\ Bumped(t).completed = FALSE
          BY <1>2, <4>3 DEF Bumped
        <5>2. QED
          BY <1>5, <3>1, <4>1, <4>3, <5>1
      <4>4. CASE ctl.epochs[t].completed /\ Completed(p, t)
        <5>1. es[t] = ctl.epochs[t] /\ ~ctl.epochs[t].reopened
          BY <1>2, <4>4 DEF EpochsOK
        <5>2. QED
          BY <1>5, <3>1, <4>1, <4>4, <5>1 DEF Bumped
      <4>5. QED
        BY <4>2, <4>3, <4>4
    <3>2. CASE ~(StaleReview(p, refined) /\ t = "terminal")
      <4>1. /\ c.epochs[t] = es[t]
            /\ t \in Undone(p, refined) <=> ctl.epochs[t].completed /\ ~Completed(p, t)
        BY <1>4, <1>6, <3>2 DEF Incomplete, Undone
      <4>2. CASE ctl.epochs[t].completed /\ ~Completed(p, t)
        BY <1>2, <4>1, <4>2 DEF Bumped
      <4>3. CASE ~(ctl.epochs[t].completed /\ ~Completed(p, t))
        BY <1>2, <4>1, <4>3
      <4>4. QED
        BY <4>2, <4>3
    <3>3. QED
      BY <3>1, <3>2
  <2>2. QED
    BY <2>1 DEF Moves
<1>9. c.epochs \in Epochs
  <2> HIDE DEF c, fs
  <2>1. ASSUME NEW t \in Target
        PROVE  c.epochs[t] \in [epoch : 0 .. MaxEpoch, reopened : BOOLEAN, completed : BOOLEAN]
    <3>1. c.epochs[t].epoch <= MaxEpoch
      BY DEF c
    <3>2. CASE t \in Undone(p, refined)
      <4>1. c.epochs[t] = Bumped(t) /\ ctl.epochs[t].epoch \in Nat
        BY <1>1, <1>8, <3>2, EpochFields DEF Moves
      <4>2. ctl.epochs[t].epoch + 1 <= MaxEpoch
        BY <3>1, <4>1 DEF Bumped
      <4>3. QED
        BY <4>1, <4>2, ConstantFacts DEF Bumped
    <3>3. CASE t \notin Undone(p, refined)
      BY <1>1, <1>8, <3>3, EpochFields DEF Moves
    <3>4. QED
      BY <3>2, <3>3
  <2>2. c.epochs = [t \in Target |-> c.epochs[t]]
    BY <1>3, <1>4, <1>6
  <2>3. QED
    BY <2>1, <2>2 DEF Epochs
<1>10. c \in Controls
  <2> DEFINE term == ctl.terminal /\ ~StaleReview(p, refined)
  <2>1. term \in BOOLEAN
    BY <1>1, ControlFields
  <2>2. c = [ctl EXCEPT !.terminal = term, !.epochs = c.epochs]
    BY <1>1, ControlFields DEF Observed, Controls
  <2> HIDE DEF c, term
  <2>3. QED
    BY <1>1, <1>9, <2>1, <2>2 DEF Controls
<1>11. QED
  BY <1>6, <1>7, <1>8, <1>10

\* An observed plan keeps the epochs in order: an epoch that moves on was never
\* accepted.
LEMMA ObservesStep ==
    ASSUME TypeOK, EpochsOK, PendingOK, NEW p, NEW refined \in BOOLEAN,
           ctl' = Observed(p, refined), \A t \in Target : ctl'.epochs[t].epoch <= MaxEpoch,
           reopened' = reopened \cup Incomplete(p, refined)
    PROVE  /\ EpochsOK' /\ PendingOK' /\ StepOK /\ ctl' \in Controls
           /\ ctl'.pending = ctl.pending /\ ctl'.failed = ctl.failed
<1>1. /\ ctl' \in Controls /\ SameBoundary(ctl')
      /\ ctl'.accepted = ctl.accepted /\ ctl'.failed = ctl.failed
      /\ ctl'.terminal = (ctl.terminal /\ ~StaleReview(p, refined))
      /\ Moves(ctl'.epochs, Undone(p, refined))
  BY ObservedIs
<1>2. Incomplete(p, refined) \subseteq Target
  BY DEF Incomplete
<1>3. ctl.accepted \subseteq Target \X (0 .. MaxEpoch)
  BY ControlFields DEF TypeOK
<1>4. ASSUME NEW t \in Target
      PROVE  /\ t \in Undone(p, refined) => ctl'.epochs[t] = Bumped(t)
             /\ t \notin Undone(p, refined) => ctl'.epochs[t] = ctl.epochs[t]
             /\ t \in Undone(p, refined) <=> t \in Incomplete(p, refined) /\ ctl.epochs[t].completed
             /\ Bumped(t).epoch = ctl.epochs[t].epoch + 1 /\ ctl.epochs[t].epoch \in Nat
             /\ Bumped(t).completed = FALSE /\ Bumped(t).reopened = TRUE
  BY <1>1, EpochFields DEF Moves, Undone, Bumped, TypeOK
<1>5. ASSUME NEW t \in Target
      PROVE  /\ ctl'.epochs[t].completed => ~ctl'.epochs[t].reopened
             /\ t \in reopened' <=> ~ctl'.epochs[t].completed
             /\ Key(t)' \in ctl'.accepted => ctl'.epochs[t].completed
  <2>1. CASE t \in Undone(p, refined)
    <3>1. Key(t)' = <<t, ctl.epochs[t].epoch + 1>>
      BY <1>4, <2>1 DEF Key
    <3>2. <<t, ctl.epochs[t].epoch + 1>> \notin ctl.accepted
      <4>1. SUFFICES ASSUME <<t, ctl.epochs[t].epoch + 1>> \in ctl.accepted PROVE FALSE
        OBVIOUS
      <4>2. ctl.epochs[t].epoch + 1 <= ctl.epochs[t].epoch
        BY <4>1 DEF EpochsOK
      <4>3. ctl.epochs[t].epoch \in Nat
        BY <1>4
      <4>4. QED
        BY <4>2, <4>3
    <3>3. QED
      BY <1>1, <1>4, <2>1, <3>1, <3>2
  <2>2. CASE t \notin Undone(p, refined)
    <3>1. ctl'.epochs[t] = ctl.epochs[t] /\ Key(t)' = Key(t)
      BY <1>4, <2>2 DEF Key
    <3>2. QED
      BY <1>1, <1>4, <2>2, <3>1 DEF EpochsOK
  <2>3. QED
    BY <2>1, <2>2
<1>6. ASSUME NEW b \in ctl'.accepted PROVE b[2] <= ctl'.epochs[b[1]].epoch
  <2>1. b \in ctl.accepted /\ b[1] \in Target /\ b[2] \in Nat /\ b[2] <= ctl.epochs[b[1]].epoch
    BY <1>1, <1>3, <1>6 DEF EpochsOK
  <2>2. CASE b[1] \in Undone(p, refined)
    <3>1. ctl'.epochs[b[1]].epoch = ctl.epochs[b[1]].epoch + 1 /\ ctl.epochs[b[1]].epoch \in Nat
      BY <1>4, <2>1, <2>2
    <3>2. QED
      BY <2>1, <3>1
  <2>3. CASE b[1] \notin Undone(p, refined)
    BY <1>4, <2>1, <2>3
  <2>4. QED
    BY <2>2, <2>3
<1>7. "terminal" \in reopened' => ~ctl'.terminal
  BY <1>1 DEF EpochsOK, Incomplete, StaleReview
<1>8. EpochsOK'
  BY <1>5, <1>6, <1>7 DEF EpochsOK
<1>9. PendingOK'
  BY <1>1 DEF SameBoundary, PendingOK, Latest
<1>10. StepOK
  BY <1>1 DEF SameBoundary, StepOK, LedgerStep, Current, OnceStep, ReleaseStep
<1>11. QED
  BY <1>1, <1>8, <1>9, <1>10 DEF SameBoundary

\* f is s after hand-offs were settled: the pending boundary can be accounted for
\* in f when it could be in s
Follows(s, f) ==
    /\ f \in Settlings /\ SameButFailed(s.ctl, f.ctl)
    /\ Accounted(s.ctl, s.rows) => Accounted(f.ctl, f.rows)
    /\ f.proc.gen = s.proc.gen /\ (f.proc.up => s.proc.up)

\* The fields of what a settlement reads and writes.
LEMMA SettlingFields ==
    ASSUME NEW s \in Settlings
    PROVE  /\ s.rows \in [Request -> Rows] /\ s.ctl \in Controls /\ s.armed \in SUBSET Request
           /\ s.proc \in Procs /\ s.recoveries \in SUBSET Recoveries
  BY DEF Settlings

\* A process that holds nothing.
LEMMA NothingIs == Nothing \in [Request -> Holdings] /\ \A r \in Request : Nothing[r] = "none"
  BY DEF Nothing, Holdings

\* A process that was stopped.
LEMMA StoppedIs ==
    ASSUME NEW p \in Procs
    PROVE  Stopped(p) \in Procs /\ Stopped(p).gen = p.gen /\ Stopped(p).up = FALSE
  BY NothingIs, ConstantFacts DEF Stopped, Procs

\* A process that was started has a number of its own.
LEMMA StartedIs ==
    ASSUME NEW p \in Procs
    PROVE  /\ Started(p).gen = p.gen + 1 /\ Started(p).up = TRUE /\ p.gen + 1 # 0
           /\ p.gen + 1 <= MaxProcs => Started(p) \in Procs
<1>1. p.gen \in Nat /\ p.gen + 1 # 0
  BY ProcFields, ConstantFacts
<1>2. /\ 1 \in 1 .. MaxRequests + 1 /\ NoTurn \in 0 .. MaxTurns
      /\ p.gen + 1 <= MaxProcs => p.gen + 1 \in 0 .. MaxProcs
  BY <1>1, ConstantFacts
<1>3. QED
  BY <1>1, <1>2, NothingIs DEF Started, Procs

\* A process that holds a request otherwise.
LEMMA HoldIs ==
    ASSUME NEW p \in Procs, NEW r \in Request, NEW h \in Holdings
    PROVE  LET q == [p EXCEPT !.held[r] = h] IN q \in Procs /\ q.gen = p.gen /\ q.up = p.up
<1> DEFINE held == [p.held EXCEPT ![r] = h]
<1>1. held \in [Request -> Holdings]
  BY ProcFields
<1>2. [p EXCEPT !.held[r] = h] = [p EXCEPT !.held = held]
  BY DEF Procs
<1> HIDE DEF held
<1>3. QED
  BY <1>1, <1>2 DEF Procs

\* A reply changes what the process holds.
LEMMA RepliedIs ==
    ASSUME NEW p \in Procs, NEW r \in Request, NEW h \in Holdings
    PROVE  Replied(p, r, h) \in Procs /\ Replied(p, r, h).gen = p.gen /\ Replied(p, r, h).up = p.up
  BY HoldIs DEF Replied

\* A handler that settles nothing changes what the process holds.
LEMMA UnsettledIs ==
    ASSUME NEW p \in Procs, NEW c \in Calls
    PROVE  Unsettled(p, c) \in Procs /\ Unsettled(p, c).gen = p.gen /\ Unsettled(p, c).up = p.up
<1>1. c.req \in Request /\ "none" \in Holdings
  BY DEF Calls, Holdings
<1>2. QED
  BY <1>1, HoldIs DEF Unsettled

\* A row that is added is open, for its turn.
LEMMA HeldIs ==
    ASSUME NEW rs \in [Request -> Rows], NEW r \in Request, NEW turn \in 0 .. MaxTurns
    PROVE  /\ Held(rs, r, turn) \in [Request -> Rows]
           /\ Held(rs, r, turn)[r].state = "open" /\ Held(rs, r, turn)[r].turn = turn
  BY DEF Held, Rows

\* What a dismissal makes of the rows: they keep their turns, and only open ones
\* change.
LEMMA DismissedIs ==
    ASSUME NEW rs \in [Request -> Rows]
    PROVE  /\ Dismissed(rs) \in [Request -> Rows]
           /\ \A r \in Request :
                /\ Dismissed(rs)[r].turn = rs[r].turn
                /\ Dismissed(rs)[r].state = IF rs[r].state = "open" THEN "dismissed"
                                            ELSE rs[r].state
  BY DEF Dismissed, Rows

\* The row that fails is written in place or with its table.
LEMMA FailedExcept ==
    ASSUME NEW s \in Settlings, NEW r \in Request, NEW c, NEW p, NEW vs
    PROVE  [s EXCEPT !.rows[r].state = "failed", !.ctl = c, !.proc = p, !.recoveries = vs]
             = [s EXCEPT !.rows = [s.rows EXCEPT ![r].state = "failed"], !.ctl = c, !.proc = p,
                         !.recoveries = vs]
  BY DEF Settlings

\* fail() of one row flags the boundary when the row was its last account.
LEMMA FailedIs ==
    ASSUME NEW s \in Settlings, NEW r \in Request
    PROVE  Follows(s, Failed(s, r, s.rows[r].turn))
<1> DEFINE turn == s.rows[r].turn
<1> DEFINE f == Failed(s, r, turn)
<1> DEFINE quiet == [s EXCEPT !.armed = @ \ {r}]
<1>1. SUFFICES Follows(s, f)
  OBVIOUS
<1>2. /\ s.rows \in [Request -> Rows] /\ s.ctl \in Controls /\ s.armed \in SUBSET Request
      /\ s.proc \in Procs /\ s.recoveries \in SUBSET Recoveries /\ turn \in 0 .. MaxTurns
  BY SettlingFields, RowFields
<1>3. CASE ~IsOpen(s, r)
  <2>1. f = quiet
    BY <1>3 DEF Failed
  <2>2. f \in Settlings /\ f.ctl = s.ctl /\ f.rows = s.rows /\ f.proc = s.proc
    BY <1>2, <2>1 DEF Settlings
  <2> HIDE DEF f
  <2>3. QED
    BY <2>2 DEF Follows, SameButFailed
<1>4. CASE IsOpen(s, r)
  <2> DEFINE flagged == Flagged(s.ctl, turn)
  <2> DEFINE rs == [s.rows EXCEPT ![r].state = "failed"]
  <2> DEFINE recycle == Recycles(s, r, turn)
  <2> DEFINE p == IF recycle THEN Stopped(s.proc) ELSE Replied(s.proc, r, "error")
  <2> DEFINE vs == IF recycle THEN s.recoveries \cup {[req |-> r, turn |-> turn]} ELSE s.recoveries
  <2>1. f = [quiet EXCEPT !.rows = rs, !.ctl = flagged, !.proc = p, !.recoveries = vs]
    <3>1. /\ quiet \in Settlings /\ quiet.rows = s.rows /\ quiet.ctl = s.ctl
          /\ quiet.proc = s.proc /\ quiet.recoveries = s.recoveries
      BY DEF Settlings
    <3>2. f = [quiet EXCEPT !.rows[r].state = "failed",
                            !.ctl = Flagged(@, turn),
                            !.proc = IF recycle THEN Stopped(@) ELSE Replied(@, r, "error"),
                            !.recoveries = IF recycle THEN @ \cup {[req |-> r, turn |-> turn]}
                                                      ELSE @]
      BY <1>4 DEF Failed
    <3> HIDE DEF quiet, recycle, turn
    <3>3. QED
      BY <3>1, <3>2, FailedExcept
  <2>2. /\ rs \in [Request -> Rows] /\ rs[r].state = "failed" /\ rs[r].turn = turn
        /\ \A o \in Request : o # r => rs[o] = s.rows[o]
    BY <1>2 DEF Rows
  <2>3. /\ flagged \in Controls /\ SameButFailed(s.ctl, flagged)
        /\ s.ctl.pending # NoTurn /\ s.ctl.pending = turn => flagged.failed
    <3>1. flagged \in Controls /\ SameButFailed(s.ctl, flagged)
      BY <1>2, FlaggedIs
    <3>2. s.ctl.pending # NoTurn /\ s.ctl.pending = turn => flagged.failed
      BY <1>2, FlaggedIs
    <3>3. QED
      BY <3>1, <3>2
  <2>4. p \in Procs /\ p.gen = s.proc.gen /\ (p.up => s.proc.up)
    <3>1. "error" \in Holdings
      BY DEF Holdings
    <3>2. CASE recycle
      BY <1>2, <3>2, StoppedIs
    <3>3. CASE ~recycle
      <4>1. p = Replied(s.proc, r, "error")
        BY <3>3
      <4> HIDE DEF p
      <4>2. QED
        BY <1>2, <3>1, <4>1, RepliedIs
    <3>4. QED
      BY <3>2, <3>3
  <2>5. vs \in SUBSET Recoveries
    <3>1. [req |-> r, turn |-> turn] \in Recoveries
      BY <1>2 DEF Recoveries
    <3>2. QED
      BY <1>2, <3>1
  <2> HIDE DEF flagged, rs, p, vs, f
  <2>6. f \in Settlings /\ f.ctl = flagged /\ f.rows = rs /\ f.proc = p
    BY <1>2, <2>1, <2>2, <2>3, <2>4, <2>5 DEF Settlings
  <2>7. Accounted(s.ctl, s.rows) => Accounted(flagged, rs)
    BY <2>2, <2>3 DEF Accounted, SameButFailed
  <2>8. QED
    BY <2>3, <2>4, <2>6, <2>7 DEF Follows
<1>5. QED
  BY <1>3, <1>4

\* failPending() flags the boundary when one of the rows it fails was its
\* account.
LEMMA AllFailedIs ==
    ASSUME NEW s \in Settlings
    PROVE  Follows(s, AllFailed(s))
<1> DEFINE f == AllFailed(s)
<1> DEFINE open == {r \in Request : IsOpen(s, r)}
<1> DEFINE lost == {r \in open : Recycles(s, r, s.rows[r].turn)}
<1> DEFINE then == {r \in open : /\ \E q \in lost : q <= r
                                 /\ Recycles([s EXCEPT !.proc = Stopped(@)], r, s.rows[r].turn)}
<1> DEFINE rs == [r \in Request |-> IF r \in open THEN [s.rows[r] EXCEPT !.state = "failed"]
                                    ELSE s.rows[r]]
<1> DEFINE c == IF \E r \in open : s.rows[r].turn = s.ctl.pending
                THEN Flagged(s.ctl, s.ctl.pending) ELSE s.ctl
<1> DEFINE held == [r \in Request |-> IF r \in open /\ Takes(s.proc, r) THEN "error"
                                      ELSE s.proc.held[r]]
<1> DEFINE p == IF lost # {} THEN Stopped(s.proc) ELSE [s.proc EXCEPT !.held = held]
<1> DEFINE vs == s.recoveries \cup {[req |-> r, turn |-> s.rows[r].turn] : r \in then}
<1>1. SUFFICES Follows(s, f)
  OBVIOUS
<1>2. /\ s.rows \in [Request -> Rows] /\ s.ctl \in Controls /\ s.armed \in SUBSET Request
      /\ s.proc \in Procs /\ s.recoveries \in SUBSET Recoveries
      /\ \A r \in Request : s.rows[r].turn \in 0 .. MaxTurns
  BY SettlingFields, RowFields
<1>3. f = [rows |-> rs, ctl |-> c, armed |-> s.armed \ open, proc |-> p, recoveries |-> vs]
  BY DEF AllFailed
<1>4. rs \in [Request -> Rows] /\ \A r \in Request : r \notin open => rs[r] = s.rows[r]
  BY <1>2 DEF Rows
<1>5. /\ c \in Controls /\ SameButFailed(s.ctl, c)
      /\ s.ctl.pending # NoTurn /\ (\E r \in open : s.rows[r].turn = s.ctl.pending) => c.failed
  BY <1>2, FlaggedIs DEF SameButFailed
<1>6. p \in Procs /\ p.gen = s.proc.gen /\ (p.up => s.proc.up)
  <2>1. held \in [Request -> Holdings]
    BY <1>2, ProcFields DEF Holdings
  <2> HIDE DEF held
  <2>2. QED
    BY <1>2, <2>1, StoppedIs DEF Procs
<1>7. vs \in SUBSET Recoveries
  BY <1>2 DEF Recoveries
<1>8. open = {r \in Request : s.rows[r].state = "open"}
  BY DEF IsOpen
<1> HIDE DEF f, open, rs, c, p, vs
<1>9. f \in Settlings /\ f.ctl = c /\ f.rows = rs /\ f.proc = p
  BY <1>2, <1>3, <1>4, <1>5, <1>6, <1>7 DEF Settlings
<1>10. Accounted(s.ctl, s.rows) => Accounted(c, rs)
  BY <1>4, <1>5, <1>8 DEF Accounted, SameButFailed
<1>11. QED
  BY <1>5, <1>6, <1>9, <1>10 DEF Follows

\* A report that is not ambiguous means a target.
LEMMA ExpandedIs ==
    ASSUME TypeOK, NEW ask \in Ask, Expanded(ask) # "none"
    PROVE  Expanded(ask) \in Target
<1>1. Candidates \subseteq Step
  BY DEF Candidates, TypeOK, Plans
<1>2. Cardinality(Candidates) = 1 => Candidates # {}
  BY FS_EmptySet
<1>3. QED
  BY <1>1, <1>2, TargetFacts DEF Expanded, Ask

\* A report that is recorded is the one of the turn that is active.
LEMMA RecordedNowIs ==
    ASSUME TypeOK, NEW c \in calls, RecordedNow(c)
    PROVE  /\ Expanded(c.ask) \in Target /\ Outcome(Expanded(c.ask)) = "recorded"
           /\ session.turn \in 1 .. MaxTurns /\ session.turn \in 0 .. MaxTurns
           /\ session.turn # NoTurn
           /\ c \in Calls /\ c.req \in Request
<1>1. c \in Calls /\ c.ask \in Ask /\ c.req \in Request /\ session.turn \in 0 .. MaxTurns
  BY DEF TypeOK, Calls, Sessions
<1>2. Expanded(c.ask) # "none" /\ Outcome(Expanded(c.ask)) = "recorded" /\ session.turn # NoTurn
  BY DEF RecordedNow, Passes, Owned
<1>3. QED
  BY <1>1, <1>2, ExpandedIs, ConstantFacts

\* A refusal changes what the process holds.
LEMMA ReplyFailureIs ==
    ASSUME TypeOK, NEW c \in calls, ReplyFailure(c)
    PROVE  proc' \in Procs /\ proc'.gen = proc.gen /\ proc'.up = proc.up
<1>1. c \in Calls /\ c.req \in Request /\ proc \in Procs /\ "refused" \in Holdings
  BY DEF TypeOK, Calls, Holdings
<1>2. QED
  BY <1>1, RepliedIs, UnsettledIs DEF ReplyFailure

\* A step that leaves the checkpoints alone.
LEMMA SameStep ==
    ASSUME TypeOK, EpochsOK, PendingOK, UNCHANGED <<ctl, reopened>>
    PROVE  EpochsOK' /\ PendingOK' /\ StepOK
  BY KeepsStep DEF SameEpochs, SameBoundary

\* A step that leaves the pending boundary, its flag and its rows in place keeps
\* it accounted for.
LEMMA AccountedKept ==
    ASSUME BoundaryAccounted, relay' = "up" => relay = "up",
           ctl'.pending = ctl.pending, ctl.failed => ctl'.failed,
           \A r \in Request :
              /\ rows'[r].turn = rows[r].turn
              /\ rows[r].state \in {"open", "answered", "dismissed"}
                     => rows'[r].state \in {"open", "answered", "dismissed"}
    PROVE  BoundaryAccounted'
  BY DEF BoundaryAccounted, Accounted

\* A step that settles hand-offs keeps the invariant.
LEMMA FollowsKeeps ==
    ASSUME IInv, NEW s \in Settlings, NEW f, Follows(s, f), Becomes(f), UNCHANGED <<reopened,
                                                                                    relay>>,
           s.ctl = ctl, Accounted(ctl, rows) => Accounted(s.ctl, s.rows),
           s.proc.gen = proc.gen, s.proc.up => proc.up
    PROVE  /\ EpochsOK' /\ PendingOK' /\ StepOK /\ BoundaryAccounted'
           /\ proc'.up => proc'.gen # 0
           /\ rows' \in [Request -> Rows] /\ ctl' \in Controls /\ armed' \subseteq Request
           /\ proc' \in Procs /\ recoveries' \subseteq Recoveries
<1>1. TypeOK /\ EpochsOK /\ PendingOK /\ BoundaryAccounted /\ (proc.up => proc.gen # 0)
  BY DEF IInv
<1>2. /\ f \in Settlings /\ SameButFailed(s.ctl, f.ctl)
      /\ Accounted(s.ctl, s.rows) => Accounted(f.ctl, f.rows)
      /\ f.proc.gen = s.proc.gen /\ (f.proc.up => s.proc.up)
  BY DEF Follows
<1>3. /\ rows' = f.rows /\ ctl' = f.ctl /\ armed' = f.armed
      /\ proc' = f.proc /\ recoveries' = f.recoveries
  BY DEF Becomes
<1>4. SameEpochs(ctl') /\ SameBoundary(ctl')
  BY <1>2, <1>3 DEF SameButFailed, SameEpochs, SameBoundary
<1>5. EpochsOK' /\ PendingOK' /\ StepOK
  BY <1>1, <1>4, KeepsStep
<1>6. BoundaryAccounted'
  BY <1>1, <1>2, <1>3 DEF BoundaryAccounted, Accounted
<1>7. proc'.up => proc'.gen # 0
  BY <1>1, <1>2, <1>3
<1>8. /\ rows' \in [Request -> Rows] /\ ctl' \in Controls /\ armed' \subseteq Request
      /\ proc' \in Procs /\ recoveries' \subseteq Recoveries
  BY <1>2, <1>3, SettlingFields
<1>9. QED
  BY <1>5, <1>6, <1>7, <1>8

\* What a settlement reads is typed.
LEMMA NowIs ==
    ASSUME TypeOK
    PROVE  /\ Now \in Settlings /\ Now.rows = rows /\ Now.ctl = ctl /\ Now.armed = armed
           /\ Now.proc = proc /\ Now.recoveries = recoveries
  BY DEF TypeOK, Now, Settlings

\* A report is held by its process, and has no row yet.
LEMMA ReportKeeps == ASSUME IInv, NEW ask \in Ask, Report(ask) PROVE IInv' /\ StepOK
<1>1. TypeOK /\ EpochsOK /\ PendingOK /\ BoundaryAccounted /\ (proc.up => proc.gen # 0)
  BY DEF IInv
<1>2. /\ proc' \in Procs /\ proc'.gen = proc.gen /\ proc'.up = proc.up
      /\ [gen |-> proc.gen, req |-> proc.next, turn |-> proc.turn, ask |-> ask] \in Calls
  <2>1. proc.next \in Request /\ proc.next \in Nat /\ proc.next + 1 \in 1 .. MaxRequests + 1
    BY ConstantFacts DEF Report, Request
  <2>2. proc \in Procs /\ proc.gen \in 1 .. MaxProcs /\ proc.turn \in 0 .. MaxTurns
    BY <1>1, ProcFields, ConstantFacts DEF TypeOK, Report
  <2> DEFINE p == [proc EXCEPT !.held[proc.next] = "held"]
  <2>3. p \in Procs /\ p.gen = proc.gen /\ p.up = proc.up /\ "held" \in Holdings
    BY <2>1, <2>2, HoldIs DEF Holdings
  <2>4. proc' = [p EXCEPT !.next = proc.next + 1]
    BY <2>2 DEF Report, Procs
  <2> HIDE DEF p
  <2>5. proc' \in Procs /\ proc'.gen = proc.gen /\ proc'.up = proc.up
    BY <2>1, <2>3, <2>4 DEF Procs
  <2>6. QED
    BY <2>1, <2>2, <2>5 DEF Calls
<1>3. TypeOK'
  BY <1>1, <1>2 DEF Report, TypeOK
<1>4. EpochsOK' /\ PendingOK' /\ StepOK
  BY <1>1, SameStep DEF Report
<1>5. BoundaryAccounted'
  BY <1>1, AccountedKept DEF Report
<1>6. proc'.up => proc'.gen # 0
  BY <1>1, <1>2
<1>7. QED
  BY <1>3, <1>4, <1>5, <1>6 DEF IInv

\* The answer of a hand-off was written, or could not be.
LEMMA SettlesKeeps == ASSUME IInv, NEW r \in Request, Settles(r) PROVE IInv' /\ StepOK
<1>1. TypeOK /\ EpochsOK /\ PendingOK /\ BoundaryAccounted /\ (proc.up => proc.gen # 0)
  BY DEF IInv
<1> DEFINE s == [Now EXCEPT !.proc.held[r] = "none"]
<1>2. /\ s \in Settlings /\ s.ctl = ctl /\ s.rows = rows /\ s.armed = armed
      /\ s.proc.gen = proc.gen /\ s.proc.up = proc.up
  <2> DEFINE p == [proc EXCEPT !.held[r] = "none"]
  <2>1. p \in Procs /\ p.gen = proc.gen /\ p.up = proc.up
    <3>1. proc \in Procs /\ "none" \in Holdings
      BY <1>1 DEF TypeOK, Holdings
    <3>2. QED
      BY <3>1, HoldIs
  <2>2. s = [Now EXCEPT !.proc = p]
    BY DEF Now
  <2> HIDE DEF p
  <2>3. QED
    BY <1>1, <2>1, <2>2, NowIs DEF Settlings
<1> HIDE DEF s
<1>3. UNCHANGED <<plan, session, calls, relay, left, turns, reopened>>
  BY DEF Settles
<1>4. PICK f : f \in {s, Answered(s, r), Failed(s, r, rows[r].turn)} /\ Becomes(f)
  BY DEF Settles, s
<1>5. Follows(s, f)
  <2>1. CASE f = s
    BY <1>2, <2>1 DEF Follows, SameButFailed
  <2>2. CASE f = Failed(s, r, rows[r].turn)
    BY <1>2, <2>2, FailedIs
  <2>3. CASE f = Answered(s, r) /\ f # s
    <3> DEFINE rs == [rows EXCEPT ![r].state = "answered"]
    <3>1. f = [s EXCEPT !.armed = armed \ {r}, !.rows = rs] /\ rows[r].state = "open"
      BY <1>2, <2>3 DEF Answered, IsOpen, Settlings
    <3>2. /\ rs \in [Request -> Rows] /\ rs[r].state = "answered" /\ rs[r].turn = rows[r].turn
          /\ \A o \in Request : o # r => rs[o] = rows[o]
      <4>1. rows \in [Request -> Rows]
        BY <1>1 DEF TypeOK
      <4>2. QED
        BY <4>1 DEF Rows
    <3> HIDE DEF rs
    <3>3. f \in Settlings /\ f.ctl = s.ctl /\ f.rows = rs /\ f.proc = s.proc
      BY <1>2, <3>1, <3>2 DEF Settlings
    <3>4. Accounted(s.ctl, rows) => Accounted(s.ctl, rs)
      BY <3>2 DEF Accounted
    <3>5. QED
      BY <1>2, <3>3, <3>4 DEF Follows, SameButFailed
  <2>4. QED
    BY <1>4, <2>1, <2>2, <2>3
<1>6. /\ EpochsOK' /\ PendingOK' /\ StepOK /\ BoundaryAccounted'
      /\ proc'.up => proc'.gen # 0
      /\ rows' \in [Request -> Rows] /\ ctl' \in Controls /\ armed' \subseteq Request
      /\ proc' \in Procs /\ recoveries' \subseteq Recoveries
  BY <1>2, <1>3, <1>4, <1>5, FollowsKeeps
<1>7. QED
  BY <1>1, <1>3, <1>6 DEF IInv, TypeOK

\* A request that the app-server withdraws is dismissed: its row still accounts
\* for the boundary.
LEMMA RequestClearedKeeps ==
    ASSUME IInv, NEW r \in Request, RequestCleared(r)
    PROVE  IInv' /\ StepOK
<1>1. TypeOK /\ EpochsOK /\ PendingOK /\ BoundaryAccounted /\ (proc.up => proc.gen # 0)
  BY DEF IInv
<1>2. /\ proc' \in Procs /\ proc'.gen = proc.gen /\ proc'.up = proc.up
      /\ rows' \in [Request -> Rows]
      /\ \A o \in Request :
           /\ rows'[o].turn = rows[o].turn
           /\ rows[o].state \in {"open", "answered", "dismissed"}
                  => rows'[o].state \in {"open", "answered", "dismissed"}
  <2>1. proc \in Procs /\ "none" \in Holdings /\ rows \in [Request -> Rows]
    BY <1>1 DEF TypeOK, Holdings
  <2>2. proc' \in Procs /\ proc'.gen = proc.gen /\ proc'.up = proc.up
    BY <2>1, HoldIs DEF RequestCleared
  <2>3. CASE rows' = rows
    BY <2>1, <2>2, <2>3
  <2>4. CASE rows' = [rows EXCEPT ![r].state = "dismissed"]
    <3> DEFINE rs == [rows EXCEPT ![r].state = "dismissed"]
    <3>1. /\ rs \in [Request -> Rows] /\ rs[r].state = "dismissed" /\ rs[r].turn = rows[r].turn
          /\ \A o \in Request : o # r => rs[o] = rows[o]
      BY <2>1 DEF Rows
    <3>2. rows' = rs
      BY <2>4
    <3> HIDE DEF rs
    <3>3. QED
      BY <2>2, <3>1, <3>2
  <2>5. QED
    BY <2>3, <2>4 DEF RequestCleared
<1>3. TypeOK'
  BY <1>1, <1>2 DEF RequestCleared, TypeOK
<1>4. EpochsOK' /\ PendingOK' /\ StepOK
  BY <1>1, SameStep DEF RequestCleared
<1>5. BoundaryAccounted'
  BY <1>1, <1>2, AccountedKept DEF RequestCleared
<1>6. proc'.up => proc'.gen # 0
  BY <1>1, <1>2
<1>7. QED
  BY <1>3, <1>4, <1>5, <1>6 DEF IInv

\* The final of a turn releases no boundary but its own.
LEMMA TurnCompletesKeeps == ASSUME IInv, TurnCompletes PROVE IInv' /\ StepOK
<1>1. TypeOK /\ EpochsOK /\ PendingOK /\ BoundaryAccounted /\ (proc.up => proc.gen # 0)
  BY DEF IInv
<1>2. /\ proc' \in Procs /\ proc'.gen = proc.gen /\ proc'.up = proc.up /\ ctl' \in Controls
      /\ session' \in Sessions /\ SameEpochs(ctl')
      /\ ctl' = ctl \/ (ctl'.pending = NoTurn /\ session.turn = ctl.pending)
  <2>1. proc \in Procs /\ ctl \in Controls /\ session \in Sessions
    BY <1>1 DEF TypeOK
  <2>2. proc' \in Procs /\ proc'.gen = proc.gen /\ proc'.up = proc.up
    BY <2>1, ConstantFacts DEF TurnCompletes, Procs
  <2>3. session' \in Sessions
    BY <2>1, ConstantFacts DEF TurnCompletes, Ready, Sessions
  <2>4. CASE ctl' = ctl
    BY <2>1, <2>2, <2>3, <2>4 DEF SameEpochs
  <2>5. CASE ctl' = Released(ctl, proc.turn) /\ session.turn = proc.turn /\ ctl' # ctl
    <3>1. proc.turn # NoTurn
      BY DEF TurnCompletes
    <3>2. QED
      BY <2>1, <2>2, <2>3, <2>5, <3>1, ReleasedIs DEF SameEpochs
  <2>6. QED
    BY <2>4, <2>5 DEF TurnCompletes
<1>3. TypeOK'
  BY <1>1, <1>2 DEF TurnCompletes, TypeOK
<1>4. EpochsOK' /\ PendingOK' /\ StepOK
  BY <1>1, <1>2, SameStep, ReleasesStep DEF TurnCompletes
<1>5. BoundaryAccounted'
  BY <1>1, <1>2 DEF TurnCompletes, BoundaryAccounted, Accounted
<1>6. proc'.up => proc'.gen # 0
  BY <1>1, <1>2
<1>7. QED
  BY <1>3, <1>4, <1>5, <1>6 DEF IInv

\* An unexpected exit fails every open row.
LEMMA WriterExitsKeeps == ASSUME IInv, WriterExits PROVE IInv' /\ StepOK
<1>1. TypeOK /\ EpochsOK /\ PendingOK /\ BoundaryAccounted /\ (proc.up => proc.gen # 0)
  BY DEF IInv
<1> DEFINE s == [Now EXCEPT !.proc = Stopped(@)]
<1>2. /\ s \in Settlings /\ s.ctl = ctl /\ s.rows = rows
      /\ s.proc.gen = proc.gen /\ s.proc.up = FALSE
  <2>1. Stopped(proc) \in Procs /\ Stopped(proc).gen = proc.gen /\ Stopped(proc).up = FALSE
    BY <1>1, StoppedIs DEF TypeOK
  <2>2. s = [Now EXCEPT !.proc = Stopped(proc)]
    BY DEF Now
  <2>3. QED
    BY <1>1, <2>1, <2>2, NowIs DEF Settlings
<1> HIDE DEF s
<1>3. Becomes(AllFailed(s)) /\ session' = Stop /\ UNCHANGED <<plan, calls, relay, left, turns,
                                                              reopened>>
  BY DEF WriterExits, s
<1>4. session' \in Sessions
  BY <1>3, ConstantFacts DEF Stop, Sessions
<1>5. Follows(s, AllFailed(s))
  BY <1>2, AllFailedIs
<1>6. /\ EpochsOK' /\ PendingOK' /\ StepOK /\ BoundaryAccounted'
      /\ proc'.up => proc'.gen # 0
      /\ rows' \in [Request -> Rows] /\ ctl' \in Controls /\ armed' \subseteq Request
      /\ proc' \in Procs /\ recoveries' \subseteq Recoveries
  BY <1>2, <1>3, <1>5, FollowsKeeps
<1>7. QED
  BY <1>1, <1>3, <1>4, <1>6 DEF IInv, TypeOK

\* A deadline fails the row of its request.
LEMMA DeadlineKeeps == ASSUME IInv, NEW r \in Request, Deadline(r) PROVE IInv' /\ StepOK
<1>1. TypeOK /\ EpochsOK /\ PendingOK /\ BoundaryAccounted /\ (proc.up => proc.gen # 0)
  BY DEF IInv
<1>2. Now \in Settlings /\ Now.rows = rows /\ Now.ctl = ctl /\ Now.proc = proc
  BY <1>1, NowIs
<1>3. Becomes(Failed(Now, r, Now.rows[r].turn)) /\ UNCHANGED <<plan, session, calls, relay, left,
                                                               turns, reopened>>
  BY <1>2 DEF Deadline
<1>4. Follows(Now, Failed(Now, r, Now.rows[r].turn))
  BY <1>2, FailedIs
<1>5. /\ EpochsOK' /\ PendingOK' /\ StepOK /\ BoundaryAccounted'
      /\ proc'.up => proc'.gen # 0
      /\ rows' \in [Request -> Rows] /\ ctl' \in Controls /\ armed' \subseteq Request
      /\ proc' \in Procs /\ recoveries' \subseteq Recoveries
  BY <1>2, <1>3, <1>4, FollowsKeeps
<1>6. QED
  BY <1>1, <1>3, <1>5 DEF IInv, TypeOK

\* A report whose plan could not be refreshed changes nothing durable.
LEMMA RefreshFailsKeeps ==
    ASSUME IInv, NEW c \in calls, RefreshFails(c)
    PROVE  IInv' /\ StepOK
<1>1. TypeOK /\ EpochsOK /\ PendingOK /\ BoundaryAccounted /\ (proc.up => proc.gen # 0)
  BY DEF IInv
<1>2. proc' \in Procs /\ proc'.gen = proc.gen /\ proc'.up = proc.up
  BY <1>1, ReplyFailureIs DEF RefreshFails
<1>3. TypeOK'
  BY <1>1, <1>2 DEF RefreshFails, Returns, TypeOK
<1>4. EpochsOK' /\ PendingOK' /\ StepOK
  BY <1>1, SameStep DEF RefreshFails
<1>5. BoundaryAccounted'
  BY <1>1, AccountedKept DEF RefreshFails
<1>6. proc'.up => proc'.gen # 0
  BY <1>1, <1>2
<1>7. QED
  BY <1>3, <1>4, <1>5, <1>6 DEF IInv

\* A refused report changes nothing durable.
LEMMA RefuseKeeps == ASSUME IInv, NEW c \in calls, Refuse(c) PROVE IInv' /\ StepOK
<1>1. TypeOK /\ EpochsOK /\ PendingOK /\ BoundaryAccounted /\ (proc.up => proc.gen # 0)
  BY DEF IInv
<1>2. proc' \in Procs /\ proc'.gen = proc.gen /\ proc'.up = proc.up
  BY <1>1, ReplyFailureIs DEF Refuse
<1>3. TypeOK'
  BY <1>1, <1>2 DEF Refuse, Returns, TypeOK
<1>4. EpochsOK' /\ PendingOK' /\ StepOK
  BY <1>1, SameStep DEF Refuse
<1>5. BoundaryAccounted'
  BY <1>1, AccountedKept DEF Refuse
<1>6. proc'.up => proc'.gen # 0
  BY <1>1, <1>2
<1>7. QED
  BY <1>3, <1>4, <1>5, <1>6 DEF IInv

\* A retry changes nothing durable.
LEMMA AnswerAgainKeeps == ASSUME IInv, NEW c \in calls, AnswerAgain(c) PROVE IInv' /\ StepOK
<1>1. TypeOK /\ EpochsOK /\ PendingOK /\ BoundaryAccounted /\ (proc.up => proc.gen # 0)
  BY DEF IInv
<1>2. proc' \in Procs /\ proc'.gen = proc.gen /\ proc'.up = proc.up
  <2>1. c \in Calls /\ c.req \in Request /\ proc \in Procs /\ "alreadyRecorded" \in Holdings
    BY <1>1 DEF TypeOK, Calls, Holdings
  <2>2. QED
    BY <2>1, RepliedIs, UnsettledIs DEF AnswerAgain
<1>3. TypeOK'
  BY <1>1, <1>2 DEF AnswerAgain, Returns, TypeOK
<1>4. EpochsOK' /\ PendingOK' /\ StepOK
  BY <1>1, SameStep DEF AnswerAgain
<1>5. BoundaryAccounted'
  BY <1>1, AccountedKept DEF AnswerAgain
<1>6. proc'.up => proc'.gen # 0
  BY <1>1, <1>2
<1>7. QED
  BY <1>3, <1>4, <1>5, <1>6 DEF IInv

\* An accepted report is recorded, and its row accounts for it.
LEMMA AcceptKeeps == ASSUME IInv, NEW c \in calls, Accept(c) PROVE IInv' /\ StepOK
<1>1. TypeOK /\ EpochsOK /\ PendingOK /\ BoundaryAccounted /\ (proc.up => proc.gen # 0)
  BY DEF IInv
<1> DEFINE t == Expanded(c.ask)
<1>2. /\ t \in Target /\ Outcome(t) = "recorded" /\ session.turn \in 1 .. MaxTurns
      /\ session.turn \in 0 .. MaxTurns /\ c.req \in Request
  BY <1>1, RecordedNowIs DEF Accept
<1>3. Records(ctl', t, session.turn) /\ reopened' = reopened \ {t}
  BY <1>1, <1>2, AcceptedIs DEF Accept
<1>4. /\ proc' \in Procs /\ proc'.gen = proc.gen /\ proc'.up = proc.up
      /\ rows' = Held(rows, c.req, session.turn) /\ rows' \in [Request -> Rows]
      /\ armed' \subseteq Request /\ UNCHANGED recoveries
  <2>1. /\ proc \in Procs /\ "recorded" \in Holdings
        /\ rows \in [Request -> Rows] /\ armed \subseteq Request
    BY <1>1 DEF TypeOK, Holdings
  <2>2. QED
    BY <1>2, <2>1, RepliedIs, HeldIs DEF Accept, Hold
<1> HIDE DEF t
<1>5. TypeOK'
  BY <1>1, <1>2, <1>3, <1>4 DEF Accept, Returns, TypeOK, Records
<1>6. EpochsOK' /\ PendingOK' /\ StepOK
  BY <1>1, <1>2, <1>3, RecordsStep
<1>7. BoundaryAccounted'
  <2>1. rows'[c.req].state = "open" /\ rows'[c.req].turn = session.turn
    BY <1>1, <1>2, <1>4, HeldIs DEF TypeOK
  <2>2. ctl'.pending = session.turn
    BY <1>3 DEF Records
  <2>3. QED
    BY <1>2, <2>1, <2>2 DEF BoundaryAccounted, Accounted
<1>8. proc'.up => proc'.gen # 0
  BY <1>1, <1>4
<1>9. QED
  BY <1>5, <1>6, <1>7, <1>8 DEF IInv

\* A report that is recorded and then fails is flagged.
LEMMA AcceptThrowsKeeps ==
    ASSUME IInv, NEW c \in calls, AcceptThrows(c)
    PROVE  IInv' /\ StepOK
<1>1. TypeOK /\ EpochsOK /\ PendingOK /\ BoundaryAccounted /\ (proc.up => proc.gen # 0)
  BY DEF IInv
<1> DEFINE t == Expanded(c.ask)
<1> DEFINE turn == session.turn
<1> DEFINE made == Accepted(t, turn)
<1> DEFINE flagged == Flagged(made, turn)
<1> DEFINE held == Held(rows, c.req, turn)
<1> DEFINE s == [Now EXCEPT !.ctl = flagged, !.rows = held]
<1>2. /\ t \in Target /\ Outcome(t) = "recorded" /\ turn \in 1 .. MaxTurns
      /\ turn \in 0 .. MaxTurns /\ turn # NoTurn /\ c.req \in Request
  BY <1>1, RecordedNowIs DEF AcceptThrows
<1>3. /\ Becomes(Failed(s, c.req, turn)) /\ reopened' = reopened \ {t} /\ Returns(c)
      /\ UNCHANGED <<plan, session, relay, left, turns>>
  BY DEF AcceptThrows, Now
<1>4. made \in Controls /\ made.pending = turn
  BY <1>1, <1>2, AcceptedIs DEF Records
<1>5. flagged \in Controls /\ SameButFailed(made, flagged) /\ flagged.failed
  BY <1>2, <1>4, FlaggedIs
<1>6. held \in [Request -> Rows] /\ held[c.req].turn = turn
  BY <1>1, <1>2, HeldIs DEF TypeOK
<1> HIDE DEF t, turn, made, flagged, held
<1>7. s \in Settlings /\ s.ctl = flagged /\ s.rows = held /\ s.proc = proc
  BY <1>1, <1>5, <1>6, NowIs DEF Settlings
<1> DEFINE f == Failed(s, c.req, turn)
<1> HIDE DEF s, f
<1>8. Follows(s, f)
  BY <1>2, <1>6, <1>7, FailedIs DEF f
<1>9. /\ f \in Settlings /\ SameButFailed(flagged, f.ctl) /\ Accounted(f.ctl, f.rows)
      /\ f.proc.gen = proc.gen /\ (f.proc.up => proc.up)
  BY <1>5, <1>7, <1>8 DEF Follows, Accounted
<1>10. /\ rows' = f.rows /\ ctl' = f.ctl /\ armed' = f.armed
       /\ proc' = f.proc /\ recoveries' = f.recoveries
  BY <1>3 DEF Becomes, f
<1>11. TypeOK'
  <2>1. /\ rows' \in [Request -> Rows] /\ ctl' \in Controls /\ armed' \subseteq Request
        /\ proc' \in Procs /\ recoveries' \subseteq Recoveries
    BY <1>9, <1>10, SettlingFields
  <2>2. QED
    BY <1>1, <1>3, <2>1 DEF TypeOK, Returns
<1>12. SameButFailed(made, ctl')
  BY <1>5, <1>9, <1>10 DEF SameButFailed
<1>13. EpochsOK' /\ PendingOK' /\ StepOK
  <2>1. Records(ctl', t, turn)
    <3>1. Records(made, t, turn) /\ ctl' \in Controls
      BY <1>1, <1>2, <1>11, AcceptedIs DEF made, TypeOK
    <3>2. QED
      BY <1>12, <3>1 DEF Records, SameButFailed
  <2>2. QED
    BY <1>1, <1>2, <1>3, <2>1, RecordsStep
<1>14. BoundaryAccounted'
  BY <1>9, <1>10 DEF BoundaryAccounted
<1>15. proc'.up => proc'.gen # 0
  BY <1>1, <1>9, <1>10
<1>16. QED
  BY <1>11, <1>13, <1>14, <1>15 DEF IInv

\* A recycled writer releases the boundary, or leaves it flagged.
LEMMA RecycleDoneKeeps ==
    ASSUME IInv, NEW v \in recoveries, RecycleDone(v)
    PROVE  IInv' /\ StepOK
<1>1. TypeOK /\ EpochsOK /\ PendingOK /\ BoundaryAccounted /\ (proc.up => proc.gen # 0)
  BY DEF IInv
<1>2. /\ ctl' \in Controls /\ SameEpochs(ctl')
      /\ ctl'.pending = NoTurn \/ (SameBoundary(ctl') /\ ctl'.failed)
  <2>1. ctl \in Controls
    BY <1>1 DEF TypeOK
  <2>2. QED
    BY <2>1, RecoveredIs DEF RecycleDone, SameEpochs, SameBoundary
<1>3. proc' \in Procs /\ proc'.gen # 0
  <2>1. proc \in Procs /\ proc' = Started(proc) /\ proc'.gen <= MaxProcs
    BY <1>1 DEF TypeOK, RecycleDone
  <2>2. QED
    BY <2>1, StartedIs
<1>4. session' \in Sessions /\ recoveries' \subseteq Recoveries /\ recoveries' # recoveries
  BY <1>1, ConstantFacts DEF TypeOK, RecycleDone, Ready, Sessions
<1>5. TypeOK'
  BY <1>1, <1>2, <1>3, <1>4 DEF RecycleDone, TypeOK
<1>6. EpochsOK' /\ PendingOK' /\ StepOK
  <2>1. UNCHANGED reopened
    BY DEF RecycleDone
  <2>2. QED
    BY <1>1, <1>2, <1>4, <2>1, KeepsStep, ReleasesStep
<1>7. BoundaryAccounted'
  BY <1>1, <1>2 DEF RecycleDone, BoundaryAccounted, Accounted
<1>8. proc'.up => proc'.gen # 0
  BY <1>3
<1>9. QED
  BY <1>5, <1>6, <1>7, <1>8 DEF IInv

\* A writer that could not be recycled leaves the durable failure.
LEMMA RecycleFailsKeeps ==
    ASSUME IInv, NEW v \in recoveries, RecycleFails(v)
    PROVE  IInv' /\ StepOK
<1>1. TypeOK /\ EpochsOK /\ PendingOK /\ BoundaryAccounted /\ (proc.up => proc.gen # 0)
  BY DEF IInv
<1>2. TypeOK'
  BY <1>1 DEF RecycleFails, TypeOK
<1>3. EpochsOK' /\ PendingOK' /\ StepOK
  BY <1>1, SameStep DEF RecycleFails
<1>4. BoundaryAccounted'
  BY <1>1, AccountedKept DEF RecycleFails
<1>5. proc'.up => proc'.gen # 0
  BY <1>1 DEF RecycleFails
<1>6. QED
  BY <1>2, <1>3, <1>4, <1>5 DEF IInv

\* A turn that starts dismisses rows, or leaves them.
LEMMA StartTurnKeeps == ASSUME IInv, StartTurn PROVE IInv' /\ StepOK
<1>1. TypeOK /\ EpochsOK /\ PendingOK /\ BoundaryAccounted /\ (proc.up => proc.gen # 0)
  BY DEF IInv
<1>2. /\ rows' \in [Request -> Rows]
      /\ \A o \in Request :
           /\ rows'[o].turn = rows[o].turn
           /\ rows[o].state \in {"open", "answered", "dismissed"}
                  => rows'[o].state \in {"open", "answered", "dismissed"}
  <2>1. rows \in [Request -> Rows] /\ (rows' = rows \/ rows' = Dismissed(rows))
    BY <1>1 DEF TypeOK, StartTurn
  <2>2. QED
    BY <2>1, DismissedIs
<1>3. turns + 1 \in 0 .. MaxTurns /\ turns' = turns + 1
  BY <1>1, ConstantFacts DEF TypeOK, StartTurn
<1>4. proc' \in Procs /\ proc'.gen # 0
  <2> DEFINE p == IF proc.up THEN proc ELSE Started(proc)
  <2>1. proc \in Procs /\ proc' = [p EXCEPT !.turn = turns + 1] /\ proc'.gen <= MaxProcs
    BY <1>1 DEF TypeOK, StartTurn
  <2>2. CASE proc.up
    BY <1>1, <1>3, <2>1, <2>2 DEF Procs
  <2>3. CASE ~proc.up
    <3>1. p = Started(proc) /\ p.gen = proc.gen + 1 /\ p.gen # 0
      BY <2>1, <2>3, StartedIs
    <3>2. proc'.gen = p.gen
      BY <2>1, <3>1 DEF Started
    <3>3. p \in Procs
      BY <2>1, <3>1, <3>2, StartedIs
    <3> HIDE DEF p
    <3>4. QED
      BY <1>3, <2>1, <3>1, <3>2, <3>3 DEF Procs
  <2>4. QED
    BY <2>2, <2>3
<1>5. TypeOK'
  BY <1>1, <1>2, <1>3, <1>4 DEF StartTurn, TypeOK, Sessions
<1>6. EpochsOK' /\ PendingOK' /\ StepOK
  BY <1>1, SameStep DEF StartTurn
<1>7. BoundaryAccounted'
  BY <1>1, <1>2, AccountedKept DEF StartTurn
<1>8. proc'.up => proc'.gen # 0
  BY <1>4
<1>9. QED
  BY <1>5, <1>6, <1>7, <1>8 DEF IInv

\* A session that is stopped or released dismisses its rows.
LEMMA ReleaseKeeps == ASSUME IInv, Release PROVE IInv' /\ StepOK
<1>1. TypeOK /\ EpochsOK /\ PendingOK /\ BoundaryAccounted /\ (proc.up => proc.gen # 0)
  BY DEF IInv
<1>2. /\ rows' \in [Request -> Rows] /\ proc' \in Procs /\ proc'.up = FALSE
      /\ \A o \in Request :
           /\ rows'[o].turn = rows[o].turn
           /\ rows[o].state \in {"open", "answered", "dismissed"}
                  => rows'[o].state \in {"open", "answered", "dismissed"}
  <2>1. rows \in [Request -> Rows] /\ proc \in Procs
    BY <1>1 DEF TypeOK
  <2>2. QED
    BY <2>1, DismissedIs, StoppedIs DEF Release
<1>3. TypeOK'
  BY <1>1, <1>2, ConstantFacts DEF Release, Stop, Sessions, TypeOK
<1>4. EpochsOK' /\ PendingOK' /\ StepOK
  BY <1>1, SameStep DEF Release
<1>5. BoundaryAccounted'
  BY <1>1, <1>2, AccountedKept DEF Release
<1>6. proc'.up => proc'.gen # 0
  BY <1>2
<1>7. QED
  BY <1>3, <1>4, <1>5, <1>6 DEF IInv

\* An edit of the plan that is supervised is observed, any other is not.
LEMMA PlanChangesKeeps == ASSUME IInv, PlanChanges PROVE IInv' /\ StepOK
<1>1. TypeOK /\ EpochsOK /\ PendingOK /\ BoundaryAccounted /\ (proc.up => proc.gen # 0)
  BY DEF IInv
<1>2. PICK p \in Edits, refined \in BOOLEAN :
          /\ plan' = p
          /\ IF ctl.supervised = plan.identity
             THEN ctl' = Observed(p, refined) /\ reopened' = reopened \cup Incomplete(p, refined)
             ELSE UNCHANGED <<ctl, reopened>>
  BY DEF PlanChanges
<1>3. plan' \in Plans
  <2>1. plan \in Plans /\ plan' = p
    BY <1>1, <1>2 DEF TypeOK
  <2>2. ASSUME NEW done \in SUBSET Step, NEW l1 \in {"open", "done", "reviewed"},
               NEW q \in Step \cup {"none"}
        PROVE  Published(plan, done, l1, q) \in Plans
    BY <2>1 DEF Published, Plans
  <2>3. plan.done \in SUBSET Step /\ plan.l1 \in {"open", "done", "reviewed"}
    BY <2>1 DEF Plans
  <2>4. p \in Plans
    <3>1. CASE p \in {Published(plan, plan.done \cup {s}, plan.l1, s) : s \in Step \ plan.done}
      BY <2>2, <2>3, <3>1, ZenonT(60)
    <3>2. CASE p \in {Published(plan, plan.done \ {s}, plan.l1, "none") : s \in plan.done}
      BY <2>2, <2>3, <3>2, ZenonT(60)
    <3>3. CASE p \in {Published(plan, plan.done, l1, "none") : l1 \in {"open", "done", "reviewed"}}
      BY <2>2, <2>3, <3>3
    <3>4. QED
      BY <1>2, <3>1, <3>2, <3>3 DEF Edits
  <2>5. QED
    BY <2>1, <2>4
<1>4. /\ EpochsOK' /\ PendingOK' /\ StepOK /\ ctl' \in Controls
      /\ ctl'.pending = ctl.pending /\ ctl'.failed = ctl.failed /\ reopened' \subseteq Target
  <2>1. CASE ctl.supervised = plan.identity
    <3>1. \A t \in Target : ctl'.epochs[t].epoch <= MaxEpoch
      BY DEF PlanChanges
    <3>2. reopened' \subseteq Target
      BY <1>1, <1>2, <2>1 DEF Incomplete, TypeOK
    <3>3. QED
      BY <1>1, <1>2, <2>1, <3>1, <3>2, ObservesStep
  <2>2. CASE ctl.supervised # plan.identity
    BY <1>1, <1>2, <2>2, SameStep DEF TypeOK
  <2>3. QED
    BY <2>1, <2>2
<1>5. TypeOK'
  BY <1>1, <1>3, <1>4 DEF PlanChanges, TypeOK
<1>6. EpochsOK' /\ PendingOK' /\ StepOK
  BY <1>4
<1>7. BoundaryAccounted'
  BY <1>1, <1>4, AccountedKept DEF PlanChanges
<1>8. proc'.up => proc'.gen # 0
  BY <1>1 DEF PlanChanges
<1>9. QED
  BY <1>5, <1>6, <1>7, <1>8 DEF IInv

\* A replaced plan leaves the epochs of the old one.
LEMMA PlanReplacedKeeps == ASSUME IInv, PlanReplaced PROVE IInv' /\ StepOK
<1>1. TypeOK /\ EpochsOK /\ PendingOK /\ BoundaryAccounted /\ (proc.up => proc.gen # 0)
  BY DEF IInv
<1>2. plan' \in Plans
  BY <1>1, ConstantFacts DEF PlanReplaced, Plans, TypeOK
<1>3. TypeOK'
  BY <1>1, <1>2 DEF PlanReplaced, TypeOK
<1>4. EpochsOK' /\ PendingOK' /\ StepOK
  BY <1>1, SameStep DEF PlanReplaced
<1>5. BoundaryAccounted'
  BY <1>1, AccountedKept DEF PlanReplaced
<1>6. proc'.up => proc'.gen # 0
  BY <1>1 DEF PlanReplaced
<1>7. QED
  BY <1>3, <1>4, <1>5, <1>6 DEF IInv

\* A plan that is supervised leaves the epochs alone.
LEMMA SuperviseKeeps == ASSUME IInv, Supervise PROVE IInv' /\ StepOK
<1>1. TypeOK /\ EpochsOK /\ PendingOK /\ BoundaryAccounted /\ (proc.up => proc.gen # 0)
  BY DEF IInv
<1>2. ctl' \in Controls /\ SameBoundary(ctl') /\ ctl'.failed = ctl.failed
      /\ ctl'.epochs = ctl.epochs /\ ctl'.accepted = ctl.accepted /\ ctl'.terminal = ctl.terminal
      /\ ctl'.identity = ctl.identity
  BY <1>1 DEF Supervise, TypeOK, Controls, Plans, SameBoundary
<1>3. TypeOK'
  BY <1>1, <1>2 DEF Supervise, TypeOK
<1>4. EpochsOK' /\ PendingOK' /\ StepOK
  <2>1. EpochsOK' /\ PendingOK'
    BY <1>1, <1>2 DEF Supervise, EpochsOK, PendingOK, Latest, Key, SameBoundary
  <2>2. StepOK
    BY <1>2 DEF Supervise, StepOK, LedgerStep, Current, OnceStep, ReleaseStep, SameBoundary
  <2>3. QED
    BY <2>1, <2>2
<1>5. BoundaryAccounted'
  BY <1>1, <1>2, AccountedKept DEF Supervise, SameBoundary
<1>6. proc'.up => proc'.gen # 0
  BY <1>1 DEF Supervise
<1>7. QED
  BY <1>3, <1>4, <1>5, <1>6 DEF IInv

\* What dies with the relay.
LEMMA DiesIs ==
    ASSUME TypeOK, Dies
    PROVE  /\ plan' \in Plans /\ proc' \in Procs /\ proc'.up = FALSE
           /\ relay' = "down" /\ left' \in 0 .. MaxCrashes
           /\ calls' = {} /\ armed' = {} /\ recoveries' = {}
<1>1. proc \in Procs /\ plan \in Plans /\ left \in 0 .. MaxCrashes
  BY DEF TypeOK
<1>2. proc' = Stopped(proc) /\ relay' = "down" /\ calls' = {} /\ armed' = {} /\ recoveries' = {}
  BY DEF Dies
<1>3. left' \in 0 .. MaxCrashes
  BY <1>1, ConstantFacts DEF Dies
<1>4. plan' \in Plans
  BY <1>1 DEF Dies, Plans
<1>5. QED
  BY <1>1, <1>2, <1>3, <1>4, StoppedIs

\* A crash leaves everything that is durable.
LEMMA CrashKeeps == ASSUME IInv, Crash PROVE IInv' /\ StepOK
<1>1. TypeOK /\ EpochsOK /\ PendingOK /\ BoundaryAccounted /\ (proc.up => proc.gen # 0)
  BY DEF IInv
<1>2. /\ plan' \in Plans /\ proc' \in Procs /\ proc'.up = FALSE
      /\ relay' = "down" /\ left' \in 0 .. MaxCrashes
      /\ calls' = {} /\ armed' = {} /\ recoveries' = {}
  BY <1>1, DiesIs DEF Crash
<1>3. TypeOK'
  BY <1>1, <1>2 DEF Crash, TypeOK
<1>4. EpochsOK' /\ PendingOK' /\ StepOK
  BY <1>1, SameStep DEF Crash
<1>5. BoundaryAccounted'
  BY <1>2 DEF BoundaryAccounted
<1>6. proc'.up => proc'.gen # 0
  BY <1>2
<1>7. QED
  BY <1>3, <1>4, <1>5, <1>6 DEF IInv

\* A crash between the transactions of accept() leaves a recorded boundary.
LEMMA CrashAfterAcceptKeeps ==
    ASSUME IInv, NEW c \in calls, CrashAfterAccept(c)
    PROVE  IInv' /\ StepOK
<1>1. TypeOK /\ EpochsOK /\ PendingOK /\ BoundaryAccounted /\ (proc.up => proc.gen # 0)
  BY DEF IInv
<1>2. /\ plan' \in Plans /\ proc' \in Procs /\ proc'.up = FALSE
      /\ relay' = "down" /\ left' \in 0 .. MaxCrashes
      /\ calls' = {} /\ armed' = {} /\ recoveries' = {}
  BY <1>1, DiesIs DEF CrashAfterAccept
<1>3. /\ Expanded(c.ask) \in Target /\ Outcome(Expanded(c.ask)) = "recorded"
      /\ session.turn \in 1 .. MaxTurns /\ session.turn \in 0 .. MaxTurns
  BY <1>1, RecordedNowIs DEF CrashAfterAccept
<1> DEFINE t == Expanded(c.ask)
<1>4. Records(ctl', t, session.turn) /\ reopened' = reopened \ {t}
  BY <1>1, <1>3, AcceptedIs DEF CrashAfterAccept
<1> HIDE DEF t
<1>5. TypeOK'
  BY <1>1, <1>2, <1>3, <1>4 DEF CrashAfterAccept, TypeOK, Records
<1>6. EpochsOK' /\ PendingOK' /\ StepOK
  BY <1>1, <1>3, <1>4, RecordsStep DEF t
<1>7. BoundaryAccounted'
  BY <1>2 DEF BoundaryAccounted
<1>8. proc'.up => proc'.gen # 0
  BY <1>2
<1>9. QED
  BY <1>5, <1>6, <1>7, <1>8 DEF IInv

\* A crash between the transactions of fail() leaves a failed row.
LEMMA CrashInFailKeeps ==
    ASSUME IInv, NEW r \in Request, CrashInFail(r)
    PROVE  IInv' /\ StepOK
<1>1. TypeOK /\ EpochsOK /\ PendingOK /\ BoundaryAccounted /\ (proc.up => proc.gen # 0)
  BY DEF IInv
<1>2. /\ plan' \in Plans /\ proc' \in Procs /\ proc'.up = FALSE
      /\ relay' = "down" /\ left' \in 0 .. MaxCrashes
      /\ calls' = {} /\ armed' = {} /\ recoveries' = {}
  BY <1>1, DiesIs DEF CrashInFail
<1>3. rows' \in [Request -> Rows]
  <2>1. rows \in [Request -> Rows]
    BY <1>1 DEF TypeOK
  <2>2. QED
    BY <2>1 DEF CrashInFail, Rows
<1>4. TypeOK'
  BY <1>1, <1>2, <1>3 DEF CrashInFail, TypeOK
<1>5. EpochsOK' /\ PendingOK' /\ StepOK
  BY <1>1, SameStep DEF CrashInFail
<1>6. BoundaryAccounted'
  BY <1>2 DEF BoundaryAccounted
<1>7. proc'.up => proc'.gen # 0
  BY <1>2
<1>8. QED
  BY <1>4, <1>5, <1>6, <1>7 DEF IInv

\* The next relay does not vouch for the boundary before it has recovered it.
LEMMA RestartKeeps == ASSUME IInv, Restart PROVE IInv' /\ StepOK
<1>1. TypeOK /\ EpochsOK /\ PendingOK /\ BoundaryAccounted /\ (proc.up => proc.gen # 0)
  BY DEF IInv
<1>2. TypeOK'
  BY <1>1, ConstantFacts DEF Restart, Stop, Sessions, TypeOK
<1>3. EpochsOK' /\ PendingOK' /\ StepOK
  BY <1>1, SameStep DEF Restart
<1>4. BoundaryAccounted'
  BY DEF Restart, BoundaryAccounted
<1>5. proc'.up => proc'.gen # 0
  BY <1>1 DEF Restart
<1>6. QED
  BY <1>2, <1>3, <1>4, <1>5 DEF IInv

\* The next relay fails the old rows and releases their boundary, or leaves it
\* flagged.
LEMMA BootedKeeps == ASSUME IInv, Booted PROVE IInv' /\ StepOK
<1>1. TypeOK /\ EpochsOK /\ PendingOK /\ BoundaryAccounted /\ (proc.up => proc.gen # 0)
  BY DEF IInv
<1> DEFINE f == AllFailed(Now)
<1>2. Now \in Settlings /\ Now.ctl = ctl /\ Now.proc = proc
  BY <1>1, NowIs
<1>3. /\ f \in Settlings /\ SameButFailed(ctl, f.ctl)
      /\ f.proc.gen = proc.gen /\ (f.proc.up => proc.up)
  BY <1>2, AllFailedIs DEF Follows
<1> HIDE DEF f
<1>4. /\ rows' = f.rows /\ ctl' = Recovered(f.ctl) /\ armed' = f.armed /\ proc' = f.proc
      /\ recoveries' = f.recoveries /\ relay = "booting" /\ relay' = "up"
      /\ UNCHANGED <<plan, session, calls, left, turns, reopened>>
  BY <1>3 DEF Booted, Becomes, f, Settlings
<1>5. /\ f.rows \in [Request -> Rows] /\ f.ctl \in Controls /\ f.armed \in SUBSET Request
      /\ f.proc \in Procs /\ f.recoveries \in SUBSET Recoveries
  BY <1>3, SettlingFields
<1>6. /\ ctl' \in Controls /\ SameEpochs(ctl')
      /\ ctl'.pending = NoTurn \/ (SameBoundary(ctl') /\ ctl'.failed)
  BY <1>3, <1>4, <1>5, RecoveredIs DEF SameButFailed, SameEpochs, SameBoundary
<1>7. TypeOK'
  BY <1>1, <1>4, <1>5, <1>6 DEF TypeOK
<1>8. EpochsOK' /\ PendingOK' /\ StepOK
  BY <1>1, <1>4, <1>6, KeepsStep, ReleasesStep
<1>9. BoundaryAccounted'
  BY <1>6 DEF BoundaryAccounted, Accounted
<1>10. proc'.up => proc'.gen # 0
  BY <1>1, <1>3, <1>4
<1>11. QED
  BY <1>7, <1>8, <1>9, <1>10 DEF IInv

-----------------------------------------------------------------------------
(* ------------------------------ the theorems --------------------------- *)
\* The initial states satisfy the inductive invariant.
LEMMA InitIInv == Init => IInv
<1> SUFFICES ASSUME Init PROVE IInv
  OBVIOUS
<1>1. Fresh \in [epoch : 0 .. MaxEpoch, reopened : BOOLEAN, completed : BOOLEAN]
  BY ConstantFacts DEF Fresh
<1>2. plan \in Plans
  BY ConstantFacts DEF Init, Plans
<1>3. ctl \in Controls
  BY <1>1, ConstantFacts DEF Init, Controls, Epochs
<1>4. session \in Sessions /\ proc \in Procs
  BY NothingIs, ConstantFacts DEF Init, Stop, Sessions, Procs
<1>5. NoRow \in Rows /\ rows \in [Request -> Rows]
  BY ConstantFacts DEF Init, NoRow, Rows
<1>6. TypeOK
  BY <1>2, <1>3, <1>4, <1>5, ConstantFacts DEF Init, TypeOK
<1>7. EpochsOK
  BY DEF Init, EpochsOK, Fresh
<1>8. PendingOK /\ BoundaryAccounted /\ proc.up = FALSE
  BY DEF Init, PendingOK, BoundaryAccounted, Accounted
<1>9. QED
  BY <1>6, <1>7, <1>8 DEF IInv

\* Every step keeps the inductive invariant, and is what the action properties
\* and the ledger ask.
LEMMA NextKeeps == IInv /\ [Next]_vars => IInv' /\ StepOK
<1> SUFFICES ASSUME IInv, [Next]_vars PROVE IInv' /\ StepOK
  OBVIOUS
<1>1. ASSUME NEW ask \in Ask, Report(ask) PROVE IInv' /\ StepOK
  BY <1>1, ReportKeeps
<1>2. ASSUME NEW r \in Request, Settles(r) \/ RequestCleared(r) \/ Deadline(r) \/ CrashInFail(r)
      PROVE  IInv' /\ StepOK
  BY <1>2, SettlesKeeps, RequestClearedKeeps, DeadlineKeeps, CrashInFailKeeps
<1>3. ASSUME NEW c \in calls, Handler(c) \/ CrashAfterAccept(c) PROVE IInv' /\ StepOK
  BY <1>3, RefreshFailsKeeps, RefuseKeeps, AnswerAgainKeeps, AcceptKeeps, AcceptThrowsKeeps,
     CrashAfterAcceptKeeps
     DEF Handler
<1>4. ASSUME NEW v \in recoveries, Recovering(v) PROVE IInv' /\ StepOK
  BY <1>4, RecycleDoneKeeps, RecycleFailsKeeps DEF Recovering
<1>5. CASE TurnCompletes \/ WriterExits \/ StartTurn \/ Release
  BY <1>5, TurnCompletesKeeps, WriterExitsKeeps, StartTurnKeeps, ReleaseKeeps
<1>6. CASE PlanChanges \/ PlanReplaced \/ Supervise \/ Crash \/ Restart \/ Booted
  BY <1>6, PlanChangesKeeps, PlanReplacedKeeps, SuperviseKeeps, CrashKeeps, RestartKeeps,
     BootedKeeps
<1>7. CASE UNCHANGED vars
  <2>1. TypeOK /\ EpochsOK /\ PendingOK /\ BoundaryAccounted /\ (proc.up => proc.gen # 0)
    BY DEF IInv
  <2>2. TypeOK' /\ (proc'.up => proc'.gen # 0)
    BY <1>7, <2>1 DEF vars, TypeOK
  <2>3. EpochsOK' /\ PendingOK' /\ StepOK
    BY <1>7, <2>1, SameStep DEF vars
  <2>4. BoundaryAccounted'
    BY <1>7, <2>1, AccountedKept DEF vars
  <2>5. QED
    BY <2>2, <2>3, <2>4 DEF IInv
<1>8. QED
  BY <1>1, <1>2, <1>3, <1>4, <1>5, <1>6, <1>7 DEF Next

\* The inductive invariant holds.
THEOREM Inductive == Spec => []IInv
<1>1. Init => IInv
  BY InitIInv
<1>2. IInv /\ [Next]_vars => IInv'
  BY NextKeeps
<1>3. QED
  BY <1>1, <1>2, PTL DEF Spec

\* Every variable holds a value of its kind (CheckpointHandoff!TypeOK).
THEOREM TypeCorrect == Spec => []TypeOK
<1>1. IInv => TypeOK
  BY DEF IInv
<1>2. QED
  BY <1>1, Inductive, PTL

\* A boundary that holds up the next checkpoint has a request or a durable
\* failure that accounts for it, whatever crashes between the two transactions of
\* accept() or of fail().
THEOREM BoundaryHeld == Spec => []BoundaryAccounted
<1>1. IInv => BoundaryAccounted
  BY DEF IInv
<1>2. QED
  BY <1>1, Inductive, PTL

\* A target that was seen incomplete since it was last recorded can be reported
\* again: no key of its epoch was ever accepted.
THEOREM CompletionReportable == Spec => []NewCompletionReportable
<1>1. IInv => NewCompletionReportable
  <2> SUFFICES ASSUME IInv, NEW t \in Target, t \in reopened, ctl.identity \in {0, plan.identity}
               PROVE  Outcome(t) # "alreadyRecorded"
    BY DEF NewCompletionReportable
  <2>1. ~ctl.epochs[t].completed /\ Key(t) \notin ctl.accepted /\ ~(t = "terminal" /\ ctl.terminal)
    BY DEF IInv, EpochsOK
  <2>2. QED
    BY <2>1 DEF Outcome
<1>2. QED
  BY <1>1, Inductive, PTL

\* One completion of a target is recorded once: a second record needs a plan in
\* which the target was seen incomplete.
THEOREM RecordedOnce == Spec => OncePerCompletion
<1>1. IInv /\ [Next]_vars => [OnceStep]_vars
  BY NextKeeps DEF StepOK
<1>2. QED
  BY <1>1, Inductive, PTL DEF Spec, OncePerCompletion, OnceStep

\* Only the final of its own turn, the recovery of a writer or the recovery at
\* the start of the relay releases a boundary.
THEOREM ReleasedByFinal == Spec => ReleasedByItsFinal
<1>1. IInv /\ [Next]_vars => [ReleaseStep]_vars
  BY NextKeeps DEF StepOK
<1>2. QED
  BY <1>1, Inductive, PTL DEF Spec, ReleasedByItsFinal, ReleaseStep

\* The durable checkpoints behave as CheckpointLedger says: a boundary is
\* recorded once, occupies the hand-off alone, and is released before the next.
THEOREM ImplementsLedger == Spec => LedgerSpec
<1>1. Init => Ledger!Init
  BY DEF Init, Ledger!Init
<1>2. IInv /\ [Next]_vars => LedgerStep
  BY NextKeeps DEF StepOK
<1>3. QED
  BY <1>1, <1>2, Inductive, PTL
     DEF Spec, LedgerSpec, Ledger!Spec, LedgerStep, Current, Occupying, Latest

-----------------------------------------------------------------------------
(* ------------------------------ deadlines ------------------------------ *)
\* Once the relay has booted, every open hand-off has its deadline: whatever
\* settles rows and timers in two places, no question stays open that no timer
\* will fail (the safety half of HandoffConcludes).
OpenIsWatched == relay = "up" => \A r \in Request : rows[r].state = "open" => r \in armed

\* the same of what fail() reads and writes
Watched(s) == \A r \in Request : IsOpen(s, r) => r \in s.armed

\* A hand-off that has failed needs no deadline, and takes no other's.
LEMMA FailedWatched ==
    ASSUME NEW s \in Settlings, NEW r \in Request, NEW turn,
           \A o \in Request \ {r} : IsOpen(s, o) => o \in s.armed
    PROVE  Watched(Failed(s, r, turn))
<1> DEFINE f == Failed(s, r, turn)
<1> SUFFICES Watched(f)
  OBVIOUS
<1>1. s.rows \in [Request -> Rows] /\ s.armed \in SUBSET Request
  BY SettlingFields
<1>2. f.armed = s.armed \ {r}
  BY DEF Failed, Settlings
<1>3. CASE ~IsOpen(s, r)
  <2>1. f.rows = s.rows
    BY <1>3 DEF Failed, Settlings
  <2> HIDE DEF f
  <2>2. QED
    BY <1>2, <1>3, <2>1 DEF Watched, IsOpen
<1>4. CASE IsOpen(s, r)
  <2>1. f.rows = [s.rows EXCEPT ![r].state = "failed"]
    BY <1>4 DEF Failed, Settlings
  <2> HIDE DEF f
  <2>2. f.rows[r].state = "failed" /\ \A o \in Request : o # r => f.rows[o] = s.rows[o]
    BY <1>1, <2>1 DEF Rows
  <2>3. QED
    BY <1>2, <2>2 DEF Watched, IsOpen
<1>5. QED
  BY <1>3, <1>4

\* failPending() leaves no hand-off open.
LEMMA AllFailedWatched == ASSUME NEW s \in Settlings PROVE Watched(AllFailed(s))
<1> DEFINE rs == [r \in Request |-> IF IsOpen(s, r) THEN [s.rows[r] EXCEPT !.state = "failed"]
                                    ELSE s.rows[r]]
<1>1. AllFailed(s).rows = rs
  BY DEF AllFailed
<1>2. ASSUME NEW r \in Request PROVE rs[r].state # "open"
  <2>1. s.rows[r] \in Rows
    BY SettlingFields
  <2>2. QED
    BY <2>1 DEF IsOpen, Rows
<1> HIDE DEF rs
<1>3. QED
  BY <1>1, <1>2 DEF Watched, IsOpen

\* An answered hand-off needs no deadline.
LEMMA AnsweredWatched ==
    ASSUME NEW s \in Settlings, NEW r \in Request, Watched(s)
    PROVE  Watched(Answered(s, r))
<1> DEFINE f == Answered(s, r)
<1> SUFFICES Watched(f)
  OBVIOUS
<1>1. s.rows \in [Request -> Rows] /\ s.armed \in SUBSET Request
  BY SettlingFields
<1>2. CASE ~IsOpen(s, r)
  BY <1>2 DEF Answered
<1>3. CASE IsOpen(s, r)
  <2>1. f.rows = [s.rows EXCEPT ![r].state = "answered"] /\ f.armed = s.armed \ {r}
    BY <1>3 DEF Answered, Settlings
  <2> HIDE DEF f
  <2>2. f.rows[r].state = "answered" /\ \A o \in Request : o # r => f.rows[o] = s.rows[o]
    BY <1>1, <2>1 DEF Rows
  <2>3. QED
    BY <2>1, <2>2 DEF Watched, IsOpen
<1>4. QED
  BY <1>2, <1>3

\* What is saved and armed is what was computed.
LEMMA BecomesWatched ==
    ASSUME NEW f, Becomes(f), Watched(f)
    PROVE  OpenIsWatched'
  BY DEF Becomes, Watched, IsOpen, OpenIsWatched

\* A step that opens no row and keeps the timers.
LEMMA NoneOpened ==
    ASSUME OpenIsWatched, relay' = relay, armed' = armed,
           \A r \in Request : rows'[r].state = "open" => rows[r].state = "open"
    PROVE  OpenIsWatched'
  BY DEF OpenIsWatched

\* Every step keeps the deadlines of the hand-offs it leaves open.
LEMMA WatchedStep ==
    ASSUME TypeOK, OpenIsWatched, [Next]_vars
    PROVE  OpenIsWatched'
<1> DEFINE N == Now
<1>1. /\ N \in Settlings /\ N.rows = rows /\ N.armed = armed
      /\ rows \in [Request -> Rows] /\ armed \subseteq Request
  BY NowIs DEF TypeOK
<1>2. relay = "up" => Watched(N)
  BY <1>1 DEF OpenIsWatched, Watched, IsOpen
<1> HIDE DEF N
<1>3. \A r \in Request : Dismissed(rows)[r].state = "open" => rows[r].state = "open"
  BY <1>1, DismissedIs
<1>4. CASE relay' # "up"
  BY <1>4 DEF OpenIsWatched
<1>5. CASE relay' = "up" /\ relay = "booting" /\ Booted
  <2>1. PICK g : g = AllFailed(N)
    OBVIOUS
  <2>2. Becomes([g EXCEPT !.ctl = Recovered(@)])
    BY <1>5, <2>1 DEF Booted, N
  <2>3. Watched(g)
    BY <1>1, <2>1, AllFailedWatched
  <2>4. rows' = g.rows /\ armed' = g.armed
    <3>1. DOMAIN g = {"rows", "ctl", "armed", "proc", "recoveries"}
      BY <2>1 DEF AllFailed
    <3>2. QED
      BY <2>2, <3>1 DEF Becomes
  <2>5. QED
    BY <2>3, <2>4 DEF Watched, IsOpen, OpenIsWatched
<1>6. ASSUME relay = "up", relay' = "up", NEW r \in Request, Settles(r)
      PROVE  OpenIsWatched'
  <2> DEFINE s == [N EXCEPT !.proc.held[r] = "none"]
  <2>1. s \in Settlings /\ s.rows = N.rows /\ s.armed = N.armed
    <3>1. proc \in Procs /\ "none" \in Holdings /\ N.proc = proc
      BY NowIs DEF TypeOK, Holdings, N
    <3>2. [N.proc EXCEPT !.held[r] = "none"] \in Procs
      BY <3>1, HoldIs
    <3>3. QED
      BY <1>1, <3>2 DEF Settlings
  <2>2. \/ Becomes(Answered(s, r)) \/ Becomes(Failed(s, r, rows[r].turn)) \/ Becomes(s)
    BY <1>6 DEF Settles, N
  <2> HIDE DEF s
  <2>3. Watched(s)
    BY <1>2, <1>6, <2>1 DEF Watched, IsOpen
  <2>4. Watched(Answered(s, r)) /\ Watched(Failed(s, r, rows[r].turn))
    BY <2>1, <2>3, AnsweredWatched, FailedWatched DEF Watched
  <2>5. QED
    BY <2>2, <2>3, <2>4, BecomesWatched
<1>7. ASSUME relay = "up", relay' = "up", NEW r \in Request, Deadline(r)
      PROVE  OpenIsWatched'
  <2>1. Becomes(Failed(N, r, rows[r].turn))
    BY <1>7 DEF Deadline, N
  <2>2. Watched(Failed(N, r, rows[r].turn))
    BY <1>1, <1>2, <1>7, FailedWatched DEF Watched
  <2>3. QED
    BY <2>1, <2>2, BecomesWatched
<1>8. ASSUME relay = "up", relay' = "up", NEW r \in Request, RequestCleared(r)
      PROVE  OpenIsWatched'
  <2>1. UNCHANGED armed /\ (rows' = rows \/ rows' = [rows EXCEPT ![r].state = "dismissed"])
    BY <1>8 DEF RequestCleared
  <2>2. \A o \in Request : rows'[o].state = "open" => rows[o].state = "open"
    BY <1>1, <2>1 DEF Rows
  <2>3. QED
    BY <1>8, <2>1, <2>2, NoneOpened
<1>9. ASSUME relay = "up", relay' = "up", NEW c \in calls, Accept(c)
      PROVE  OpenIsWatched'
  <2>1. rows' = Held(rows, c.req, session.turn) /\ armed' = armed \cup {c.req}
    BY <1>9 DEF Accept, Hold
  <2>2. \A o \in Request : o # c.req => rows'[o] = rows[o]
    BY <1>1, <2>1 DEF Held
  <2>3. QED
    BY <1>9, <2>1, <2>2 DEF OpenIsWatched
<1>10. ASSUME relay = "up", relay' = "up", NEW c \in calls, AcceptThrows(c)
       PROVE  OpenIsWatched'
  <2> DEFINE accepted == Flagged(Accepted(Expanded(c.ask), session.turn), session.turn)
  <2> DEFINE rs == Held(rows, c.req, session.turn)
  <2> DEFINE s == [N EXCEPT !.ctl = accepted, !.rows = rs]
  <2>1. /\ c.req \in Request /\ session.turn \in 0 .. MaxTurns /\ session.turn \in 1 .. MaxTurns
        /\ Expanded(c.ask) \in Target
    BY <1>10, RecordedNowIs DEF AcceptThrows
  <2>2. accepted \in Controls
    BY <2>1, AcceptedIs, FlaggedIs DEF Records
  <2>3. rs \in [Request -> Rows] /\ \A o \in Request : o # c.req => rs[o] = rows[o]
    BY <1>1, <2>1, HeldIs DEF Held
  <2>4. Becomes(Failed([N EXCEPT !.ctl = accepted, !.rows = Held(@, c.req, session.turn)], c.req,
                       session.turn))
    BY <1>10 DEF AcceptThrows, N
  <2>5. Becomes(Failed(s, c.req, session.turn))
    BY <1>1, <2>4
  <2> HIDE DEF accepted, rs
  <2>6. s \in Settlings /\ s.rows = rs /\ s.armed = armed
    BY <1>1, <2>2, <2>3 DEF Settlings
  <2> HIDE DEF s
  <2>7. \A o \in Request \ {c.req} : IsOpen(s, o) => o \in s.armed
    BY <1>10, <2>3, <2>6 DEF IsOpen, OpenIsWatched
  <2>8. Watched(Failed(s, c.req, session.turn))
    BY <2>1, <2>6, <2>7, FailedWatched
  <2>9. QED
    BY <2>5, <2>8, BecomesWatched
<1>11. ASSUME relay = "up", relay' = "up", WriterExits
       PROVE  OpenIsWatched'
  <2> DEFINE s == [N EXCEPT !.proc = Stopped(@)]
  <2>1. s \in Settlings
    <3>1. proc \in Procs /\ N.proc = proc
      BY NowIs DEF TypeOK, N
    <3>2. Stopped(N.proc) \in Procs
      BY <3>1, StoppedIs
    <3>3. QED
      BY <1>1, <3>2 DEF Settlings
  <2>2. Becomes(AllFailed(s))
    BY <1>11 DEF WriterExits, N
  <2> HIDE DEF s
  <2>3. QED
    BY <2>1, <2>2, AllFailedWatched, BecomesWatched
<1>12. CASE relay' = relay /\ armed' = armed /\ (rows' = rows \/ rows' = Dismissed(rows))
  BY <1>3, <1>12, NoneOpened
<1>13. QED
  <2>1. CASE \/ \E ask \in Ask : Report(ask)
             \/ \E c \in calls : RefreshFails(c) \/ Refuse(c) \/ AnswerAgain(c)
             \/ \E v \in recoveries : Recovering(v)
             \/ TurnCompletes \/ StartTurn \/ Release \/ PlanChanges \/ PlanReplaced \/ Supervise
             \/ UNCHANGED vars
    BY <1>12, <2>1 DEF Report, RefreshFails, Refuse, AnswerAgain, Recovering, RecycleDone,
       RecycleFails, TurnCompletes, StartTurn, Release, PlanChanges, PlanReplaced, Supervise, vars
  <2>2. CASE Restart \/ Crash \/ (\E r \in Request : CrashInFail(r))
             \/ \E c \in calls : CrashAfterAccept(c)
    BY <1>4, <2>2 DEF Restart, Crash, CrashInFail, CrashAfterAccept, Dies
  <2>3. CASE Booted
    BY <1>4, <1>5, <2>3 DEF Booted
  <2>4. CASE \E r \in Request : Settles(r) \/ RequestCleared(r) \/ Deadline(r)
    <3>1. relay' = relay
      BY <2>4 DEF Settles, RequestCleared, Deadline
    <3>2. QED
      BY <1>4, <1>6, <1>7, <1>8, <2>4, <3>1
  <2>5. CASE WriterExits \/ \E c \in calls : Accept(c) \/ AcceptThrows(c)
    <3>1. relay' = relay
      BY <2>5 DEF WriterExits, Accept, AcceptThrows
    <3>2. QED
      BY <1>4, <1>9, <1>10, <1>11, <2>5, <3>1
  <2>6. QED
    BY <2>1, <2>2, <2>3, <2>4, <2>5 DEF Next, Handler

\* An open hand-off of a relay that has booted always has its deadline.
THEOREM HandoffsWatched == Spec => []OpenIsWatched
<1>1. Init => OpenIsWatched
  BY DEF Init, OpenIsWatched, NoRow
<1>2. TypeOK /\ OpenIsWatched /\ [Next]_vars => OpenIsWatched'
  BY WatchedStep
<1>3. QED
  BY <1>1, <1>2, TypeCorrect, PTL DEF Spec
================================================================================
