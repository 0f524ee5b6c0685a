------------------------- MODULE SessionWriter_proofs --------------------------
(***************************************************************************)
(* Theorems of SessionWriter for every set of keys and requests and every  *)
(* bound. The first lemmas give the fields of the records and what an      *)
(* update of a launch, of a request or of the queue leaves; every action   *)
(* has a lemma that it keeps the inductive invariant, with one step for    *)
(* each part of it.                                                        *)
(***************************************************************************)
EXTENDS SessionWriter, SequenceTheorems, FiniteSetTheorems, TLAPS

\* no launch but the one awaited by l changes
OnlyLaunch(l) ==
    /\ launch' \in [Launcher -> Launches]
    /\ \A m \in Launcher : m # l => launch'[m] = launch[m]

\* no request but h changes
OnlyHandler(h) ==
    /\ handler' \in [Handler -> Requests]
    /\ \A g \in Handler : g # h => handler'[g] = handler[g]

\* the operation that had the session is gone from the queue
Popped ==
    /\ queue' \in Seq(Key) /\ Len(queue') <= Cardinality(Key) /\ Distinct(queue')
    /\ send' = NoSend

\* The bounds are numbers; a send and the requests await launches of their own.
LEMMA ConstantFacts ==
    /\ MaxWriters \in Nat /\ MaxTurns \in Nat /\ MaxCrashes \in Nat /\ Cardinality(Key) \in Nat
    /\ "send" \notin Handler /\ "send" \in Launcher
    /\ \A h \in Handler : h \in Launcher /\ h # "send"
  BY SetsAssumption, BoundsAssumption, FS_CardinalityType DEF Launcher

\* A row without a turn.
LEMMA InFacts ==
    ASSUME NEW state \in {"ready", "recovering", "stopped", "released"}
    PROVE  /\ In(state) \in Row /\ RowOK(In(state))
           /\ In(state).state = state /\ In(state).turn = NoTurn
  BY BoundsAssumption DEF In, Row, RowOK, NoTurn

\* No writer, no operation and no request.
LEMMA NoFacts ==
    /\ NoWriter \in Writers /\ NoWriter.no = 0 /\ NoWriter.turn = NoTurn /\ NoWriter.leaving = FALSE
    /\ NoSend \in Sends /\ NoSend.at = "wait" /\ NoSend.was = In("stopped")
    /\ NoSend.acquired = FALSE /\ NoSend.snap = In("stopped") /\ NoSend.target = 0
    /\ NoSend.turn = NoTurn
    /\ NoRequest \in Requests /\ NoRequest.at = "none" /\ NoRequest.was = In("stopped")
<1>1. In("stopped") \in Row /\ 0 \in Numbers /\ NoTurn \in 0 .. MaxTurns /\ 0 = NoTurn
  BY InFacts, BoundsAssumption DEF Numbers, NoTurn
<1>2. QED
  BY <1>1 DEF NoWriter, NoSend, NoRequest, Writers, Sends, Requests

\* The fields of the row, the writer, the operation and the queue.
LEMMA Fields ==
    ASSUME TypeOK
    PROVE  /\ session.state \in {"ready", "turnActive", "recovering", "stopped", "released"}
           /\ session.turn \in 0 .. MaxTurns
           /\ writer.no \in Numbers /\ writer.turn \in 0 .. MaxTurns /\ writer.leaving \in BOOLEAN
           /\ send.at \in {"wait", "policy", "acquire", "check", "recycle", "recycled", "taken",
                           "put", "cleanup"}
           /\ send.was \in Row /\ send.snap \in Row /\ send.acquired \in BOOLEAN
           /\ send.target \in Numbers /\ send.turn \in 0 .. MaxTurns
  BY DEF TypeOK, Row, Writers, Sends

\* The fields of a request.
LEMMA HandlerFields ==
    ASSUME TypeOK, NEW h \in Handler
    PROVE  /\ handler[h] \in Requests
           /\ handler[h].at \in {"none", "closing", "unsubscribing", "opening"}
           /\ handler[h].was \in Row
  BY DEF TypeOK, Requests

\* A queue that loses its first key keeps its keys distinct.
LEMMA TailFacts ==
    ASSUME TypeOK, QueueOK, queue # <<>>
    PROVE  /\ Key1 \in Key /\ Tail(queue) \in Seq(Key) /\ Len(Tail(queue)) <= Cardinality(Key)
           /\ Distinct(Tail(queue))
<1>1. /\ Key1 \in Key /\ Tail(queue) \in Seq(Key) /\ Len(Tail(queue)) = Len(queue) - 1
      /\ Len(queue) \in Nat /\ \A i \in 1 .. Len(Tail(queue)) : Tail(queue)[i] = queue[i + 1]
  BY HeadTailProperties, LenProperties DEF TypeOK, Key1
<1>2. Len(Tail(queue)) <= Cardinality(Key)
  BY <1>1, ConstantFacts DEF TypeOK
<1>3. Distinct(Tail(queue))
  BY <1>1 DEF QueueOK, Distinct
<1>4. QED
  BY <1>1, <1>2, <1>3

\* A queue keeps its keys distinct, and its first one, when a new key joins.
LEMMA AppendFacts ==
    ASSUME TypeOK, QueueOK, NEW k \in Key, \A i \in 1 .. Len(queue) : queue[i] # k
    PROVE  /\ Append(queue, k) \in Seq(Key) /\ Len(Append(queue, k)) <= Cardinality(Key)
           /\ Distinct(Append(queue, k)) /\ Append(queue, k) # <<>>
           /\ queue # <<>> => Head(Append(queue, k)) = Key1
<1> DEFINE q == Append(queue, k)
<1>1. /\ q \in Seq(Key) /\ q # <<>> /\ Len(q) = Len(queue) + 1 /\ Len(queue) \in Nat
      /\ \A i \in 1 .. Len(queue) : q[i] = queue[i]
      /\ q[Len(queue) + 1] = k
  BY AppendProperties, LenProperties, SMTT(40) DEF TypeOK
<1>2. Distinct(q)
  BY <1>1 DEF QueueOK, Distinct
<1>3. q \in Injection(1 .. Len(q), Key)
  BY <1>1, <1>2, LenProperties DEF Distinct, Injection, IsInjective
<1>4. Cardinality(1 .. Len(q)) = Len(q)
  BY <1>1, FS_Interval
<1>5. Len(q) <= Cardinality(Key)
  BY <1>3, <1>4, FS_Injection, SetsAssumption
<1>6. queue # <<>> => Head(q) = Key1
  BY <1>1, EmptySeq DEF Key1
<1>7. QED
  BY <1>1, <1>2, <1>5, <1>6

\* What the end of an operation makes of the queue.
LEMMA PopIs ==
    ASSUME TypeOK, QueueOK, queue # <<>>, Pop
    PROVE  Popped
  BY TailFacts DEF Pop, Popped

\* A launch that changes: what it is after, and the others.
LEMMA LaunchIs ==
    ASSUME TypeOK, NEW l \in Launcher, NEW v \in Launches, launch' = [launch EXCEPT ![l] = v]
    PROVE  OnlyLaunch(l) /\ launch'[l] = v
  BY DEF TypeOK, OnlyLaunch

\* A request that goes on: where it is after, and the others.
LEMMA RequestIs ==
    ASSUME TypeOK, NEW h \in Handler, NEW q \in Requests, Request(h, q)
    PROVE  OnlyHandler(h) /\ handler'[h] = q
  BY DEF TypeOK, OnlyHandler, Request

\* While only sends overlap, an operation has the session alone.
LEMMA SendHasIt ==
    ASSUME QueueOK, OneAtATime, send.at # "wait"
    PROVE  queue # <<>> /\ boot = "none" /\ \A h \in Handler : handler[h].at = "none"
  BY DEF QueueOK, OneAtATime

\* And so has a request.
LEMMA RequestHasIt ==
    ASSUME QueueOK, OneAtATime, NEW h \in Handler, handler[h].at # "none"
    PROVE  queue = <<>> /\ boot = "none" /\ send.at = "wait"
  BY DEF QueueOK, OneAtATime

-----------------------------------------------------------------------------
(* ----------------------------- the writer ------------------------------ *)
\* A writer that has resumed the thread becomes the session's.
LEMMA ResumesKeeps == ASSUME IInv, NEW l \in Launcher, Resumes(l) PROVE IInv'
<1>1. /\ TypeOK /\ RowsOK /\ QueueOK /\ OneTurnPerKey /\ LaunchOK /\ LeavingOK
      /\ alone => OneAtATime /\ Inactive /\ Backed
  BY DEF IInv
<1>2. /\ launch[l] = "resuming" /\ writers < MaxWriters /\ writers' = writers + 1
      /\ writer' = [NoWriter EXCEPT !.no = writers + 1] /\ refused' = FALSE
      /\ UNCHANGED <<session, queue, send, handler, stored, boot, turns, left, starts, torn,
                     alone>>
  BY <1>1 DEF Resumes, ghosts
<1>3. /\ writers' \in 1 .. MaxWriters /\ writers + 1 \in Numbers /\ writers + 1 # 0
  BY <1>1, <1>2, ConstantFacts DEF TypeOK, Numbers
<1>4. /\ writer' \in Writers /\ writer'.no = writers + 1 /\ writer'.turn = NoTurn
      /\ writer'.leaving = FALSE
  BY <1>1, <1>2, <1>3, NoFacts DEF Writers
<1>5. /\ OnlyLaunch(l) /\ launch'[l] = "mapped"
  BY <1>1, LaunchIs DEF Resumes, Launches
<1>6. TypeOK'
  BY <1>1, <1>2, <1>3, <1>4, <1>5 DEF TypeOK, OnlyLaunch
<1>7. RowsOK'
  BY <1>1, <1>2 DEF RowsOK
<1>8. QueueOK'
  BY <1>1, <1>2 DEF QueueOK, Key1
<1>9. OneTurnPerKey'
  BY <1>1, <1>2 DEF OneTurnPerKey, Key1
<1>10. LaunchOK'
  BY <1>1, <1>2, <1>5, ConstantFacts DEF LaunchOK, OnlyLaunch
<1>11. LeavingOK'
  BY <1>1, <1>2, <1>4 DEF LeavingOK
<1>12. alone' => OneAtATime'
  BY <1>1, <1>2 DEF OneAtATime
<1>13. alone' => Inactive'
  <2>1. SUFFICES ASSUME alone PROVE Inactive'
    BY <1>2
  <2>2. OneAtATime /\ Inactive
    BY <1>1, <2>1
  <2>3. CASE l = "send"
    BY <1>1, <1>2, <1>5, <2>2, <2>3 DEF LaunchOK, Inactive
  <2>4. CASE l \in Handler
    <3>1. send.at = "wait"
      BY <1>1, <1>2, <2>2, <2>4, RequestHasIt DEF LaunchOK
    <3>2. QED
      BY <1>2, <2>2, <3>1 DEF Inactive
  <2>5. QED
    BY <2>3, <2>4 DEF Launcher
<1>14. alone' => Backed'
  BY <1>1, <1>2, <1>3 DEF Backed, Owns
<1>15. QED
  BY <1>6, <1>7, <1>8, <1>9, <1>10, <1>11, <1>12, <1>13, <1>14 DEF IInv

\* A writer that exits while it resumes stops the session.
LEMMA ResumerExitsKeeps == ASSUME IInv, NEW l \in Launcher, ResumerExits(l) PROVE IInv'
<1>1. /\ TypeOK /\ RowsOK /\ QueueOK /\ OneTurnPerKey /\ LaunchOK /\ LeavingOK
      /\ alone => OneAtATime /\ Inactive /\ Backed
  BY DEF IInv
<1>2. /\ launch[l] = "resuming" /\ session' = In("stopped")
      /\ UNCHANGED <<writer, queue, send, handler, stored, boot, writers, turns, left, starts,
                     torn, alone, refused>>
  BY <1>1 DEF ResumerExits, ghosts, bounds
<1>3. /\ OnlyLaunch(l) /\ launch'[l] = "gone"
  BY <1>1, LaunchIs DEF ResumerExits, Launches
<1>4. TypeOK'
  BY <1>1, <1>2, <1>3, InFacts DEF TypeOK, OnlyLaunch
<1>5. RowsOK'
  BY <1>1, <1>2, InFacts DEF RowsOK
<1>6. QueueOK'
  BY <1>1, <1>2 DEF QueueOK, Key1
<1>7. OneTurnPerKey'
  BY <1>1, <1>2 DEF OneTurnPerKey, Key1
<1>8. LaunchOK'
  BY <1>1, <1>2, <1>3, ConstantFacts DEF LaunchOK, OnlyLaunch
<1>9. LeavingOK'
  BY <1>1, <1>2 DEF LeavingOK
<1>10. alone' => OneAtATime'
  BY <1>1, <1>2 DEF OneAtATime
<1>11. alone' => Inactive'
  <2>1. SUFFICES ASSUME alone PROVE Inactive'
    BY <1>2
  <2>2. OneAtATime /\ Inactive /\ ~Live(session')
    BY <1>1, <1>2, <2>1, InFacts DEF Live
  <2>3. CASE l = "send"
    BY <1>2, <1>3, <2>2, <2>3 DEF Inactive, Owns
  <2>4. CASE l \in Handler
    <3>1. send.at = "wait"
      BY <1>1, <1>2, <2>2, <2>4, RequestHasIt DEF LaunchOK
    <3>2. QED
      BY <1>2, <2>2, <3>1 DEF Inactive
  <2>5. QED
    BY <2>3, <2>4 DEF Launcher
<1>12. alone' => Backed'
  BY <1>1, <1>2, InFacts DEF Backed, Live
<1>13. QED
  BY <1>4, <1>5, <1>6, <1>7, <1>8, <1>9, <1>10, <1>11, <1>12 DEF IInv

\* A writer that exited before it became the session's leaves none.
LEMMA MapsDeadKeeps == ASSUME IInv, NEW l \in Launcher, MapsDead(l) PROVE IInv'
<1>1. /\ TypeOK /\ RowsOK /\ QueueOK /\ OneTurnPerKey /\ LaunchOK /\ LeavingOK
      /\ alone => OneAtATime /\ Inactive /\ Backed
  BY DEF IInv
<1>2. /\ launch[l] = "gone" /\ writer' = NoWriter
      /\ UNCHANGED <<session, queue, send, handler, stored, boot, writers, turns, left, starts,
                     torn, alone, refused>>
  BY <1>1 DEF MapsDead, ghosts, bounds
<1>3. /\ OnlyLaunch(l) /\ launch'[l] = "mapped"
  BY <1>1, LaunchIs DEF MapsDead, Launches
<1>4. TypeOK'
  BY <1>1, <1>2, <1>3, NoFacts DEF TypeOK, OnlyLaunch
<1>5. RowsOK'
  BY <1>1, <1>2 DEF RowsOK
<1>6. QueueOK'
  BY <1>1, <1>2 DEF QueueOK, Key1
<1>7. OneTurnPerKey'
  BY <1>1, <1>2 DEF OneTurnPerKey, Key1
<1>8. LaunchOK'
  BY <1>1, <1>2, <1>3, ConstantFacts DEF LaunchOK, OnlyLaunch
<1>9. LeavingOK'
  BY <1>1, <1>2, NoFacts DEF LeavingOK
<1>10. alone' => OneAtATime'
  BY <1>1, <1>2 DEF OneAtATime
<1>11. alone' => Inactive'
  <2>1. SUFFICES ASSUME alone PROVE Inactive'
    BY <1>2
  <2>2. OneAtATime /\ Inactive
    BY <1>1, <2>1
  <2>3. CASE l = "send"
    BY <1>2, <1>3, <2>2, <2>3 DEF Inactive
  <2>4. CASE l \in Handler
    <3>1. send.at = "wait"
      BY <1>1, <1>2, <2>2, <2>4, RequestHasIt DEF LaunchOK
    <3>2. QED
      BY <1>2, <2>2, <3>1 DEF Inactive
  <2>5. QED
    BY <2>3, <2>4 DEF Launcher
<1>12. alone' => Backed'
  <2>1. SUFFICES ASSUME alone PROVE refused \/ ~Live(session)
    BY <1>2 DEF Backed
  <2>2. CASE l = "send"
    BY <1>1, <1>2, <2>1, <2>2 DEF LaunchOK, Inactive
  <2>3. CASE l \in Handler
    BY <1>1, <1>2, <2>1, <2>3 DEF LaunchOK, Inactive
  <2>4. QED
    BY <2>2, <2>3 DEF Launcher
<1>13. QED
  BY <1>4, <1>5, <1>6, <1>7, <1>8, <1>9, <1>10, <1>11, <1>12 DEF IInv

\* The writer exits: the row is stopped, or was left by who told it to leave.
LEMMA WriterExitsKeeps == ASSUME IInv, WriterExits PROVE IInv'
<1>1. /\ TypeOK /\ RowsOK /\ QueueOK /\ OneTurnPerKey /\ LaunchOK /\ LeavingOK
      /\ alone => OneAtATime /\ Inactive /\ Backed
  BY DEF IInv
<1>2. CASE writer.leaving
  <2>1. /\ writer' = NoWriter
        /\ UNCHANGED <<session, launch, queue, send, handler, stored, boot, writers, turns, left,
                       starts, torn, alone, refused>>
    BY <1>1, <1>2 DEF WriterExits, ghosts, bounds
  <2>2. TypeOK'
    BY <1>1, <1>2, <2>1, NoFacts DEF TypeOK
  <2>3. RowsOK'
    BY <1>1, <1>2, <2>1 DEF RowsOK
  <2>4. QueueOK'
    BY <1>1, <1>2, <2>1 DEF QueueOK, Key1
  <2>5. OneTurnPerKey'
    BY <1>1, <1>2, <2>1 DEF OneTurnPerKey, Key1
  <2>6. LaunchOK'
    BY <1>1, <1>2, <2>1 DEF LaunchOK
  <2>7. LeavingOK'
    BY <1>1, <1>2, <2>1 DEF LeavingOK
  <2>8. alone' => OneAtATime'
    BY <1>1, <1>2, <2>1 DEF OneAtATime
  <2>9. alone' => Inactive'
    BY <1>1, <1>2, <2>1, NoFacts DEF Inactive, Owns
  <2>10. alone' => Backed'
    BY <1>1, <1>2, <2>1 DEF LeavingOK, Inactive, Backed
  <2>11. QED
    BY <2>2, <2>3, <2>4, <2>5, <2>6, <2>7, <2>8, <2>9, <2>10 DEF IInv
<1>3. CASE ~writer.leaving
  <2>1. /\ writer' = NoWriter /\ session' = In("stopped")
        /\ UNCHANGED <<launch, queue, send, handler, stored, boot, writers, turns, left, starts,
                       torn, alone, refused>>
    BY <1>1, <1>3 DEF WriterExits, ghosts, bounds
  <2>2. TypeOK'
    BY <1>1, <2>1, InFacts, NoFacts DEF TypeOK
  <2>3. RowsOK'
    BY <1>1, <2>1, InFacts DEF RowsOK
  <2>4. QueueOK'
    BY <1>1, <2>1 DEF QueueOK, Key1
  <2>5. OneTurnPerKey'
    BY <1>1, <2>1 DEF OneTurnPerKey, Key1
  <2>6. LaunchOK'
    BY <1>1, <2>1 DEF LaunchOK
  <2>7. LeavingOK'
    BY <1>1, <2>1, NoFacts DEF LeavingOK
  <2>8. alone' => OneAtATime'
    BY <1>1, <2>1 DEF OneAtATime
  <2>9. alone' => Inactive'
    BY <1>1, <2>1, InFacts, NoFacts DEF Inactive, Live, Owns
  <2>10. alone' => Backed'
    BY <1>1, <2>1, InFacts DEF Backed, Live
  <2>11. QED
    BY <2>2, <2>3, <2>4, <2>5, <2>6, <2>7, <2>8, <2>9, <2>10 DEF IInv
<1>4. QED
  BY <1>2, <1>3

\* The final of the row's turn makes the row ready; any other only ends the
\* writer's turn.
LEMMA TurnEndsKeeps == ASSUME IInv, TurnEnds PROVE IInv'
<1>1. /\ TypeOK /\ RowsOK /\ QueueOK /\ OneTurnPerKey /\ LaunchOK /\ LeavingOK
      /\ alone => OneAtATime /\ Inactive /\ Backed
  BY DEF IInv
<1>2. CASE session.turn = writer.turn
  <2>1. /\ session' = In("ready") /\ writer.turn # NoTurn /\ writer' \in Writers
        /\ writer'.no = writer.no /\ writer'.turn = NoTurn /\ writer'.leaving = writer.leaving
        /\ UNCHANGED <<launch, queue, send, handler, stored, boot, writers, turns, left, starts,
                       torn, alone, refused>>
    BY <1>1, <1>2, NoFacts DEF TurnEnds, ghosts, bounds, TypeOK, Writers
  <2>2. TypeOK'
    BY <1>1, <1>2, <2>1, InFacts DEF TypeOK
  <2>3. RowsOK'
    BY <1>1, <1>2, <2>1, InFacts DEF RowsOK
  <2>4. QueueOK'
    BY <1>1, <1>2, <2>1 DEF QueueOK, Key1
  <2>5. OneTurnPerKey'
    BY <1>1, <1>2, <2>1 DEF OneTurnPerKey, Key1
  <2>6. LaunchOK'
    BY <1>1, <1>2, <2>1 DEF LaunchOK
  <2>7. LeavingOK'
    BY <1>1, <1>2, <2>1 DEF LeavingOK
  <2>8. alone' => OneAtATime'
    BY <1>1, <1>2, <2>1 DEF OneAtATime
  <2>9. alone' => Inactive'
    BY <1>1, <1>2, <2>1 DEF RowsOK, RowOK, Inactive, Live, Owns
  <2>10. alone' => Backed'
    BY <1>1, <1>2, <2>1 DEF RowsOK, RowOK, Backed, Owns, Live
  <2>11. QED
    BY <2>2, <2>3, <2>4, <2>5, <2>6, <2>7, <2>8, <2>9, <2>10 DEF IInv
<1>3. CASE session.turn # writer.turn
  <2>1. /\ writer' \in Writers /\ writer'.no = writer.no /\ writer'.turn = NoTurn
        /\ writer'.leaving = writer.leaving
        /\ UNCHANGED <<session, launch, queue, send, handler, stored, boot, writers, turns, left,
                       starts, torn, alone, refused>>
    BY <1>1, <1>3, NoFacts DEF TurnEnds, ghosts, bounds, TypeOK, Writers
  <2>2. TypeOK'
    BY <1>1, <2>1 DEF TypeOK
  <2>3. RowsOK'
    BY <1>1, <2>1 DEF RowsOK
  <2>4. QueueOK'
    BY <1>1, <2>1 DEF QueueOK, Key1
  <2>5. OneTurnPerKey'
    BY <1>1, <2>1 DEF OneTurnPerKey, Key1
  <2>6. LaunchOK'
    BY <1>1, <2>1 DEF LaunchOK
  <2>7. LeavingOK'
    BY <1>1, <2>1 DEF LeavingOK
  <2>8. alone' => OneAtATime'
    BY <1>1, <2>1 DEF OneAtATime
  <2>9. alone' => Inactive'
    BY <1>1, <2>1 DEF Inactive, Owns
  <2>10. alone' => Backed'
    BY <1>1, <2>1 DEF Backed, Owns
  <2>11. QED
    BY <2>2, <2>3, <2>4, <2>5, <2>6, <2>7, <2>8, <2>9, <2>10 DEF IInv
<1>4. QED
  BY <1>2, <1>3

-----------------------------------------------------------------------------
(* -------------------------------- Send --------------------------------- *)
\* A key that has no operation joins the queue.
LEMMA SendKeeps == ASSUME IInv, NEW k \in Key, Send(k) PROVE IInv'
<1>1. /\ TypeOK /\ RowsOK /\ QueueOK /\ OneTurnPerKey /\ LaunchOK /\ LeavingOK
      /\ alone => OneAtATime /\ Inactive /\ Backed
  BY DEF IInv
<1>2. /\ queue' \in Seq(Key) /\ Len(queue') <= Cardinality(Key) /\ Distinct(queue')
      /\ queue' # <<>> /\ (queue # <<>> => Key1' = Key1)
  BY <1>1, AppendFacts DEF Send, Key1
<1>3. /\ alone' = (alone /\ (Busy => queue # <<>>)) /\ refused' = (refused /\ alone')
      /\ UNCHANGED <<session, writer, launch, send, handler, stored, boot, writers, turns, left,
                     starts, torn>>
  BY <1>1 DEF Send, bounds
<1>4. TypeOK'
  BY <1>1, <1>2, <1>3 DEF TypeOK
<1>5. RowsOK'
  BY <1>1, <1>2, <1>3 DEF RowsOK
<1>6. QueueOK'
  BY <1>1, <1>2, <1>3 DEF QueueOK
<1>7. OneTurnPerKey'
  BY <1>1, <1>2, <1>3 DEF QueueOK, OneTurnPerKey
<1>8. LaunchOK'
  BY <1>1, <1>2, <1>3 DEF LaunchOK
<1>9. LeavingOK'
  BY <1>1, <1>2, <1>3 DEF LeavingOK
<1>10. alone' => OneAtATime'
  BY <1>1, <1>2, <1>3 DEF OneAtATime, Busy
<1>11. alone' => Inactive'
  BY <1>1, <1>2, <1>3 DEF Inactive, Owns
<1>12. alone' => Backed'
  BY <1>1, <1>2, <1>3 DEF Backed, Owns
<1>13. QED
  BY <1>4, <1>5, <1>6, <1>7, <1>8, <1>9, <1>10, <1>11, <1>12 DEF IInv

\* An operation that has the session is answered at once, or looks up its policy.
LEMMA EnterKeeps == ASSUME IInv, Enter PROVE IInv'
<1>1. /\ TypeOK /\ RowsOK /\ QueueOK /\ OneTurnPerKey /\ LaunchOK /\ LeavingOK
      /\ alone => OneAtATime /\ Inactive /\ Backed
  BY DEF IInv
<1>2. /\ queue # <<>> /\ send.at = "wait" /\ send' \in Sends /\ RowOK(send'.was)
      /\ send'.at \in {"wait", "policy"}
      /\ UNCHANGED <<session, writer, launch, handler, stored, boot, writers, turns, left,
                     starts, torn, alone, refused>>
  BY <1>1, NoFacts, InFacts DEF Enter, Pop, ghosts, bounds, Sends, TypeOK, RowsOK
<1>3. ASSUME Pop
      PROVE  TypeOK' /\ QueueOK' /\ OneTurnPerKey' /\ (alone' => OneAtATime')
  <2>1. Popped
    BY <1>1, <1>2, <1>3, PopIs
  <2>2. TypeOK'
    BY <1>1, <1>2, <2>1 DEF TypeOK, Popped
  <2>3. QueueOK'
    BY <1>1, <1>2, <2>1, NoFacts DEF QueueOK, Popped
  <2>4. OneTurnPerKey'
    BY <1>1, <1>2, <2>1, NoFacts DEF OneTurnPerKey, Popped
  <2>5. alone' => OneAtATime'
    BY <1>1, <1>2 DEF OneAtATime
  <2>6. QED
    BY <2>2, <2>3, <2>4, <2>5
<1>4. ASSUME ~Replays(Key1), send' = [NoSend EXCEPT !.at = "policy", !.was = session],
             UNCHANGED queue
      PROVE  TypeOK' /\ QueueOK' /\ OneTurnPerKey' /\ (alone' => OneAtATime')
  <2>1. send'.at = "policy" /\ Key1 \notin stored
    BY <1>4, NoFacts DEF Sends, Replays
  <2>2. TypeOK'
    BY <1>1, <1>2, <1>4 DEF TypeOK
  <2>3. QueueOK'
    BY <1>1, <1>2, <1>4, <2>1 DEF QueueOK, Key1
  <2>4. OneTurnPerKey'
    BY <1>1, <1>2, <1>4, <2>1 DEF OneTurnPerKey, Key1
  <2>5. alone' => OneAtATime'
    BY <1>1, <1>2, <1>4 DEF OneAtATime
  <2>6. QED
    BY <2>2, <2>3, <2>4, <2>5
<1>5. TypeOK' /\ QueueOK' /\ OneTurnPerKey' /\ (alone' => OneAtATime')
  BY <1>3, <1>4 DEF Enter
<1>6. RowsOK'
  BY <1>1, <1>2 DEF RowsOK
<1>7. LaunchOK'
  BY <1>1, <1>2 DEF LaunchOK
<1>8. LeavingOK'
  BY <1>1, <1>2 DEF LeavingOK
<1>9. alone' => Inactive'
  BY <1>1, <1>2 DEF Inactive
<1>10. alone' => Backed'
  BY <1>1, <1>2 DEF Backed, Owns
<1>11. QED
  BY <1>5, <1>6, <1>7, <1>8, <1>9, <1>10 DEF IInv

\* It is refused, goes on with the session's own writer, or acquires one.
LEMMA EnsureKeeps == ASSUME IInv, Ensure PROVE IInv'
<1>1. /\ TypeOK /\ RowsOK /\ QueueOK /\ OneTurnPerKey /\ LaunchOK /\ LeavingOK
      /\ alone => OneAtATime /\ Inactive /\ Backed
  BY DEF IInv
<1>2. /\ send.at = "policy" /\ queue # <<>> /\ Key1 \notin stored /\ launch["send"] = "none"
      /\ UNCHANGED <<writer, handler, stored, boot, writers, turns, left, starts, torn, alone,
                     refused>>
  BY <1>1, ConstantFacts DEF Ensure, ghosts, bounds, QueueOK, LaunchOK
<1>3. CASE Pop /\ UNCHANGED <<session, launch>>
  <2>1. Popped
    BY <1>1, <1>2, <1>3, PopIs
  <2>2. TypeOK'
    BY <1>1, <1>2, <1>3, <2>1, NoFacts DEF TypeOK, Popped
  <2>3. RowsOK'
    BY <1>1, <1>2, <1>3, <2>1, InFacts, NoFacts DEF RowsOK, Popped
  <2>4. QueueOK'
    BY <1>1, <1>2, <2>1, NoFacts DEF QueueOK, Popped
  <2>5. OneTurnPerKey'
    BY <1>1, <1>2, <2>1, NoFacts DEF OneTurnPerKey, Popped
  <2>6. LaunchOK'
    BY <1>1, <1>2, <1>3 DEF LaunchOK
  <2>7. LeavingOK'
    BY <1>1, <1>2 DEF LeavingOK
  <2>8. alone' => OneAtATime'
    BY <1>1, <1>2 DEF OneAtATime
  <2>9. alone' => Inactive'
    BY <1>1, <1>2, <1>3, <2>1, NoFacts DEF Inactive, Popped
  <2>10. alone' => Backed'
    BY <1>1, <1>2, <1>3 DEF Backed, Owns
  <2>11. QED
    BY <2>2, <2>3, <2>4, <2>5, <2>6, <2>7, <2>8, <2>9, <2>10 DEF IInv
<1>4. CASE /\ Owns /\ UNCHANGED <<queue, launch>>
           /\ \E found \in BOOLEAN :
                 /\ session' = IF found THEN send.was ELSE session
                 /\ send' = [send EXCEPT !.at = "check", !.snap = send.was, !.acquired = found]
  <2>1. PICK found \in BOOLEAN :
            /\ session' = IF found THEN send.was ELSE session
            /\ send' = [send EXCEPT !.at = "check", !.snap = send.was, !.acquired = found]
    BY <1>4
  <2>2. send' \in Sends /\ send'.at = "check" /\ send'.was = send.was
    BY <1>1, <2>1, Fields DEF TypeOK, Sends
  <2>3. session' \in Row /\ RowOK(session')
    BY <1>1, <2>1, Fields DEF TypeOK, RowsOK
  <2>4. TypeOK'
    BY <1>1, <1>2, <1>4, <2>2, <2>3 DEF TypeOK, RowOK
  <2>5. RowsOK'
    BY <1>1, <1>2, <2>2, <2>3 DEF RowsOK
  <2>6. QueueOK'
    BY <1>1, <1>2, <1>4, <2>2 DEF QueueOK, Key1
  <2>7. OneTurnPerKey'
    BY <1>1, <1>2, <1>4, <2>2 DEF OneTurnPerKey, Key1
  <2>8. LaunchOK'
    BY <1>1, <1>2, <1>4 DEF LaunchOK
  <2>9. LeavingOK'
    BY <1>1, <1>2 DEF LeavingOK
  <2>10. alone' => OneAtATime'
    BY <1>1, <1>2, <1>4 DEF OneAtATime
  <2>11. alone' => Inactive'
    BY <1>1, <1>2, <2>2, SendHasIt DEF Inactive
  <2>12. alone' => Backed'
    BY <2>2 DEF Backed
  <2>13. QED
    BY <2>4, <2>5, <2>6, <2>7, <2>8, <2>9, <2>10, <2>11, <2>12 DEF IInv
<1>5. CASE /\ ~Owns /\ Launching
           /\ send' = [send EXCEPT !.at = "acquire"] /\ UNCHANGED <<session, queue>>
  <2>1. send' \in Sends /\ send'.at = "acquire" /\ send'.was = send.was
    BY <1>1, <1>5 DEF TypeOK, Sends
  <2>2. OnlyLaunch("send") /\ launch'["send"] = "resuming"
    BY <1>1, <1>5, LaunchIs, ConstantFacts DEF Launching, Launches
  <2>3. TypeOK'
    BY <1>1, <1>2, <1>5, <2>1, <2>2 DEF TypeOK, OnlyLaunch
  <2>4. RowsOK'
    BY <1>1, <1>2, <1>5, <2>1 DEF RowsOK
  <2>5. QueueOK'
    BY <1>1, <1>2, <1>5, <2>1 DEF QueueOK, Key1
  <2>6. OneTurnPerKey'
    BY <1>1, <1>2, <1>5, <2>1 DEF OneTurnPerKey, Key1
  <2>7. LaunchOK'
    BY <1>1, <1>2, <2>1, <2>2, ConstantFacts DEF LaunchOK, OnlyLaunch
  <2>8. LeavingOK'
    BY <1>1, <1>2 DEF LeavingOK
  <2>9. alone' => OneAtATime'
    BY <1>1, <1>2, <1>5 DEF OneAtATime
  <2>10. alone' => Inactive'
    BY <1>1, <1>2, <1>5, <2>1, <2>2 DEF Inactive, Owns
  <2>11. alone' => Backed'
    BY <1>1, <1>2, <1>5 DEF Backed, Owns
  <2>12. QED
    BY <2>3, <2>4, <2>5, <2>6, <2>7, <2>8, <2>9, <2>10, <2>11 DEF IInv
<1>6. QED
  BY <1>3, <1>4, <1>5 DEF Ensure

\* A session that acquired a writer is saved, even when the writer has exited.
LEMMA AcquiredKeeps == ASSUME IInv, Acquired PROVE IInv'
<1>1. /\ TypeOK /\ RowsOK /\ QueueOK /\ OneTurnPerKey /\ LaunchOK /\ LeavingOK
      /\ alone => OneAtATime /\ Inactive /\ Backed
  BY DEF IInv
<1>2. /\ send.at = "acquire" /\ session' = In("ready")
      /\ send' = [send EXCEPT !.at = "check", !.snap = In("ready"), !.acquired = TRUE]
      /\ UNCHANGED <<writer, queue, handler, stored, boot, writers, turns, left, starts, torn,
                     alone, refused>>
  BY <1>1 DEF Acquired, ghosts, bounds
<1>3. send' \in Sends /\ send'.at = "check" /\ send'.was = send.was
  BY <1>1, <1>2, InFacts DEF TypeOK, Sends
<1>4. OnlyLaunch("send") /\ launch'["send"] = "none"
  BY <1>1, LaunchIs, ConstantFacts DEF Acquired, Landing, Launches
<1>5. TypeOK'
  BY <1>1, <1>2, <1>3, <1>4, InFacts DEF TypeOK, OnlyLaunch
<1>6. RowsOK'
  BY <1>1, <1>2, <1>3, InFacts DEF RowsOK
<1>7. QueueOK'
  BY <1>1, <1>2, <1>3 DEF QueueOK, Key1
<1>8. OneTurnPerKey'
  BY <1>1, <1>2, <1>3 DEF OneTurnPerKey, Key1
<1>9. LaunchOK'
  BY <1>1, <1>2, <1>4, ConstantFacts DEF LaunchOK, OnlyLaunch
<1>10. LeavingOK'
  BY <1>1, <1>2 DEF LeavingOK
<1>11. alone' => OneAtATime'
  BY <1>1, <1>2 DEF OneAtATime
<1>12. alone' => Inactive'
  BY <1>1, <1>2, <1>3, SendHasIt DEF Inactive
<1>13. alone' => Backed'
  BY <1>3 DEF Backed
<1>14. QED
  BY <1>5, <1>6, <1>7, <1>8, <1>9, <1>10, <1>11, <1>12, <1>13 DEF IInv

\* A send without a writer is answered.
LEMMA NotAcquiredKeeps == ASSUME IInv, NotAcquired PROVE IInv'
<1>1. /\ TypeOK /\ RowsOK /\ QueueOK /\ OneTurnPerKey /\ LaunchOK /\ LeavingOK
      /\ alone => OneAtATime /\ Inactive /\ Backed
  BY DEF IInv
<1>2. /\ send.at = "acquire" /\ queue # <<>> /\ session' \in {In("stopped"), session}
      /\ UNCHANGED <<writer, handler, stored, boot, writers, turns, left, starts, torn, alone,
                     refused>>
  BY <1>1 DEF NotAcquired, ghosts, bounds, QueueOK
<1>3. Popped
  BY <1>1, <1>2, PopIs DEF NotAcquired
<1>4. OnlyLaunch("send") /\ launch'["send"] = "none"
  BY <1>1, LaunchIs, ConstantFacts DEF NotAcquired, Landing, Launches
<1>5. session' \in Row /\ RowOK(session') /\ (Live(session') => session' = session)
  BY <1>1, <1>2, InFacts DEF TypeOK, RowsOK, Live
<1>6. TypeOK'
  BY <1>1, <1>2, <1>3, <1>4, <1>5, NoFacts DEF TypeOK, RowOK, OnlyLaunch, Popped
<1>7. RowsOK'
  BY <1>1, <1>2, <1>3, <1>5, InFacts, NoFacts DEF RowsOK, Popped
<1>8. QueueOK'
  BY <1>1, <1>2, <1>3, NoFacts DEF QueueOK, Popped
<1>9. OneTurnPerKey'
  BY <1>1, <1>2, <1>3, NoFacts DEF OneTurnPerKey, Popped
<1>10. LaunchOK'
  BY <1>1, <1>2, <1>4, ConstantFacts DEF LaunchOK, OnlyLaunch
<1>11. LeavingOK'
  BY <1>1, <1>2 DEF LeavingOK
<1>12. alone' => OneAtATime'
  BY <1>1, <1>2 DEF OneAtATime
<1>13. alone' => Inactive'
  BY <1>1, <1>2, <1>3, NoFacts, SendHasIt DEF Inactive, Popped
<1>14. alone' => Backed'
  BY <1>1, <1>2, <1>5 DEF Backed, Owns
<1>15. QED
  BY <1>6, <1>7, <1>8, <1>9, <1>10, <1>11, <1>12, <1>13, <1>14 DEF IInv

\* A recycle gives the writer up before the next one resumes.
LEMMA RecycleKeeps == ASSUME IInv, Recycle PROVE IInv'
<1>1. /\ TypeOK /\ RowsOK /\ QueueOK /\ OneTurnPerKey /\ LaunchOK /\ LeavingOK
      /\ alone => OneAtATime /\ Inactive /\ Backed
  BY DEF IInv
<1>2. /\ send.at = "check" /\ writer' = NoWriter /\ send' = [send EXCEPT !.at = "recycle"]
      /\ UNCHANGED <<session, queue, handler, stored, boot, writers, turns, left, starts, torn,
                     alone, refused>>
  BY <1>1 DEF Recycle, ghosts, bounds
<1>3. send' \in Sends /\ send'.at = "recycle" /\ send'.was = send.was
  BY <1>1, <1>2 DEF TypeOK, Sends
<1>4. OnlyLaunch("send") /\ launch'["send"] = "resuming"
  BY <1>1, LaunchIs, ConstantFacts DEF Recycle, Launching, Launches
<1>5. TypeOK'
  BY <1>1, <1>2, <1>3, <1>4, NoFacts DEF TypeOK, OnlyLaunch
<1>6. RowsOK'
  BY <1>1, <1>2, <1>3 DEF RowsOK
<1>7. QueueOK'
  BY <1>1, <1>2, <1>3 DEF QueueOK, Key1
<1>8. OneTurnPerKey'
  BY <1>1, <1>2, <1>3 DEF OneTurnPerKey, Key1
<1>9. LaunchOK'
  BY <1>1, <1>2, <1>3, <1>4, ConstantFacts DEF LaunchOK, OnlyLaunch
<1>10. LeavingOK'
  BY <1>1, <1>2, NoFacts DEF LeavingOK
<1>11. alone' => OneAtATime'
  BY <1>1, <1>2 DEF OneAtATime
<1>12. alone' => Inactive'
  BY <1>1, <1>2, <1>3, <1>4, NoFacts DEF Inactive, Owns
<1>13. alone' => Backed'
  BY <1>3, <1>4 DEF Backed
<1>14. QED
  BY <1>5, <1>6, <1>7, <1>8, <1>9, <1>10, <1>11, <1>12, <1>13 DEF IInv

\* The next writer has resumed and is there.
LEMMA RecycledKeeps == ASSUME IInv, Recycled PROVE IInv'
<1>1. /\ TypeOK /\ RowsOK /\ QueueOK /\ OneTurnPerKey /\ LaunchOK /\ LeavingOK
      /\ alone => OneAtATime /\ Inactive /\ Backed
  BY DEF IInv
<1>2. /\ send.at = "recycle" /\ Owns
      /\ send' = [send EXCEPT !.at = "recycled", !.snap = In("ready")]
      /\ UNCHANGED <<session, writer, queue, handler, stored, boot, writers, turns, left,
                     starts, torn, alone, refused>>
  BY <1>1 DEF Recycled, ghosts, bounds
<1>3. send' \in Sends /\ send'.at = "recycled" /\ send'.was = send.was
  BY <1>1, <1>2, InFacts DEF TypeOK, Sends
<1>4. OnlyLaunch("send") /\ launch'["send"] = "none"
  BY <1>1, LaunchIs, ConstantFacts DEF Recycled, Landing, Launches
<1>5. TypeOK'
  BY <1>1, <1>2, <1>3, <1>4 DEF TypeOK, OnlyLaunch
<1>6. RowsOK'
  BY <1>1, <1>2, <1>3 DEF RowsOK
<1>7. QueueOK'
  BY <1>1, <1>2, <1>3 DEF QueueOK, Key1
<1>8. OneTurnPerKey'
  BY <1>1, <1>2, <1>3 DEF OneTurnPerKey, Key1
<1>9. LaunchOK'
  BY <1>1, <1>2, <1>4, ConstantFacts DEF LaunchOK, OnlyLaunch
<1>10. LeavingOK'
  BY <1>1, <1>2 DEF LeavingOK
<1>11. alone' => OneAtATime'
  BY <1>1, <1>2 DEF OneAtATime
<1>12. alone' => Inactive'
  BY <1>1, <1>2, <1>3 DEF Inactive
<1>13. alone' => Backed'
  BY <1>2 DEF Backed, Owns
<1>14. QED
  BY <1>5, <1>6, <1>7, <1>8, <1>9, <1>10, <1>11, <1>12, <1>13 DEF IInv

\* The app-server takes one turn for the key.
LEMMA TakeKeeps == ASSUME IInv, Take PROVE IInv'
<1>1. /\ TypeOK /\ RowsOK /\ QueueOK /\ OneTurnPerKey /\ LaunchOK /\ LeavingOK
      /\ alone => OneAtATime /\ Inactive /\ Backed
  BY DEF IInv
<1>2. /\ send.at \in {"check", "recycled"} /\ Owns /\ turns' = turns + 1 /\ turns < MaxTurns
      /\ writer' = [writer EXCEPT !.turn = turns + 1] /\ starts' = [starts EXCEPT ![Key1] = @ + 1]
      /\ send' = [send EXCEPT !.at = "taken", !.target = writer.no, !.turn = turns + 1]
      /\ UNCHANGED <<session, launch, queue, handler, stored, boot, writers, left, torn, alone,
                     refused>>
  BY <1>1 DEF Take, ghosts
<1>3. /\ turns' # NoTurn /\ turns + 1 \in 0 .. MaxTurns /\ Key1 \in Key /\ queue # <<>>
      /\ Key1 \notin stored
  BY <1>1, <1>2, TailFacts, ConstantFacts, SMTT(40) DEF TypeOK, QueueOK, NoTurn
<1>4. /\ writer' \in Writers /\ writer'.no = writer.no /\ writer'.turn = turns + 1
      /\ writer'.leaving = writer.leaving
  BY <1>1, <1>2, <1>3 DEF TypeOK, Writers
<1>5. /\ starts' \in [Key -> Nat]
  BY <1>1, <1>2, <1>3 DEF TypeOK
<1>6. /\ send' \in Sends /\ send'.at = "taken" /\ send'.was = send.was
      /\ send'.target = writer.no /\ send'.turn = turns + 1
  BY <1>1, <1>2, <1>3, Fields DEF TypeOK, Sends
<1>7. TypeOK'
  BY <1>1, <1>2, <1>3, <1>4, <1>6, SMTT(40) DEF TypeOK
<1>8. RowsOK'
  BY <1>1, <1>2, <1>6 DEF RowsOK
<1>9. QueueOK'
  BY <1>1, <1>2, <1>3, <1>6 DEF QueueOK, Key1, Owns
<1>10. OneTurnPerKey'
  <2>1. queue' # <<>> /\ Key1' = Key1
    BY <1>1, <1>2, <1>3, <1>6 DEF Key1
  <2>2. ASSUME NEW k \in Key
        PROVE  /\ starts[k] \in Nat /\ torn[k] \in Nat /\ stored' = stored
               /\ torn'[k] = torn[k] /\ starts'[k] = starts[k] + (IF k = Key1 THEN 1 ELSE 0)
    BY <1>1, <1>2, <1>6, <2>2 DEF TypeOK
  <2>3. QED
    BY <1>1, <1>2, <1>6, <2>1, <2>2 DEF OneTurnPerKey
<1>11. LaunchOK'
  BY <1>1, <1>2, <1>6 DEF LaunchOK
<1>12. LeavingOK'
  BY <1>1, <1>2, <1>6 DEF LeavingOK
<1>13. alone' => OneAtATime'
  BY <1>1, <1>2, <1>6 DEF OneAtATime
<1>14. alone' => Inactive'
  BY <1>1, <1>2, <1>6 DEF Inactive, Owns
<1>15. alone' => Backed'
  BY <1>2, <1>4 DEF Backed, Owns
<1>16. QED
  BY <1>7, <1>8, <1>9, <1>10, <1>11, <1>12, <1>13, <1>14, <1>15 DEF IInv

\* A start that fails disposes of what it acquired, and counts the turn it lost.
LEMMA StartFailsKeeps == ASSUME IInv, StartFails PROVE IInv'
<1>1. /\ TypeOK /\ RowsOK /\ QueueOK /\ OneTurnPerKey /\ LaunchOK /\ LeavingOK
      /\ alone => OneAtATime /\ Inactive /\ Backed
  BY DEF IInv
<1>2. /\ send.at \in {"check", "recycle", "recycled", "taken"} /\ refused' = alone
      /\ queue # <<>> /\ Key1 \in Key /\ Key1 \notin stored
      /\ torn' = (IF send.at = "taken" THEN [torn EXCEPT ![Key1] = @ + 1] ELSE torn)
      /\ UNCHANGED <<handler, stored, boot, writers, turns, left, starts, alone>>
  BY <1>1, TailFacts DEF StartFails, bounds, QueueOK
<1>3. OnlyLaunch("send") /\ launch'["send"] = "none"
  BY <1>1, LaunchIs, ConstantFacts DEF StartFails, Landing, Launches
<1>4. /\ torn' \in [Key -> Nat]
      /\ \A k \in Key : starts[k] \in Nat /\ torn[k] \in Nat
  BY <1>1, <1>2, SMTT(40) DEF TypeOK
<1>5. ASSUME NEW k \in Key
      PROVE  torn'[k] = torn[k] + (IF k = Key1 /\ send.at = "taken" THEN 1 ELSE 0)
  BY <1>1, <1>2, <1>4, <1>5, SMTT(40) DEF TypeOK
<1>6. LaunchOK'
  BY <1>1, <1>2, <1>3, ConstantFacts DEF LaunchOK, OnlyLaunch
<1>7. alone' => Backed'
  BY <1>2 DEF Backed
<1>8. CASE /\ send' = [NoSend EXCEPT !.at = "cleanup", !.was = send.was]
           /\ writer' = [writer EXCEPT !.leaving = TRUE] /\ UNCHANGED <<session, queue>>
  <2>1. /\ writer' \in Writers /\ writer'.no = writer.no /\ writer'.turn = writer.turn
        /\ writer'.leaving = TRUE
    BY <1>1, <1>8 DEF TypeOK, Writers
  <2>2. send' \in Sends /\ send'.at = "cleanup" /\ send'.was = send.was
    BY <1>1, <1>8, Fields, NoFacts DEF Sends
  <2>3. TypeOK'
    BY <1>1, <1>2, <1>3, <1>4, <1>8, <2>1, <2>2 DEF TypeOK, OnlyLaunch
  <2>4. RowsOK'
    BY <1>1, <1>2, <1>8, <2>2 DEF RowsOK
  <2>5. QueueOK'
    BY <1>1, <1>2, <1>8, <2>2 DEF QueueOK, Key1
  <2>6. OneTurnPerKey'
    <3>1. queue' # <<>> /\ Key1' = Key1
      BY <1>2, <1>8 DEF Key1
    <3>2. QED
      BY <1>1, <1>2, <1>4, <1>5, <2>2, <3>1 DEF OneTurnPerKey
  <2>7. LeavingOK'
    BY <2>2 DEF LeavingOK
  <2>8. alone' => OneAtATime'
    BY <1>1, <1>2, <1>8 DEF OneAtATime
  <2>9. alone' => Inactive'
    BY <1>1, <1>2, <1>8, <2>2, SendHasIt DEF Inactive
  <2>10. QED
    BY <1>6, <1>7, <2>3, <2>4, <2>5, <2>6, <2>7, <2>8, <2>9 DEF IInv
<1>9. CASE /\ Pop /\ session' = (IF send.acquired THEN send.was ELSE session)
           /\ UNCHANGED writer
  <2>1. Popped
    BY <1>1, <1>2, <1>9, PopIs
  <2>2. session' \in Row /\ RowOK(session')
    BY <1>1, <1>9, Fields DEF TypeOK, RowsOK
  <2>3. TypeOK'
    BY <1>1, <1>2, <1>3, <1>4, <1>9, <2>1, <2>2, NoFacts DEF TypeOK, RowOK, OnlyLaunch, Popped
  <2>4. RowsOK'
    BY <1>1, <1>2, <2>1, <2>2, InFacts, NoFacts DEF RowsOK, Popped
  <2>5. QueueOK'
    BY <1>1, <1>2, <2>1, NoFacts DEF QueueOK, Popped
  <2>6. OneTurnPerKey'
    BY <1>1, <1>2, <1>4, <1>5, <2>1, NoFacts, SMTT(40) DEF OneTurnPerKey, Popped
  <2>7. LeavingOK'
    BY <1>1, <1>2, <1>9 DEF LeavingOK
  <2>8. alone' => OneAtATime'
    BY <1>1, <1>2 DEF OneAtATime
  <2>9. alone' => Inactive'
    BY <1>1, <1>2, <2>1, NoFacts, SendHasIt DEF Inactive, Popped
  <2>10. QED
    BY <1>6, <1>7, <2>3, <2>4, <2>5, <2>6, <2>7, <2>8, <2>9 DEF IInv
<1>10. QED
  BY <1>8, <1>9 DEF StartFails, Throw

\* The turn becomes the row's.
LEMMA StartedKeeps == ASSUME IInv, Started PROVE IInv'
<1>1. /\ TypeOK /\ RowsOK /\ QueueOK /\ OneTurnPerKey /\ LaunchOK /\ LeavingOK
      /\ alone => OneAtATime /\ Inactive /\ Backed
  BY DEF IInv
<1>2. /\ send.at = "taken" /\ session' = [state |-> "turnActive", turn |-> send.turn]
      /\ send' = [NoSend EXCEPT !.at = "put"] /\ writer.no = send.target
      /\ UNCHANGED <<writer, launch, queue, handler, stored, boot, writers, turns, left, starts,
                     torn, alone, refused>>
  BY <1>1 DEF Started, ghosts, bounds
<1>3. send' \in Sends /\ send'.at = "put" /\ send'.was = In("stopped")
  BY <1>1, <1>2, NoFacts DEF Sends
<1>4. /\ session' \in Row /\ session'.state = "turnActive" /\ session'.turn = send.turn
      /\ send.turn # NoTurn /\ writer.no # 0
  BY <1>1, <1>2, Fields DEF Row, QueueOK
<1>5. TypeOK'
  BY <1>1, <1>2, <1>3, <1>4 DEF TypeOK
<1>6. RowsOK'
  BY <1>1, <1>2, <1>3, <1>4, InFacts DEF RowsOK, RowOK
<1>7. QueueOK'
  BY <1>1, <1>2, <1>3 DEF QueueOK, Key1
<1>8. OneTurnPerKey'
  BY <1>1, <1>2, <1>3 DEF OneTurnPerKey, Key1
<1>9. LaunchOK'
  BY <1>1, <1>2 DEF LaunchOK
<1>10. LeavingOK'
  BY <1>1, <1>2 DEF LeavingOK
<1>11. alone' => OneAtATime'
  BY <1>1, <1>2 DEF OneAtATime
<1>12. alone' => Inactive'
  BY <1>1, <1>2, <1>3, SendHasIt DEF Inactive
<1>13. alone' => Backed'
  BY <1>1, <1>2, <1>4 DEF Backed, Owns
<1>14. QED
  BY <1>5, <1>6, <1>7, <1>8, <1>9, <1>10, <1>11, <1>12, <1>13 DEF IInv

\* The durable response replaces the operation.
LEMMA PutKeeps == ASSUME IInv, Put PROVE IInv'
<1>1. /\ TypeOK /\ RowsOK /\ QueueOK /\ OneTurnPerKey /\ LaunchOK /\ LeavingOK
      /\ alone => OneAtATime /\ Inactive /\ Backed
  BY DEF IInv
<1>2. /\ send.at = "put" /\ stored' = stored \cup {Key1} /\ queue # <<>> /\ Key1 \in Key
      /\ Key1 \notin stored
      /\ UNCHANGED <<session, writer, launch, handler, boot, writers, turns, left, starts, torn,
                     alone, refused>>
  BY <1>1, TailFacts DEF Put, ghosts, bounds, QueueOK
<1>3. /\ Popped
  BY <1>1, PopIs, <1>2 DEF Put
<1>4. TypeOK'
  BY <1>1, <1>2, <1>3, NoFacts DEF TypeOK, Popped
<1>5. RowsOK'
  BY <1>1, <1>2, <1>3, InFacts, NoFacts DEF RowsOK, Popped
<1>6. QueueOK'
  BY <1>1, <1>2, <1>3, NoFacts DEF QueueOK, Popped
<1>7. OneTurnPerKey'
  BY <1>1, <1>2, <1>3, NoFacts, SMTT(40) DEF TypeOK, OneTurnPerKey, Popped
<1>8. LaunchOK'
  BY <1>1, <1>2 DEF LaunchOK
<1>9. LeavingOK'
  BY <1>1, <1>2 DEF LeavingOK
<1>10. alone' => OneAtATime'
  BY <1>1, <1>2 DEF OneAtATime
<1>11. alone' => Inactive'
  BY <1>1, <1>2, <1>3, NoFacts DEF Inactive, Popped, Owns
<1>12. alone' => Backed'
  BY <1>1, <1>2 DEF Backed, Owns
<1>13. QED
  BY <1>4, <1>5, <1>6, <1>7, <1>8, <1>9, <1>10, <1>11, <1>12 DEF IInv

\* A send that could not start disposes of the writer it had acquired.
LEMMA CleanUpKeeps == ASSUME IInv, CleanUp PROVE IInv'
<1>1. /\ TypeOK /\ RowsOK /\ QueueOK /\ OneTurnPerKey /\ LaunchOK /\ LeavingOK
      /\ alone => OneAtATime /\ Inactive /\ Backed
  BY DEF IInv
<1>2. /\ send.at = "cleanup" /\ writer' = NoWriter /\ session' = send.was
      /\ UNCHANGED <<launch, handler, stored, boot, writers, turns, left, starts, torn, alone,
                     refused>>
  BY <1>1 DEF CleanUp, ghosts, bounds
<1>3. /\ Popped
  BY <1>1, PopIs, <1>2 DEF CleanUp, QueueOK
<1>4. TypeOK'
  BY <1>1, <1>2, <1>3, Fields, NoFacts DEF TypeOK, RowsOK, RowOK, Popped
<1>5. RowsOK'
  BY <1>1, <1>2, <1>3, InFacts, NoFacts DEF RowsOK, Popped
<1>6. QueueOK'
  BY <1>1, <1>2, <1>3, NoFacts DEF QueueOK, Popped
<1>7. OneTurnPerKey'
  BY <1>1, <1>2, <1>3, NoFacts DEF OneTurnPerKey, Popped
<1>8. LaunchOK'
  BY <1>1, <1>2 DEF LaunchOK
<1>9. LeavingOK'
  BY <1>1, <1>2, NoFacts DEF LeavingOK
<1>10. alone' => OneAtATime'
  BY <1>1, <1>2 DEF QueueOK, OneAtATime
<1>11. alone' => Inactive'
  BY <1>1, <1>2, <1>3, NoFacts, SendHasIt DEF Inactive, Popped
<1>12. alone' => Backed'
  BY <1>1, <1>2 DEF Inactive, Backed
<1>13. QED
  BY <1>4, <1>5, <1>6, <1>7, <1>8, <1>9, <1>10, <1>11, <1>12 DEF IInv

-----------------------------------------------------------------------------
(* ------------------------ Stop, Release, Open -------------------------- *)
\* Stop and Release write the row before they look for the writer.
LEMMA CloseKeeps ==
    ASSUME IInv, NEW h \in Handler, NEW state \in {"stopped", "released"}, Close(h, state)
    PROVE  IInv'
<1>1. /\ TypeOK /\ RowsOK /\ QueueOK /\ OneTurnPerKey /\ LaunchOK /\ LeavingOK
      /\ alone => OneAtATime /\ Inactive /\ Backed
  BY DEF IInv
<1>2. /\ handler[h].at = "none" /\ alone' = (alone /\ ~Busy) /\ session' = In(state)
      /\ refused' = FALSE
      /\ UNCHANGED <<writer, launch, queue, send, stored, boot, writers, turns, left, starts,
                     torn>>
  BY <1>1 DEF Close, bounds
<1>3. [NoRequest EXCEPT !.at = "closing"] \in Requests
  BY <1>1, NoFacts DEF Requests
<1>4. OnlyHandler(h) /\ handler'[h] = [NoRequest EXCEPT !.at = "closing"]
  BY <1>1, <1>3, RequestIs DEF Close
<1>5. /\ OnlyHandler(h) /\ handler'[h].at = "closing" /\ handler'[h].was = In("stopped")
  BY <1>1, <1>4, NoFacts DEF Requests
<1>6. TypeOK'
  BY <1>1, <1>2, <1>5, InFacts DEF TypeOK, OnlyHandler
<1>7. RowsOK'
  BY <1>1, <1>2, <1>5, InFacts DEF RowsOK, OnlyHandler
<1>8. QueueOK'
  BY <1>1, <1>2 DEF QueueOK, Key1
<1>9. OneTurnPerKey'
  BY <1>1, <1>2 DEF OneTurnPerKey, Key1
<1>10. LaunchOK'
  BY <1>1, <1>2, <1>5 DEF LaunchOK, OnlyHandler
<1>11. LeavingOK'
  BY <1>1, <1>2, <1>5 DEF LeavingOK, OnlyHandler
<1>12. alone' => OneAtATime'
  BY <1>1, <1>2, <1>5 DEF OneAtATime, OnlyHandler, Busy
<1>13. alone' => Inactive'
  BY <1>1, <1>2, <1>5, InFacts DEF QueueOK, Inactive, OnlyHandler, Live, Busy
<1>14. alone' => Backed'
  BY <1>1, <1>2, InFacts DEF Backed, Live
<1>15. QED
  BY <1>6, <1>7, <1>8, <1>9, <1>10, <1>11, <1>12, <1>13, <1>14 DEF IInv

\* Stop and Release tell the writer to leave.
LEMMA LeaveKeeps == ASSUME IInv, NEW h \in Handler, Leave(h) PROVE IInv'
<1>1. /\ TypeOK /\ RowsOK /\ QueueOK /\ OneTurnPerKey /\ LaunchOK /\ LeavingOK
      /\ alone => OneAtATime /\ Inactive /\ Backed
  BY DEF IInv
<1>2. CASE Owns
  <2>1. /\ handler[h].at = "closing" /\ writer' \in Writers /\ writer'.no = writer.no
        /\ writer'.turn = writer.turn /\ writer'.leaving = TRUE
        /\ UNCHANGED <<session, launch, queue, send, stored, boot, writers, turns, left, starts,
                       torn, alone, refused>>
    BY <1>1, <1>2 DEF Leave, ghosts, bounds, TypeOK, Writers
  <2>2. [handler[h] EXCEPT !.at = "unsubscribing"] \in Requests
    BY <1>1, <1>2, ZenonT(60) DEF Requests, TypeOK
  <2>3. OnlyHandler(h) /\ handler'[h] = [handler[h] EXCEPT !.at = "unsubscribing"]
    BY <1>1, <1>2, <2>2, RequestIs DEF Leave
  <2>4. /\ OnlyHandler(h) /\ handler'[h].at = "unsubscribing" /\ handler'[h].was = handler[h].was
    BY <1>1, <1>2, <2>3 DEF Requests
  <2>5. TypeOK'
    BY <1>1, <1>2, <2>1, <2>4 DEF TypeOK, OnlyHandler
  <2>6. RowsOK'
    BY <1>1, <1>2, <2>1, <2>4 DEF RowsOK, OnlyHandler
  <2>7. QueueOK'
    BY <1>1, <1>2, <2>1 DEF QueueOK, Key1
  <2>8. OneTurnPerKey'
    BY <1>1, <1>2, <2>1 DEF OneTurnPerKey, Key1
  <2>9. LaunchOK'
    BY <1>1, <1>2, <2>1, <2>4 DEF LaunchOK, OnlyHandler
  <2>10. LeavingOK'
    BY <1>1, <1>2, <2>1, <2>4 DEF LeavingOK
  <2>11. alone' => OneAtATime'
    BY <1>1, <1>2, <2>1, <2>4 DEF OneAtATime, OnlyHandler
  <2>12. alone' => Inactive'
    BY <1>1, <1>2, <2>1, <2>4 DEF Inactive, OnlyHandler, Owns
  <2>13. alone' => Backed'
    BY <1>1, <1>2, <2>1 DEF Inactive, Backed
  <2>14. QED
    BY <2>5, <2>6, <2>7, <2>8, <2>9, <2>10, <2>11, <2>12, <2>13 DEF IInv
<1>3. CASE ~Owns
  <2>1. /\ handler[h].at = "closing"
        /\ UNCHANGED <<session, writer, launch, queue, send, stored, boot, writers, turns, left,
                       starts, torn, alone, refused>>
    BY <1>1, <1>3 DEF Leave, ghosts, bounds
  <2>2. NoRequest \in Requests
    BY <1>1, NoFacts DEF Requests
  <2>3. OnlyHandler(h) /\ handler'[h] = NoRequest
    BY <1>1, <1>3, <2>2, RequestIs DEF Leave
  <2>4. /\ OnlyHandler(h) /\ handler'[h].at = "none" /\ handler'[h].was = In("stopped")
    BY <1>1, <2>3, NoFacts DEF Requests
  <2>5. TypeOK'
    BY <1>1, <2>1, <2>4 DEF TypeOK, OnlyHandler
  <2>6. RowsOK'
    BY <1>1, <2>1, <2>4, InFacts DEF RowsOK, OnlyHandler
  <2>7. QueueOK'
    BY <1>1, <2>1 DEF QueueOK, Key1
  <2>8. OneTurnPerKey'
    BY <1>1, <2>1 DEF OneTurnPerKey, Key1
  <2>9. LaunchOK'
    BY <1>1, <2>1, <2>4 DEF LaunchOK, OnlyHandler
  <2>10. LeavingOK'
    BY <1>1, <2>1, <2>4 DEF LeavingOK, OnlyHandler
  <2>11. alone' => OneAtATime'
    BY <1>1, <2>1, <2>4 DEF OneAtATime, OnlyHandler
  <2>12. alone' => Inactive'
    BY <1>1, <2>1, <2>4 DEF Inactive, OnlyHandler, Owns
  <2>13. alone' => Backed'
    BY <1>1, <1>3, <2>1 DEF Backed
  <2>14. QED
    BY <2>5, <2>6, <2>7, <2>8, <2>9, <2>10, <2>11, <2>12, <2>13 DEF IInv
<1>4. QED
  BY <1>2, <1>3

\* Stop and Release dispose of the writer.
LEMMA ClosedKeeps == ASSUME IInv, NEW h \in Handler, Closed(h) PROVE IInv'
<1>1. /\ TypeOK /\ RowsOK /\ QueueOK /\ OneTurnPerKey /\ LaunchOK /\ LeavingOK
      /\ alone => OneAtATime /\ Inactive /\ Backed
  BY DEF IInv
<1>2. /\ handler[h].at = "unsubscribing" /\ writer' = NoWriter
      /\ UNCHANGED <<session, launch, queue, send, stored, boot, writers, turns, left, starts,
                     torn, alone, refused>>
  BY <1>1 DEF Closed, ghosts, bounds
<1>3. NoRequest \in Requests
  BY <1>1, NoFacts DEF Requests
<1>4. OnlyHandler(h) /\ handler'[h] = NoRequest
  BY <1>1, <1>3, RequestIs DEF Closed
<1>5. /\ OnlyHandler(h) /\ handler'[h].at = "none" /\ handler'[h].was = In("stopped")
  BY <1>1, <1>4, NoFacts DEF Requests
<1>6. TypeOK'
  BY <1>1, <1>2, <1>5, NoFacts DEF TypeOK, OnlyHandler
<1>7. RowsOK'
  BY <1>1, <1>2, <1>5, InFacts DEF RowsOK, OnlyHandler
<1>8. QueueOK'
  BY <1>1, <1>2 DEF QueueOK, Key1
<1>9. OneTurnPerKey'
  BY <1>1, <1>2 DEF OneTurnPerKey, Key1
<1>10. LaunchOK'
  BY <1>1, <1>2, <1>5 DEF LaunchOK, OnlyHandler
<1>11. LeavingOK'
  BY <1>1, <1>2, NoFacts DEF LeavingOK
<1>12. alone' => OneAtATime'
  BY <1>1, <1>2, <1>5 DEF OneAtATime, OnlyHandler
<1>13. alone' => Inactive'
  BY <1>1, <1>2, <1>5, NoFacts DEF Inactive, OnlyHandler, Owns
<1>14. alone' => Backed'
  BY <1>1, <1>2 DEF Inactive, Backed
<1>15. QED
  BY <1>6, <1>7, <1>8, <1>9, <1>10, <1>11, <1>12, <1>13, <1>14 DEF IInv

\* Open marks the row recovering.
LEMMA OpenKeeps == ASSUME IInv, NEW h \in Handler, Open(h) PROVE IInv'
<1>1. /\ TypeOK /\ RowsOK /\ QueueOK /\ OneTurnPerKey /\ LaunchOK /\ LeavingOK
      /\ alone => OneAtATime /\ Inactive /\ Backed
  BY DEF IInv
<1>2. /\ handler[h].at = "none" /\ (CanRestore(session) \/ (Live(session) /\ ~Owns))
      /\ alone' = (alone /\ ~Busy) /\ session' = In("recovering")
      /\ refused' = FALSE
      /\ UNCHANGED <<writer, queue, send, stored, boot, writers, turns, left, starts, torn>>
  BY <1>1 DEF Open, bounds
<1>3. PICK row \in Row : /\ Request(h, [at |-> "opening", was |-> row])
                         /\ row = IF CanRestore(session) THEN session ELSE In("stopped")
  BY <1>1, InFacts DEF Open, TypeOK
<1>4. RowOK(row) /\ ~Live(row)
  BY <1>1, <1>3, InFacts DEF RowsOK, CanRestore, Live
<1>5. OnlyHandler(h) /\ handler'[h].at = "opening" /\ handler'[h].was = row
  <2>1. [at |-> "opening", was |-> row] \in Requests
    BY <1>3 DEF Requests
  <2>2. QED
    BY <1>1, <1>3, <2>1, RequestIs
<1>6. /\ OnlyLaunch(h) /\ launch'[h] = "resuming"
  BY <1>1, LaunchIs, ConstantFacts DEF Open, Launches
<1>7. TypeOK'
  BY <1>1, <1>2, <1>5, <1>6, InFacts DEF TypeOK, OnlyLaunch, OnlyHandler
<1>8. RowsOK'
  BY <1>1, <1>2, <1>4, <1>5, InFacts DEF RowsOK, OnlyHandler
<1>9. QueueOK'
  BY <1>1, <1>2, <1>6 DEF QueueOK, Key1
<1>10. OneTurnPerKey'
  BY <1>1, <1>2, <1>6 DEF OneTurnPerKey, Key1
<1>11. LaunchOK'
  BY <1>1, <1>2, <1>5, <1>6, ConstantFacts DEF LaunchOK, OnlyLaunch, OnlyHandler
<1>12. LeavingOK'
  BY <1>1, <1>2, <1>5, <1>6 DEF LeavingOK, OnlyHandler
<1>13. alone' => OneAtATime'
  BY <1>1, <1>2, <1>5, <1>6 DEF OneAtATime, OnlyHandler, Busy
<1>14. alone' => Inactive'
  BY <1>1, <1>2, <1>4, <1>5, InFacts
     DEF QueueOK, Inactive, OnlyHandler, Live, Busy
<1>15. alone' => Backed'
  BY <1>1, <1>2, <1>6, InFacts DEF Backed, Live
<1>16. QED
  BY <1>7, <1>8, <1>9, <1>10, <1>11, <1>12, <1>13, <1>14, <1>15 DEF IInv

\* Open finds a writer, or that it exited.
LEMMA OpenedKeeps == ASSUME IInv, NEW h \in Handler, Opened(h) PROVE IInv'
<1>1. /\ TypeOK /\ RowsOK /\ QueueOK /\ OneTurnPerKey /\ LaunchOK /\ LeavingOK
      /\ alone => OneAtATime /\ Inactive /\ Backed
  BY DEF IInv
<1>2. CASE Owns
  <2>1. /\ handler[h].at = "opening" /\ session' = In("ready")
        /\ UNCHANGED <<writer, queue, send, stored, boot, writers, turns, left, starts, torn,
                       alone, refused>>
    BY <1>1, <1>2 DEF Opened, ghosts, bounds
  <2>2. NoRequest \in Requests
    BY <1>1, <1>2, NoFacts DEF Requests
  <2>3. OnlyHandler(h) /\ handler'[h] = NoRequest
    BY <1>1, <1>2, <2>2, RequestIs DEF Opened
  <2>4. /\ OnlyHandler(h) /\ handler'[h].at = "none" /\ handler'[h].was = In("stopped")
    BY <1>1, <1>2, <2>3, NoFacts DEF Requests
  <2>5. /\ OnlyLaunch(h) /\ launch'[h] = "none"
    BY <1>1, <1>2, LaunchIs, ConstantFacts DEF Opened, Launches
  <2>6. TypeOK'
    BY <1>1, <1>2, <2>1, <2>4, <2>5, InFacts DEF TypeOK, OnlyLaunch, OnlyHandler
  <2>7. RowsOK'
    BY <1>1, <1>2, <2>1, <2>4, <2>5, InFacts DEF RowsOK, OnlyHandler
  <2>8. QueueOK'
    BY <1>1, <1>2, <2>1, <2>5 DEF QueueOK, Key1
  <2>9. OneTurnPerKey'
    BY <1>1, <1>2, <2>1, <2>5 DEF OneTurnPerKey, Key1
  <2>10. LaunchOK'
    BY <1>1, <1>2, <2>1, <2>4, <2>5, ConstantFacts DEF LaunchOK, OnlyLaunch, OnlyHandler
  <2>11. LeavingOK'
    BY <1>1, <1>2, <2>1, <2>4, <2>5 DEF LeavingOK, OnlyHandler
  <2>12. alone' => OneAtATime'
    BY <1>1, <1>2, <2>1, <2>4, <2>5 DEF OneAtATime, OnlyHandler
  <2>13. alone' => Inactive'
    BY <1>1, <1>2, <2>1, <2>4, <2>5 DEF QueueOK, OneAtATime, Inactive, OnlyHandler, Owns
  <2>14. alone' => Backed'
    BY <1>1, <1>2, <2>1, <2>5 DEF Backed, Owns
  <2>15. QED
    BY <2>6, <2>7, <2>8, <2>9, <2>10, <2>11, <2>12, <2>13, <2>14 DEF IInv
<1>3. CASE ~Owns
  <2>1. /\ handler[h].at = "opening" /\ session' = In("stopped")
        /\ UNCHANGED <<writer, queue, send, stored, boot, writers, turns, left, starts, torn,
                       alone, refused>>
    BY <1>1, <1>3 DEF Opened, ghosts, bounds
  <2>2. NoRequest \in Requests
    BY <1>1, NoFacts DEF Requests
  <2>3. OnlyHandler(h) /\ handler'[h] = NoRequest
    BY <1>1, <2>2, RequestIs DEF Opened
  <2>4. /\ OnlyHandler(h) /\ handler'[h].at = "none" /\ handler'[h].was = In("stopped")
    BY <1>1, <2>3, NoFacts DEF Requests
  <2>5. /\ OnlyLaunch(h) /\ launch'[h] = "none"
    BY <1>1, LaunchIs, ConstantFacts DEF Opened, Launches
  <2>6. TypeOK'
    BY <1>1, <2>1, <2>4, <2>5, InFacts DEF TypeOK, OnlyLaunch, OnlyHandler
  <2>7. RowsOK'
    BY <1>1, <2>1, <2>4, <2>5, InFacts DEF RowsOK, OnlyHandler
  <2>8. QueueOK'
    BY <1>1, <2>1, <2>5 DEF QueueOK, Key1
  <2>9. OneTurnPerKey'
    BY <1>1, <2>1, <2>5 DEF OneTurnPerKey, Key1
  <2>10. LaunchOK'
    BY <1>1, <2>1, <2>4, <2>5, ConstantFacts DEF LaunchOK, OnlyLaunch, OnlyHandler
  <2>11. LeavingOK'
    BY <1>1, <2>1, <2>4, <2>5 DEF LeavingOK, OnlyHandler
  <2>12. alone' => OneAtATime'
    BY <1>1, <2>1, <2>4, <2>5 DEF OneAtATime, OnlyHandler
  <2>13. alone' => Inactive'
    BY <1>1, <2>1, <2>4, <2>5 DEF QueueOK, OneAtATime, Inactive, OnlyHandler, Owns
  <2>14. alone' => Backed'
    BY <1>1, <2>1, <2>5, InFacts DEF Backed, Live
  <2>15. QED
    BY <2>6, <2>7, <2>8, <2>9, <2>10, <2>11, <2>12, <2>13, <2>14 DEF IInv
<1>4. QED
  BY <1>2, <1>3

\* Open without a writer writes the row it was to open back.
LEMMA OpenFailsKeeps == ASSUME IInv, NEW h \in Handler, OpenFails(h) PROVE IInv'
<1>1. /\ TypeOK /\ RowsOK /\ QueueOK /\ OneTurnPerKey /\ LaunchOK /\ LeavingOK
      /\ alone => OneAtATime /\ Inactive /\ Backed
  BY DEF IInv
<1>2. /\ handler[h].at = "opening" /\ session' = handler[h].was
      /\ UNCHANGED <<writer, queue, send, stored, boot, writers, turns, left, starts, torn,
                     alone, refused>>
  BY <1>1 DEF OpenFails, ghosts, bounds
<1>3. OnlyHandler(h) /\ handler'[h].at = "none" /\ handler'[h].was = In("stopped")
  BY <1>1, RequestIs, NoFacts DEF OpenFails
<1>4. OnlyLaunch(h) /\ launch'[h] = "none"
  BY <1>1, LaunchIs, ConstantFacts DEF OpenFails, Launches
<1>5. session' \in Row /\ RowOK(session')
  BY <1>1, <1>2, HandlerFields DEF RowsOK
<1>6. TypeOK'
  BY <1>1, <1>2, <1>3, <1>4, <1>5 DEF TypeOK, RowOK, OnlyLaunch, OnlyHandler
<1>7. RowsOK'
  BY <1>1, <1>2, <1>3, <1>5, InFacts DEF RowsOK, OnlyHandler
<1>8. QueueOK'
  BY <1>1, <1>2 DEF QueueOK, Key1
<1>9. OneTurnPerKey'
  BY <1>1, <1>2 DEF OneTurnPerKey, Key1
<1>10. LaunchOK'
  BY <1>1, <1>2, <1>3, <1>4, ConstantFacts DEF LaunchOK, OnlyLaunch, OnlyHandler
<1>11. LeavingOK'
  BY <1>1, <1>2, <1>3 DEF LeavingOK, OnlyHandler
<1>12. alone' => OneAtATime'
  BY <1>1, <1>2, <1>3 DEF OneAtATime, OnlyHandler
<1>13. alone' => Inactive'
  <2>1. SUFFICES ASSUME alone PROVE Inactive'
    BY <1>2
  <2>2. Inactive /\ send.at = "wait" /\ ~Live(session')
    BY <1>1, <1>2, <2>1, RequestHasIt DEF Inactive
  <2>3. QED
    BY <1>2, <1>3, <2>2, InFacts DEF Inactive, OnlyHandler, Live
<1>14. alone' => Backed'
  BY <1>1, <1>2 DEF Inactive, Backed
<1>15. QED
  BY <1>6, <1>7, <1>8, <1>9, <1>10, <1>11, <1>12, <1>13, <1>14 DEF IInv

-----------------------------------------------------------------------------
(* --------------------------- restart of the relay ---------------------- *)
\* A crash ends every operation, and counts the turn whose response it lost.
LEMMA CrashKeeps == ASSUME IInv, Crash PROVE IInv'
<1>1. /\ TypeOK /\ RowsOK /\ QueueOK /\ OneTurnPerKey /\ LaunchOK /\ LeavingOK
      /\ alone => OneAtATime /\ Inactive /\ Backed
  BY DEF IInv
<1>2. /\ left > 0 /\ left' = left - 1 /\ writer' = NoWriter /\ launch' \in [Launcher -> Launches]
      /\ (\A l \in Launcher : launch'[l] = "none") /\ queue' = <<>> /\ send' = NoSend
      /\ handler' \in [Handler -> Requests] /\ (\A h \in Handler : handler'[h] = NoRequest)
      /\ boot' = "due" /\ alone' = TRUE /\ refused' = FALSE
      /\ torn' = (IF send.at \in {"taken", "put"} THEN [torn EXCEPT ![Key1] = @ + 1] ELSE torn)
      /\ UNCHANGED <<session, stored, writers, turns, starts>>
  BY <1>1, NoFacts DEF Crash, Launches
<1>3. /\ queue' \in Seq(Key) /\ Len(queue') = 0
  BY <1>2, EmptySeq
<1>4. /\ Distinct(queue') /\ left' \in 0 .. MaxCrashes
  BY <1>1, <1>2, ConstantFacts DEF TypeOK, Distinct
<1>5. /\ (send.at # "wait" => Key1 \in Key /\ queue # <<>> /\ Key1 \notin stored)
      /\ torn' \in [Key -> Nat]
  BY <1>1, <1>2, TailFacts, SMTT(40) DEF TypeOK, QueueOK
<1>6. TypeOK'
  <2>1. send' \in Sends /\ writer' \in Writers
    BY <1>2, NoFacts
  <2>2. queue' \in Seq(Key) /\ Len(queue') <= Cardinality(Key)
    BY <1>3, ConstantFacts
  <2>3. QED
    BY <1>1, <1>2, <1>4, <1>5, <2>1, <2>2 DEF TypeOK
<1>7. RowsOK'
  BY <1>1, <1>2, InFacts, NoFacts DEF RowsOK
<1>8. QueueOK'
  BY <1>1, <1>2, <1>4, NoFacts DEF QueueOK
<1>9. OneTurnPerKey'
  BY <1>1, <1>2, InFacts, NoFacts, SMTT(40) DEF TypeOK, QueueOK, OneTurnPerKey
<1>10. LaunchOK'
  BY <1>1, <1>2, ConstantFacts DEF LaunchOK
<1>11. LeavingOK'
  BY <1>1, <1>2, NoFacts DEF LeavingOK
<1>12. alone' => OneAtATime'
  BY <1>1, <1>2, NoFacts DEF OneAtATime
<1>13. alone' => Inactive'
  BY <1>1, <1>2, NoFacts DEF Inactive
<1>14. alone' => Backed'
  BY <1>1, <1>2 DEF Backed
<1>15. QED
  BY <1>6, <1>7, <1>8, <1>9, <1>10, <1>11, <1>12, <1>13, <1>14 DEF IInv

\* The next relay lists the session when it may be restored.
LEMMA ListedKeeps == ASSUME IInv, Listed PROVE IInv'
<1>1. /\ TypeOK /\ RowsOK /\ QueueOK /\ OneTurnPerKey /\ LaunchOK /\ LeavingOK
      /\ alone => OneAtATime /\ Inactive /\ Backed
  BY DEF IInv
<1>2. CASE CanRestore(session)
  <2>1. /\ boot = "due" /\ boot' = "none"
        /\ UNCHANGED <<session, writer, launch, queue, send, handler, stored, writers, turns,
                       left, starts, torn, alone, refused>>
    BY <1>1, <1>2 DEF Listed, ghosts, bounds
  <2>2. TypeOK'
    BY <1>1, <1>2, <2>1 DEF TypeOK
  <2>3. RowsOK'
    BY <1>1, <1>2, <2>1 DEF RowsOK
  <2>4. QueueOK'
    BY <1>1, <1>2, <2>1 DEF QueueOK, Key1
  <2>5. OneTurnPerKey'
    BY <1>1, <1>2, <2>1 DEF OneTurnPerKey, Key1
  <2>6. LaunchOK'
    BY <1>1, <1>2, <2>1 DEF LaunchOK
  <2>7. LeavingOK'
    BY <1>1, <1>2, <2>1 DEF LeavingOK
  <2>8. alone' => OneAtATime'
    BY <1>1, <1>2, <2>1 DEF OneAtATime
  <2>9. alone' => Inactive'
    BY <1>1, <1>2, <2>1 DEF Inactive, Owns
  <2>10. alone' => Backed'
    BY <1>1, <1>2, <2>1 DEF Backed, Live, CanRestore
  <2>11. QED
    BY <2>2, <2>3, <2>4, <2>5, <2>6, <2>7, <2>8, <2>9, <2>10 DEF IInv
<1>3. CASE ~CanRestore(session)
  <2>1. /\ boot = "due" /\ boot' = "listed"
        /\ UNCHANGED <<session, writer, launch, queue, send, handler, stored, writers, turns,
                       left, starts, torn, alone, refused>>
    BY <1>1, <1>3 DEF Listed, ghosts, bounds
  <2>2. TypeOK'
    BY <1>1, <2>1 DEF TypeOK
  <2>3. RowsOK'
    BY <1>1, <2>1 DEF RowsOK
  <2>4. QueueOK'
    BY <1>1, <2>1 DEF QueueOK, Key1
  <2>5. OneTurnPerKey'
    BY <1>1, <2>1 DEF OneTurnPerKey, Key1
  <2>6. LaunchOK'
    BY <1>1, <2>1 DEF LaunchOK
  <2>7. LeavingOK'
    BY <1>1, <2>1 DEF LeavingOK
  <2>8. alone' => OneAtATime'
    BY <1>1, <2>1 DEF OneAtATime
  <2>9. alone' => Inactive'
    BY <1>1, <2>1 DEF Inactive, Owns
  <2>10. alone' => Backed'
    BY <1>1, <2>1 DEF Backed
  <2>11. QED
    BY <2>2, <2>3, <2>4, <2>5, <2>6, <2>7, <2>8, <2>9, <2>10 DEF IInv
<1>4. QED
  BY <1>2, <1>3

\* Detachment stops the row and tells the writer of an early send to leave.
LEMMA DetachKeeps == ASSUME IInv, Detach PROVE IInv'
<1>1. /\ TypeOK /\ RowsOK /\ QueueOK /\ OneTurnPerKey /\ LaunchOK /\ LeavingOK
      /\ alone => OneAtATime /\ Inactive /\ Backed
  BY DEF IInv
<1>2. /\ boot = "listed" /\ boot' = "releasing" /\ session' = In("stopped") /\ writer' \in Writers
      /\ writer'.no = writer.no /\ writer'.turn = writer.turn /\ writer'.leaving = Owns
      /\ alone' = (alone /\ queue = <<>> /\ \A h \in Handler : handler[h].at = "none")
      /\ refused' = FALSE
      /\ UNCHANGED <<launch, queue, send, handler, stored, writers, turns, left, starts, torn>>
  BY <1>1 DEF Detach, bounds, TypeOK, Writers, Owns
<1>3. TypeOK'
  BY <1>1, <1>2, InFacts DEF TypeOK
<1>4. RowsOK'
  BY <1>1, <1>2, InFacts DEF RowsOK
<1>5. QueueOK'
  BY <1>1, <1>2 DEF QueueOK, Key1
<1>6. OneTurnPerKey'
  BY <1>1, <1>2 DEF OneTurnPerKey, Key1
<1>7. LaunchOK'
  BY <1>1, <1>2 DEF LaunchOK
<1>8. LeavingOK'
  BY <1>1, <1>2 DEF LeavingOK
<1>9. alone' => OneAtATime'
  BY <1>1, <1>2 DEF OneAtATime
<1>10. alone' => Inactive'
  BY <1>1, <1>2, InFacts DEF QueueOK, Inactive, Live
<1>11. alone' => Backed'
  BY <1>1, <1>2, InFacts DEF Backed, Live
<1>12. QED
  BY <1>3, <1>4, <1>5, <1>6, <1>7, <1>8, <1>9, <1>10, <1>11 DEF IInv

\* Detachment disposes of that writer.
LEMMA DetachedKeeps == ASSUME IInv, Detached PROVE IInv'
<1>1. /\ TypeOK /\ RowsOK /\ QueueOK /\ OneTurnPerKey /\ LaunchOK /\ LeavingOK
      /\ alone => OneAtATime /\ Inactive /\ Backed
  BY DEF IInv
<1>2. /\ boot = "releasing" /\ boot' = "none" /\ writer' = NoWriter
      /\ UNCHANGED <<session, launch, queue, send, handler, stored, writers, turns, left, starts,
                     torn, alone, refused>>
  BY <1>1 DEF Detached, ghosts, bounds
<1>3. TypeOK'
  BY <1>1, <1>2, NoFacts DEF TypeOK
<1>4. RowsOK'
  BY <1>1, <1>2 DEF RowsOK
<1>5. QueueOK'
  BY <1>1, <1>2 DEF QueueOK, Key1
<1>6. OneTurnPerKey'
  BY <1>1, <1>2 DEF OneTurnPerKey, Key1
<1>7. LaunchOK'
  BY <1>1, <1>2 DEF LaunchOK
<1>8. LeavingOK'
  BY <1>1, <1>2, NoFacts DEF LeavingOK
<1>9. alone' => OneAtATime'
  BY <1>1, <1>2 DEF OneAtATime
<1>10. alone' => Inactive'
  BY <1>1, <1>2, NoFacts DEF Inactive, Owns
<1>11. alone' => Backed'
  BY <1>1, <1>2 DEF Inactive, Backed
<1>12. QED
  BY <1>3, <1>4, <1>5, <1>6, <1>7, <1>8, <1>9, <1>10, <1>11 DEF IInv

-----------------------------------------------------------------------------
(* ------------------------------ the theorems --------------------------- *)
\* The initial states satisfy the inductive invariant.
LEMMA InitIInv == Init => IInv
<1>1. SUFFICES ASSUME Init PROVE IInv
  OBVIOUS
<1>2. /\ session = In("ready") /\ launch = [l \in Launcher |-> "none"]
      /\ queue = <<>> /\ send = NoSend
      /\ handler = [h \in Handler |-> NoRequest] /\ stored = {} /\ boot = "none" /\ writers = 1
      /\ turns = 0 /\ left = MaxCrashes /\ starts = [k \in Key |-> 0] /\ torn = [k \in Key |-> 0]
      /\ alone = TRUE /\ refused = FALSE
  BY <1>1 DEF Init
<1>3. writer \in Writers /\ writer.no = 1 /\ writer.turn = NoTurn /\ writer.leaving = FALSE
  BY <1>1, NoFacts DEF Init, Writers, Numbers
<1>4. queue \in Seq(Key) /\ Len(queue) = 0 /\ Distinct(queue)
  <2>1. queue \in Seq(Key) /\ Len(queue) = 0
    BY <1>2, EmptySeq
  <2>2. QED
    BY <2>1 DEF Distinct
<1>5. \A h \in Handler : handler[h] = NoRequest
  BY <1>2
<1>6. TypeOK
  <2>1. launch \in [Launcher -> Launches] /\ handler \in [Handler -> Requests]
    BY <1>2, NoFacts DEF Launches
  <2>2. /\ starts \in [Key -> Nat] /\ torn \in [Key -> Nat]
        /\ stored \subseteq Key /\ alone \in BOOLEAN /\ refused \in BOOLEAN
    BY <1>2
  <2>3. session \in Row /\ session.turn = NoTurn /\ session.state = "ready" /\ send \in Sends
    BY <1>2, InFacts, NoFacts
  <2>4. turns \in 0 .. MaxTurns /\ left \in 0 .. MaxCrashes /\ writers \in 1 .. MaxWriters \cup {1}
    BY <1>2, ConstantFacts
  <2>5. boot \in {"none", "due", "listed", "releasing"} /\ Len(queue) <= Cardinality(Key)
    BY <1>2, ConstantFacts
  <2>6. QED
    BY <1>3, <1>4, <2>1, <2>2, <2>3, <2>4, <2>5 DEF TypeOK
<1>7. RowsOK /\ QueueOK /\ LaunchOK /\ LeavingOK
  BY <1>2, <1>3, <1>4, InFacts, NoFacts, ConstantFacts
     DEF RowsOK, QueueOK, LaunchOK, LeavingOK
<1>8. OneTurnPerKey
  BY <1>2 DEF OneTurnPerKey
<1>9. OneAtATime /\ Inactive /\ Backed
  BY <1>2, <1>3, NoFacts DEF OneAtATime, Inactive, Backed, Owns
<1>10. QED
  BY <1>6, <1>7, <1>8, <1>9 DEF IInv

\* Every step keeps the inductive invariant.
LEMMA NextKeeps == IInv /\ [Next]_vars => IInv'
<1>1. SUFFICES ASSUME IInv, [Next]_vars PROVE IInv'
  OBVIOUS
<1>2. CASE Sending
  BY <1>1, <1>2, EnterKeeps, EnsureKeeps, AcquiredKeeps, NotAcquiredKeeps, RecycleKeeps,
     RecycledKeeps, TakeKeeps, StartFailsKeeps, StartedKeeps, PutKeeps, CleanUpKeeps
     DEF Sending
<1>3. ASSUME NEW l \in Launcher, Resumes(l) \/ ResumerExits(l) \/ MapsDead(l) PROVE IInv'
  BY <1>1, <1>3, ResumesKeeps, MapsDeadKeeps, ResumerExitsKeeps
<1>4. ASSUME NEW h \in Handler, Open(h) \/ Handling(h) PROVE IInv'
  BY <1>1, <1>4, OpenKeeps, LeaveKeeps, ClosedKeeps, OpenedKeeps, OpenFailsKeeps
     DEF Handling
<1>5. ASSUME NEW h \in Handler, NEW state \in {"stopped", "released"}, Close(h, state) PROVE IInv'
  BY <1>1, <1>5, CloseKeeps
<1>6. ASSUME NEW k \in Key, Send(k) PROVE IInv'
  BY <1>1, <1>6, SendKeeps
<1>7. CASE WriterExits \/ TurnEnds \/ Crash \/ Listed \/ Detach \/ Detached
  BY <1>1, <1>7, WriterExitsKeeps, TurnEndsKeeps, CrashKeeps, ListedKeeps, DetachKeeps,
     DetachedKeeps
<1>8. CASE UNCHANGED vars
  <2>1. TypeOK'
    BY <1>1, <1>8 DEF IInv, TypeOK, vars, ghosts
  <2>2. RowsOK' /\ QueueOK' /\ OneTurnPerKey' /\ LaunchOK' /\ LeavingOK'
    BY <1>1, <1>8
       DEF IInv, vars, ghosts, RowsOK, QueueOK, Key1, OneTurnPerKey, LaunchOK, LeavingOK
  <2>3. alone' => OneAtATime' /\ Inactive' /\ Backed'
    BY <1>1, <1>8 DEF IInv, vars, ghosts, OneAtATime, Inactive, Backed, Owns
  <2>4. QED
    BY <2>1, <2>2, <2>3 DEF IInv
<1>9. QED
  BY <1>1, <1>2, <1>3, <1>4, <1>5, <1>6, <1>7, <1>8 DEF Next

\* The inductive invariant holds.
LEMMA Inductive == Spec => []IInv
<1>1. IInv /\ [Next]_vars => IInv'
  BY NextKeeps
<1>2. QED
  BY InitIInv, <1>1, PTL DEF Spec

\* Every variable holds a value of its kind (SessionWriter!TypeOK).
THEOREM TypeCorrect == Spec => []TypeOK
<1>1. IInv => TypeOK
  BY DEF IInv
<1>2. QED
  BY <1>1, Inductive, PTL

\* A key starts one turn, and another only after an operation that was lost
\* between the acceptance of the app-server and the durable response, whatever
\* stops, opens, exits or crashes meanwhile.
THEOREM KeyStartsOneTurn == Spec => []OneTurnPerKey
<1>1. IInv => OneTurnPerKey
  BY DEF IInv
<1>2. QED
  BY <1>1, Inductive, PTL

\* A row that says the relay has a writer is true once nothing is in flight,
\* whatever exited meanwhile, as long as no Open, Stop, Release or detachment met
\* another operation and no start has failed since the last writer or request.
THEOREM LiveRowIsTrue == Spec => []LiveRowHasWriter
<1>1. IInv => LiveRowHasWriter
  <2>1. SUFFICES ASSUME IInv, ~Busy, alone, ~refused, Live(session) PROVE Owns
    BY DEF LiveRowHasWriter
  <2>2. queue = <<>> /\ boot = "none"
    BY <2>1 DEF Busy
  <2>3. send.at = "wait"
    BY <2>1, <2>2 DEF IInv, QueueOK
  <2>4. QED
    BY <2>1, <2>2, <2>3 DEF IInv, Backed
<1>2. QED
  BY <1>1, Inductive, PTL
-----------------------------------------------------------------------------
(* ------------------- what an operation waits for ----------------------- *)
\* Who waits for a resume has one under way or its outcome at hand: a send that
\* acquires or recycles a writer, and every Open. It is the safety half of
\* SendsAnswered: no operation is left to wait for a resume nobody runs.
AwaitsResume ==
    /\ send.at \in {"acquire", "recycle"} => launch["send"] # "none"
    /\ \A h \in Handler : handler[h].at = "opening" => launch[h] # "none"

\* Neither a launch, nor who waits for one, begins or ends.
LEMMA AwaitsSame ==
    ASSUME AwaitsResume, UNCHANGED launch,
           send'.at \in {"acquire", "recycle"} => send.at \in {"acquire", "recycle"},
           \A h \in Handler : handler'[h].at = "opening" => handler[h].at = "opening"
    PROVE  AwaitsResume'
  BY DEF AwaitsResume

\* A launch that goes on is still there.
LEMMA ResumingAwaits ==
    ASSUME IInv, AwaitsResume, NEW l \in Launcher, Resumes(l) \/ ResumerExits(l) \/ MapsDead(l)
    PROVE  AwaitsResume'
<1>1. TypeOK
  BY DEF IInv
<1>2. UNCHANGED <<send, handler>>
  BY DEF Resumes, MapsDead, ResumerExits
<1>3. PICK v \in Launches : v # "none" /\ launch' = [launch EXCEPT ![l] = v]
  BY DEF Resumes, MapsDead, ResumerExits, Launches
<1>4. OnlyLaunch(l) /\ launch'[l] # "none"
  BY <1>1, <1>3, LaunchIs
<1>5. QED
  BY <1>2, <1>4, ConstantFacts DEF AwaitsResume, OnlyLaunch

\* An operation that has the session starts a launch when it begins to wait for
\* it, and leaves it when it no longer waits.
LEMMA SendingAwaits == ASSUME IInv, AwaitsResume, Sending PROVE AwaitsResume'
<1>1. TypeOK
  BY DEF IInv
<1>2. UNCHANGED handler
  BY DEF Sending, Enter, Ensure, Acquired, NotAcquired, Recycle, Recycled, Take, StartFails,
         Started, Put, CleanUp
<1>3. ASSUME Launching PROVE AwaitsResume'
  <2>1. OnlyLaunch("send") /\ launch'["send"] = "resuming"
    BY <1>1, <1>3, LaunchIs, ConstantFacts DEF Launching, Launches
  <2>2. QED
    BY <1>2, <2>1, ConstantFacts DEF AwaitsResume, OnlyLaunch
<1>4. ASSUME UNCHANGED launch \/ Landing, send'.at \notin {"acquire", "recycle"}
      PROVE  AwaitsResume'
  <2>1. \A h \in Handler : launch'[h] = launch[h]
    BY <1>1, <1>4, LaunchIs, ConstantFacts DEF Landing, Launches, OnlyLaunch
  <2>2. QED
    BY <1>2, <1>4, <2>1 DEF AwaitsResume
<1>5. send \in Sends
  BY <1>1 DEF TypeOK
<1>6. CASE Enter
  <2>1. send'.at \in {"wait", "policy"}
    BY <1>6, NoFacts DEF Enter, Pop, Sends
  <2>2. QED
    BY <1>4, <1>6, <2>1 DEF Enter
<1>7. CASE Ensure
  <2>1. CASE Launching
    BY <1>3, <2>1
  <2>2. CASE UNCHANGED launch /\ send'.at \in {"wait", "check"}
    BY <1>4, <2>2
  <2>3. QED
    BY <1>5, <1>7, <2>1, <2>2, NoFacts DEF Ensure, Pop, Sends
<1>8. CASE Recycle
  BY <1>3, <1>8 DEF Recycle
<1>9. CASE Acquired \/ NotAcquired \/ Recycled \/ StartFails
  <2>1. send'.at \in {"check", "wait", "recycled", "cleanup"}
    BY <1>5, <1>9, NoFacts DEF Acquired, NotAcquired, Recycled, StartFails, Throw, Pop, Sends
  <2>2. QED
    BY <1>4, <1>9, <2>1 DEF Acquired, NotAcquired, Recycled, StartFails
<1>10. CASE Take \/ Started \/ Put \/ CleanUp
  <2>1. send'.at \in {"taken", "put", "wait"}
    BY <1>5, <1>10, NoFacts DEF Take, Started, Put, CleanUp, Pop, Sends
  <2>2. QED
    BY <1>4, <1>10, <2>1 DEF Take, Started, Put, CleanUp
<1>11. QED
  BY <1>6, <1>7, <1>8, <1>9, <1>10 DEF Sending

\* A request starts a launch when it opens, and leaves it when it has been answered.
LEMMA HandlingAwaits ==
    ASSUME IInv, AwaitsResume, NEW h \in Handler, Open(h) \/ Handling(h)
    PROVE  AwaitsResume'
<1>1. TypeOK /\ LaunchOK
  BY DEF IInv
<1>2. UNCHANGED send
  BY DEF Open, Handling, Leave, Closed, Opened, OpenFails
<1>3. CASE Open(h)
  <2>1. OnlyLaunch(h) /\ launch'[h] = "resuming"
    BY <1>1, <1>3, LaunchIs, ConstantFacts DEF Open, Launches
  <2>2. PICK q \in Requests : Request(h, q)
    <3>1. (IF CanRestore(session) THEN session ELSE In("stopped")) \in Row
      BY <1>1, InFacts DEF TypeOK
    <3>2. [at |-> "opening",
           was |-> IF CanRestore(session) THEN session ELSE In("stopped")] \in Requests
      BY <3>1 DEF Requests
    <3>3. QED
      BY <1>3, <3>2 DEF Open
  <2>3. OnlyHandler(h)
    BY <1>1, <2>2, RequestIs
  <2>4. QED
    BY <1>2, <2>1, <2>3, ConstantFacts DEF AwaitsResume, OnlyLaunch, OnlyHandler
<1>4. CASE Leave(h) \/ Closed(h)
  <2>1. UNCHANGED launch
    BY <1>4 DEF Leave, Closed
  <2>2. PICK q \in Requests : q.at # "opening" /\ Request(h, q)
    <3>1. handler[h] \in Requests
      BY <1>1, HandlerFields
    <3>2. [handler[h] EXCEPT !.at = "unsubscribing"] \in Requests
      BY <3>1 DEF Requests
    <3>3. [handler[h] EXCEPT !.at = "unsubscribing"].at = "unsubscribing"
      BY <3>1 DEF Requests
    <3>4. QED
      BY <1>4, <3>2, <3>3, NoFacts DEF Leave, Closed
  <2>3. OnlyHandler(h) /\ handler'[h].at # "opening"
    BY <1>1, <2>2, RequestIs
  <2>4. QED
    BY <1>2, <2>1, <2>3, AwaitsSame DEF OnlyHandler
<1>5. CASE Opened(h) \/ OpenFails(h)
  <2>1. OnlyLaunch(h)
    BY <1>1, <1>5, LaunchIs, ConstantFacts DEF Opened, OpenFails, Launches
  <2>2. OnlyHandler(h) /\ handler'[h].at = "none"
    BY <1>1, <1>5, RequestIs, NoFacts DEF Opened, OpenFails
  <2>3. QED
    BY <1>2, <2>1, <2>2, ConstantFacts DEF AwaitsResume, OnlyLaunch, OnlyHandler
<1>6. QED
  BY <1>3, <1>4, <1>5 DEF Handling

\* Stop and Release wait for no launch.
LEMMA CloseAwaits ==
    ASSUME IInv, AwaitsResume, NEW h \in Handler, NEW state, Close(h, state)
    PROVE  AwaitsResume'
<1>1. [NoRequest EXCEPT !.at = "closing"] \in Requests
  BY NoFacts DEF Requests
<1>2. [NoRequest EXCEPT !.at = "closing"].at = "closing"
  BY NoFacts DEF Requests
<1>3. OnlyHandler(h) /\ handler'[h].at = "closing"
  BY <1>1, <1>2, RequestIs DEF IInv, Close
<1>4. UNCHANGED <<send, launch>>
  BY DEF Close
<1>5. QED
  BY <1>3, <1>4, AwaitsSame DEF OnlyHandler

\* Whoever waits for a resume has one to wait for.
THEOREM ResumesAreAwaited == Spec => []AwaitsResume
<1>1. Init => AwaitsResume
  BY NoFacts DEF Init, AwaitsResume
<1>2. IInv /\ AwaitsResume /\ [Next]_vars => AwaitsResume'
  <2>1. SUFFICES ASSUME IInv, AwaitsResume, [Next]_vars PROVE AwaitsResume'
    OBVIOUS
  <2>2. CASE Sending
    BY <2>1, <2>2, SendingAwaits
  <2>3. ASSUME NEW l \in Launcher, Resumes(l) \/ ResumerExits(l) \/ MapsDead(l) PROVE AwaitsResume'
    BY <2>1, <2>3, ResumingAwaits
  <2>4. ASSUME NEW h \in Handler, Open(h) \/ Handling(h) PROVE AwaitsResume'
    BY <2>1, <2>4, HandlingAwaits
  <2>5. ASSUME NEW h \in Handler, NEW state \in {"stopped", "released"}, Close(h, state)
        PROVE  AwaitsResume'
    BY <2>1, <2>5, CloseAwaits
  <2>6. CASE Crash
    BY <2>6, NoFacts DEF Crash, AwaitsResume
  <2>7. ASSUME NEW k \in Key, Send(k) PROVE AwaitsResume'
    BY <2>1, <2>7, AwaitsSame DEF Send
  <2>8. CASE WriterExits \/ TurnEnds \/ Listed \/ Detach \/ Detached \/ UNCHANGED vars
    <3>1. UNCHANGED <<send, launch, handler>>
      BY <2>8 DEF WriterExits, TurnEnds, Listed, Detach, Detached, vars
    <3>2. QED
      BY <2>1, <3>1, AwaitsSame
  <2>9. QED
    BY <2>1, <2>2, <2>3, <2>4, <2>5, <2>6, <2>7, <2>8 DEF Next
<1>3. QED
  BY <1>1, <1>2, Inductive, PTL DEF Spec

-----------------------------------------------------------------------------
(* --------------------- what a stored answer ends ----------------------- *)
\* Once the answer to a key is stored it stays, through every restart, and no
\* step lets the app-server take another turn for the key.
StoredStartsNoMore ==
    [][\A k \in stored : k \in stored' /\ starts'[k] = starts[k]]_vars

\* A turn is taken for the first key of the queue, which has no answer yet.
LEMMA TakeIsUnanswered ==
    ASSUME IInv, Take
    PROVE  \A k \in stored : k \in stored' /\ starts'[k] = starts[k]
<1>1. TypeOK /\ QueueOK
  BY DEF IInv
<1>2. /\ send.at \in {"check", "recycled"} /\ stored' = stored
      /\ starts' = [starts EXCEPT ![Key1] = @ + 1]
  BY DEF Take
<1>3. Key1 \notin stored
  BY <1>1, <1>2 DEF QueueOK
<1>4. starts \in [Key -> Nat] /\ stored \subseteq Key
  BY <1>1 DEF TypeOK
<1>5. QED
  BY <1>2, <1>3, <1>4

\* No step takes a stored answer back, or a turn for a key that has one.
LEMMA NextStartsNoMore ==
    ASSUME IInv, Next
    PROVE  \A k \in stored : k \in stored' /\ starts'[k] = starts[k]
<1>1. CASE Take
  BY <1>1, TakeIsUnanswered
<1>2. CASE \/ Enter \/ Ensure \/ Acquired \/ NotAcquired \/ Recycle \/ Recycled
           \/ StartFails \/ Started \/ Put \/ CleanUp
  BY <1>2 DEF Enter, Ensure, Acquired, NotAcquired, Recycle, Recycled, StartFails, Started, Put,
     CleanUp, ghosts
<1>3. ASSUME NEW l \in Launcher, Resumes(l) \/ ResumerExits(l) \/ MapsDead(l)
      PROVE  UNCHANGED <<stored, starts>>
  BY <1>3 DEF Resumes, MapsDead, ResumerExits, ghosts
<1>4. ASSUME NEW h \in Handler, Open(h) \/ Handling(h)
      PROVE  UNCHANGED <<stored, starts>>
  BY <1>4 DEF Open, Handling, Leave, Closed, Opened, OpenFails, ghosts
<1>5. ASSUME NEW h \in Handler, NEW state \in {"stopped", "released"}, Close(h, state)
      PROVE  UNCHANGED <<stored, starts>>
  BY <1>5 DEF Close
<1>6. ASSUME NEW k \in Key, Send(k) PROVE UNCHANGED <<stored, starts>>
  BY <1>6 DEF Send
<1>7. CASE WriterExits \/ TurnEnds \/ Crash \/ Listed \/ Detach \/ Detached
  BY <1>7 DEF WriterExits, TurnEnds, Crash, Listed, Detach, Detached, ghosts
<1>8. QED
  BY <1>1, <1>2, <1>3, <1>4, <1>5, <1>6, <1>7 DEF Next, Sending

\* An answered key starts no turn again.
THEOREM AnsweredStartsNoMore == Spec => StoredStartsNoMore
<1>1. IInv /\ [Next]_vars => [\A k \in stored : k \in stored' /\ starts'[k] = starts[k]]_vars
  BY NextStartsNoMore
<1>2. QED
  BY <1>1, Inductive, PTL DEF Spec, StoredStartsNoMore
================================================================================
