----------------------------- MODULE SessionWriter ------------------------------
(***************************************************************************)
(* The writer of one Codex session, its durable row, and the routes that   *)
(* compete for both: Send (start-turn, with its in-flight join, its queue  *)
(* per session and its durable idempotency), Stop and Release, Open        *)
(* (restore), the exit of the app-server, the end of a turn, and a restart *)
(* of the relay, which detaches its sessions while it already listens.     *)
(*                                                                         *)
(* A step is what runs between two awaits. A writer is a resource of       *)
(* CodexSessionRuntime: resuming until the app-server has resumed the      *)
(* thread, then the session's own, until it exits or is disposed; a        *)
(* resource that becomes the session's disposes the one that was. The      *)
(* app-server decides whether it can resume and whether it takes a turn;   *)
(* it answers or exits.                                                    *)
(*                                                                         *)
(* Not here: Forget (ForgetSession), autopilot's own starts                *)
(* (AutopilotControl), the recycle after a capacity report, and the        *)
(* replay of the answers of Stop, Release and Open.                        *)
(***************************************************************************)
EXTENDS Naturals, Sequences, FiniteSets

CONSTANTS Key,           \* idempotency keys of sends
          Handler,       \* requests to stop, release or open that run at a time
          MaxWriters,    \* bound: writers that resume the thread
          MaxTurns,      \* bound: turns the app-servers take
          MaxCrashes     \* budget of relay crashes

ASSUME SetsAssumption ==
    IsFiniteSet(Key) /\ Key # {} /\ IsFiniteSet(Handler) /\ "send" \notin Handler
ASSUME BoundsAssumption == MaxWriters \in Nat /\ MaxTurns \in Nat /\ MaxCrashes \in Nat

Launcher == Handler \cup {"send"}

VARIABLES
    session,   \* the durable row: state and active turn
    writer,    \* the session's resource: number, turn it runs, explicit shutdown
    launch,    \* restoreWithOutcome, by who awaits it
    queue,     \* keys whose operation waits for the session or has it (the head)
    send,      \* the operation that has the session
    handler,   \* the other requests
    stored,    \* keys with a durable response
    boot,      \* detachActiveSessions: "none", "due", "listed" or "releasing"
    writers, turns, left,   \* counters for the bounds
    starts,    \* ghost: turns taken for a key
    torn,      \* ghost: turns taken for a key whose operation was lost
    alone,     \* ghost: only sends have overlapped since the relay started
    refused    \* ghost: meanwhile, a start failed after the last writer or request

vars == <<session, writer, launch, queue, send, handler, stored, boot, writers, turns, left,
          starts, torn, alone, refused>>
ghosts == <<starts, torn, alone, refused>>
bounds == <<writers, turns, left>>

NoTurn == 0
NoWriter == [no |-> 0, turn |-> NoTurn, leaving |-> FALSE]
In(state) == [state |-> state, turn |-> NoTurn]
NoSend == [at |-> "wait", was |-> In("stopped"), snap |-> In("stopped"), acquired |-> FALSE,
           target |-> 0, turn |-> NoTurn]
NoRequest == [at |-> "none", was |-> In("stopped")]

Owns == writer.no # 0
Live(s) == s.state \in {"ready", "turnActive"}
CanRestore(s) == s.state \in {"stopped", "released"}

Busy == queue # <<>> \/ boot # "none" \/ \E h \in Handler : handler[h].at # "none"

Init ==
    /\ session = In("ready") /\ writer = [NoWriter EXCEPT !.no = 1]
    /\ launch = [l \in Launcher |-> "none"]
    /\ queue = <<>> /\ send = NoSend /\ handler = [h \in Handler |-> NoRequest]
    /\ stored = {} /\ boot = "none" /\ writers = 1 /\ turns = 0 /\ left = MaxCrashes
    /\ starts = [k \in Key |-> 0] /\ torn = [k \in Key |-> 0] /\ alone = TRUE
    /\ refused = FALSE

-----------------------------------------------------------------------------
(* ----------------------------- the runtime ----------------------------- *)
\* restoreWithOutcome: the resumed resource replaces the session's resource
Resumes(l) ==
    /\ launch[l] = "resuming" /\ writers < MaxWriters
    /\ writers' = writers + 1 /\ writer' = [NoWriter EXCEPT !.no = writers + 1]
    /\ launch' = [launch EXCEPT ![l] = "mapped"] /\ refused' = FALSE
    /\ UNCHANGED <<session, queue, send, handler, stored, boot, turns, left, starts, torn, alone>>

\* the process exits while it resumes: onExit stops the session, whoever its
\* writer is
ResumerExits(l) ==
    /\ launch[l] = "resuming" /\ launch' = [launch EXCEPT ![l] = "gone"]
    /\ session' = In("stopped")
    /\ UNCHANGED <<writer, queue, send, handler, stored, boot, bounds, ghosts>>

\* the exit came after the answer: the dead resource still replaces the session's
MapsDead(l) ==
    /\ launch[l] = "gone" /\ launch' = [launch EXCEPT ![l] = "mapped"] /\ writer' = NoWriter
    /\ UNCHANGED <<session, queue, send, handler, stored, boot, bounds, ghosts>>

\* the thread is held by another client, or the launch fails: who awaits it
\* catches that at once
Fails(l) == launch[l] \in {"resuming", "gone"}

\* onExit, recoverExitedSession: an exit nobody asked for stops the session
WriterExits ==
    /\ Owns /\ writer' = NoWriter
    /\ session' = IF writer.leaving THEN session ELSE In("stopped")
    /\ UNCHANGED <<launch, queue, send, handler, stored, boot, bounds, ghosts>>

\* onNotification turn/completed: it may overtake the response to turn/start
TurnEnds ==
    /\ writer.turn # NoTurn /\ writer' = [writer EXCEPT !.turn = NoTurn]
    /\ session' = IF session.turn = writer.turn THEN In("ready") ELSE session
    /\ UNCHANGED <<launch, queue, send, handler, stored, boot, bounds, ghosts>>

-----------------------------------------------------------------------------
(* -------------------------------- Send --------------------------------- *)
Pop == queue' = Tail(queue) /\ send' = NoSend
Key1 == Head(queue)

\* faulty variant of Replays: a response is replayed while its turn runs only
ReplaysActive(k) == k \in stored /\ session.state = "turnActive"

\* idempotency.get, before the operation and again when it has the session
Replays(k) == k \in stored

\* a new key queues its operation; one that is in flight is joined
Send(k) ==
    /\ ~Replays(k) /\ \A i \in 1 .. Len(queue) : queue[i] # k
    /\ queue' = Append(queue, k)
    /\ alone' = (alone /\ (Busy => queue # <<>>)) /\ refused' = (refused /\ alone')
    /\ UNCHANGED <<session, writer, launch, send, handler, stored, boot, bounds, starts, torn>>

Launching == launch' = [launch EXCEPT !["send"] = "resuming"]
Landing == launch' = [launch EXCEPT !["send"] = "none"]

\* the operation has the session: replay, refuse, or look up the policy of the
\* thread, for the session as it is
Enter ==
    /\ queue # <<>> /\ send.at = "wait"
    /\ \/ /\ Replays(Key1) \/ session.state = "turnActive"
          /\ Pop
       \/ /\ ~Replays(Key1) /\ session.state # "turnActive"
          /\ send' = [NoSend EXCEPT !.at = "policy", !.was = session] /\ UNCHANGED queue
    /\ UNCHANGED <<session, writer, launch, handler, stored, boot, bounds, ghosts>>

\* ensureWriter: refused (another supervisor, no scratch), a writer to resume, or
\* the session's own writer; a policy that was found makes the session another
\* object, which is saved as one whose writer was acquired
Ensure ==
    /\ send.at = "policy"
    /\ \/ Pop /\ UNCHANGED <<session, launch>>
       \/ /\ Owns /\ UNCHANGED <<queue, launch>>
          /\ \E found \in BOOLEAN :
                /\ session' = IF found THEN send.was ELSE session
                /\ send' = [send EXCEPT !.at = "check", !.snap = send.was, !.acquired = found]
       \/ /\ ~Owns /\ Launching
          /\ send' = [send EXCEPT !.at = "acquire"] /\ UNCHANGED <<session, queue>>
    /\ UNCHANGED <<writer, handler, stored, boot, bounds, ghosts>>

\* the acquired session is saved
Acquired ==
    /\ send.at = "acquire" /\ launch["send"] = "mapped" /\ Landing
    /\ session' = In("ready")
    /\ send' = [send EXCEPT !.at = "check", !.snap = In("ready"), !.acquired = TRUE]
    /\ UNCHANGED <<writer, queue, handler, stored, boot, bounds, ghosts>>

\* faulty variant of NotAcquired: the session of a failed operation is not released
NotAcquiredHolding ==
    /\ send.at = "acquire" /\ Fails("send")
    /\ \E busy \in BOOLEAN : session' = IF busy /\ send.was.state # "stopped"
                                      THEN In("stopped") ELSE session
    /\ send' = [send EXCEPT !.at = "failed"] /\ Landing
    /\ UNCHANGED <<writer, queue, handler, stored, boot, bounds, ghosts>>

\* no writer: a busy thread stops the session that claimed it
NotAcquired ==
    /\ send.at = "acquire" /\ Fails("send")
    /\ \E busy \in BOOLEAN : session' = IF busy /\ send.was.state # "stopped"
                                      THEN In("stopped") ELSE session
    /\ Pop /\ Landing
    /\ UNCHANGED <<writer, handler, stored, boot, bounds, ghosts>>

\* an idle root whose browser is to be attached or detached is resumed by a new
\* writer: stop(), then restore()
Recycle ==
    /\ send.at = "check" /\ Owns /\ writer.turn = NoTurn
    /\ writer' = NoWriter /\ Launching /\ send' = [send EXCEPT !.at = "recycle"]
    /\ UNCHANGED <<session, queue, handler, stored, boot, bounds, ghosts>>

\* the turn is for the restored session, which is not saved before
Recycled ==
    /\ send.at = "recycle" /\ launch["send"] = "mapped" /\ Owns /\ Landing
    /\ send' = [send EXCEPT !.at = "recycled", !.snap = In("ready")]
    /\ UNCHANGED <<session, writer, queue, handler, stored, boot, bounds, ghosts>>

\* a failed start gives back the writer it takes for an acquired one:
\* beginExplicitShutdown of the resource the session has now, and the session as
\* it was found
Throw ==
    IF send.acquired /\ Owns
    THEN /\ send' = [NoSend EXCEPT !.at = "cleanup", !.was = send.was]
         /\ writer' = [writer EXCEPT !.leaving = TRUE] /\ UNCHANGED <<session, queue>>
    ELSE /\ Pop /\ session' = IF send.acquired THEN send.was ELSE session
         /\ UNCHANGED writer

\* turn/start: the app-server of the resource the session has takes the turn
Take ==
    /\ send.at \in {"check", "recycled"} /\ Owns /\ turns < MaxTurns
    /\ turns' = turns + 1 /\ writer' = [writer EXCEPT !.turn = turns + 1]
    /\ starts' = [starts EXCEPT ![Key1] = @ + 1]
    /\ send' = [send EXCEPT !.at = "taken", !.target = writer.no, !.turn = turns + 1]
    /\ UNCHANGED <<session, launch, queue, handler, stored, boot, writers, left, torn, alone,
                   refused>>

\* there is no writer, it is not recycled, its app-server refuses, or is gone
\* before the response
StartFails ==
    /\ \/ send.at \in {"check", "recycled"}
       \/ send.at = "recycle" /\ (Fails("send") \/ (launch["send"] = "mapped" /\ ~Owns))
       \/ send.at = "taken" /\ (writer.no # send.target \/ send.snap.state # "ready")
    /\ Throw /\ Landing /\ refused' = alone
    /\ torn' = IF send.at = "taken" THEN [torn EXCEPT ![Key1] = @ + 1] ELSE torn
    /\ UNCHANGED <<handler, stored, boot, bounds, starts, alone>>

\* the response: the captured session begins the turn and is saved
Started ==
    /\ send.at = "taken" /\ writer.no = send.target /\ send.snap.state = "ready"
    /\ session' = [state |-> "turnActive", turn |-> send.turn]
    /\ send' = [NoSend EXCEPT !.at = "put"]
    /\ UNCHANGED <<writer, launch, queue, handler, stored, boot, bounds, ghosts>>

\* idempotency.put
Put ==
    /\ send.at = "put" /\ stored' = stored \cup {Key1} /\ Pop
    /\ UNCHANGED <<session, writer, launch, handler, boot, bounds, ghosts>>

\* cleanupAcquiredWriter: dispose of the session's resource, save the original
CleanUp ==
    /\ send.at = "cleanup"
    /\ writer' = NoWriter /\ session' = send.was /\ Pop
    /\ UNCHANGED <<launch, handler, stored, boot, bounds, ghosts>>

-----------------------------------------------------------------------------
(* --------------------------- Stop and Release -------------------------- *)
Request(h, r) == handler' = [handler EXCEPT ![h] = r]

\* the row first, then close()
Close(h, state) ==
    /\ handler[h].at = "none"
    /\ alone' = (alone /\ ~Busy)
    /\ session' = In(state) /\ Request(h, [NoRequest EXCEPT !.at = "closing"]) /\ refused' = FALSE
    /\ UNCHANGED <<writer, launch, queue, send, stored, boot, bounds, starts, torn>>

\* close(): host tests are cancelled, then release() tells the writer it is
\* leaving and awaits the unsubscription
Leave(h) ==
    /\ handler[h].at = "closing"
    /\ IF Owns THEN Request(h, [handler[h] EXCEPT !.at = "unsubscribing"])
                    /\ writer' = [writer EXCEPT !.leaving = TRUE]
               ELSE Request(h, NoRequest) /\ UNCHANGED writer
    /\ UNCHANGED <<session, launch, queue, send, stored, boot, bounds, ghosts>>

\* release(): dispose of whatever resource the session has by then
Closed(h) ==
    /\ handler[h].at = "unsubscribing" /\ Request(h, NoRequest) /\ writer' = NoWriter
    /\ UNCHANGED <<session, launch, queue, send, stored, boot, bounds, ghosts>>

(* --------------------------------- Open -------------------------------- *)
\* a live session is left alone; one whose writer is gone is opened again, as a
\* stopped one
Open(h) ==
    /\ handler[h].at = "none" /\ (CanRestore(session) \/ (Live(session) /\ ~Owns))
    /\ alone' = (alone /\ ~Busy)
    /\ Request(h, [at |-> "opening",
                   was |-> IF CanRestore(session) THEN session ELSE In("stopped")])
    /\ session' = In("recovering") /\ launch' = [launch EXCEPT ![h] = "resuming"]
    /\ refused' = FALSE
    /\ UNCHANGED <<writer, queue, send, stored, boot, bounds, starts, torn>>

\* faulty variant of Opened: the resumed session is saved without asking for its writer
OpenedBlindly(h) ==
    /\ handler[h].at = "opening" /\ launch[h] = "mapped"
    /\ session' = In("ready")
    /\ Request(h, NoRequest) /\ launch' = [launch EXCEPT ![h] = "none"]
    /\ UNCHANGED <<writer, queue, send, stored, boot, bounds, ghosts>>

\* resumed: ready, or stopped when its writer exited meanwhile
Opened(h) ==
    /\ handler[h].at = "opening" /\ launch[h] = "mapped"
    /\ session' = IF Owns THEN In("ready") ELSE In("stopped")
    /\ Request(h, NoRequest) /\ launch' = [launch EXCEPT ![h] = "none"]
    /\ UNCHANGED <<writer, queue, send, stored, boot, bounds, ghosts>>

\* the session is saved as it was to be opened
OpenFails(h) ==
    /\ handler[h].at = "opening" /\ Fails(h)
    /\ session' = handler[h].was
    /\ Request(h, NoRequest) /\ launch' = [launch EXCEPT ![h] = "none"]
    /\ UNCHANGED <<writer, queue, send, stored, boot, bounds, ghosts>>

-----------------------------------------------------------------------------
(* ------------------------------- restart ------------------------------- *)
Crash ==
    /\ left > 0 /\ left' = left - 1
    /\ torn' = IF send.at \in {"taken", "put"} THEN [torn EXCEPT ![Key1] = @ + 1] ELSE torn
    /\ writer' = NoWriter /\ launch' = [l \in Launcher |-> "none"]
    /\ queue' = <<>> /\ send' = NoSend /\ handler' = [h \in Handler |-> NoRequest]
    /\ boot' = "due" /\ alone' = TRUE /\ refused' = FALSE
    /\ UNCHANGED <<session, stored, writers, turns, starts>>

\* detachActiveSessions lists the sessions; it takes two of them at a time
Listed ==
    /\ boot = "due" /\ boot' = IF CanRestore(session) THEN "none" ELSE "listed"
    /\ UNCHANGED <<session, writer, launch, queue, send, handler, stored, bounds, ghosts>>

\* a session that was to be active is stopped, its writer released
Detach ==
    /\ boot = "listed" /\ boot' = "releasing" /\ session' = In("stopped")
    /\ writer' = [writer EXCEPT !.leaving = Owns] /\ refused' = FALSE
    /\ alone' = (alone /\ queue = <<>> /\ \A h \in Handler : handler[h].at = "none")
    /\ UNCHANGED <<launch, queue, send, handler, stored, bounds, starts, torn>>

Detached ==
    /\ boot = "releasing" /\ boot' = "none" /\ writer' = NoWriter
    /\ UNCHANGED <<session, launch, queue, send, handler, stored, bounds, ghosts>>

Sending ==
    \/ Enter \/ Ensure \/ Acquired \/ NotAcquired \/ Recycle \/ Recycled
    \/ Take \/ StartFails \/ Started \/ Put \/ CleanUp

Handling(h) == Leave(h) \/ Closed(h) \/ Opened(h) \/ OpenFails(h)

Next ==
    \/ \E k \in Key : Send(k)
    \/ Sending \/ \E l \in Launcher : Resumes(l) \/ ResumerExits(l) \/ MapsDead(l)
    \/ \E h \in Handler :
        \/ \E state \in {"stopped", "released"} : Close(h, state)
        \/ Open(h) \/ Handling(h)
    \/ WriterExits \/ TurnEnds
    \/ Crash \/ Listed \/ Detach \/ Detached

Spec == Init /\ [][Next]_vars

\* The relay goes on with what it has begun; the app-server answers a resume
\* and a turn, or exits, which fails them.
Fairness ==
    /\ WF_vars(Sending) /\ \A h \in Handler : WF_vars(Handling(h))
    /\ WF_vars(Listed \/ Detach \/ Detached)

FairSpec == Spec /\ Fairness

-----------------------------------------------------------------------------
Row == [state : {"ready", "turnActive", "recovering", "stopped", "released"},
        turn : 0 .. MaxTurns]
Numbers == 0 .. MaxWriters \cup {1}
Writers == [no : Numbers, turn : 0 .. MaxTurns, leaving : BOOLEAN]
Launches == {"none", "resuming", "gone", "mapped"}
Sends == [at : {"wait", "policy", "acquire", "check", "recycle", "recycled", "taken", "put",
               "cleanup"},
          was : Row, snap : Row, acquired : BOOLEAN, target : Numbers, turn : 0 .. MaxTurns]
Requests == [at : {"none", "closing", "unsubscribing", "opening"}, was : Row]

TypeOK ==
    /\ session \in Row /\ (session.turn # NoTurn <=> session.state = "turnActive")
    /\ writer \in Writers /\ launch \in [Launcher -> Launches]
    /\ queue \in Seq(Key) /\ Len(queue) <= Cardinality(Key)
    /\ send \in Sends /\ handler \in [Handler -> Requests]
    /\ stored \subseteq Key /\ boot \in {"none", "due", "listed", "releasing"}
    /\ writers \in 1 .. MaxWriters \cup {1} /\ turns \in 0 .. MaxTurns /\ left \in 0 .. MaxCrashes
    /\ starts \in [Key -> Nat] /\ torn \in [Key -> Nat] /\ alone \in BOOLEAN
    /\ refused \in BOOLEAN

\* A key starts one turn: another only after an operation that was lost
\* between the app-server's acceptance and the durable response.
OneTurnPerKey ==
    \A k \in Key :
        starts[k] = torn[k] + (IF k \in stored THEN 1 ELSE 0)
                  + (IF queue # <<>> /\ Key1 = k /\ send.at \in {"taken", "put"} THEN 1 ELSE 0)

\* A row that says the relay has a writer is true once nothing is in flight,
\* whatever exited during a resume, a recycle or a start, as long as no Open, Stop,
\* Release or detachment met another operation: only a start that failed may leave
\* such a row without its writer, and the next writer or request mends it.
LiveRowHasWriter == ~Busy /\ alone /\ ~refused /\ Live(session) => Owns


-----------------------------------------------------------------------------
(* ------------------------- the inductive invariant --------------------- *)
\* every row that is saved later is one the session can have
RowOK(s) == s.turn # NoTurn <=> s.state = "turnActive"
RowsOK == RowOK(session) /\ RowOK(send.was) /\ \A h \in Handler : RowOK(handler[h].was)

\* a key waits once; the operation that has the session is the first one, it has
\* no response yet, and it addressed a writer
Distinct(q) == \A i, j \in 1 .. Len(q) : q[i] = q[j] => i = j

QueueOK ==
    /\ Distinct(queue)
    /\ send.at # "wait" => queue # <<>> /\ Key1 \notin stored
    /\ send.at = "taken" => send.target # 0
    /\ send.at = "taken" => send.turn # NoTurn

\* a resume is awaited; who told a writer to leave is there to dispose of it
LaunchOK ==
    /\ launch["send"] # "none" => send.at \in {"acquire", "recycle"}
    /\ \A h \in Handler : launch[h] # "none" => handler[h].at = "opening"

LeavingOK ==
    writer.leaving => \/ send.at = "cleanup" \/ boot = "releasing"
                      \/ \E h \in Handler : handler[h].at = "unsubscribing"

\* while only sends overlap, one thing at a time has the session besides them
OneAtATime ==
    /\ boot # "none" => queue = <<>> /\ \A h \in Handler : handler[h].at = "none"
    /\ queue # <<>> => \A h \in Handler : handler[h].at = "none"
    /\ \A h, g \in Handler : handler[h].at # "none" /\ handler[g].at # "none" => h = g

\* and what it has under way does not leave a live row without a writer
Inactive ==
    /\ boot = "releasing" => ~Live(session)
    /\ send.at \in {"acquire", "recycle"} =>
          /\ Owns => launch["send"] = "mapped"
          /\ launch["send"] = "gone" => refused \/ ~Live(session)
    /\ send.at = "cleanup" => refused
    /\ \A h \in Handler : handler[h].at # "none" =>
        ~Live(session) /\ ~Live(handler[h].was)

Backed ==
    \/ send.at = "check" \/ boot \in {"due", "listed"} \/ refused
    \/ send.at = "recycle" /\ launch["send"] = "resuming"
    \/ Live(session) => Owns

IInv ==
    /\ TypeOK /\ RowsOK /\ QueueOK /\ OneTurnPerKey /\ LaunchOK /\ LeavingOK
    /\ alone => OneAtATime /\ Inactive /\ Backed
================================================================================
