--------------------------- MODULE SessionStream ---------------------------
(***************************************************************************)
(* One session's events on their way to one browser: the durable journal,  *)
(* its retention, the WebSocket endpoint (replay, live delivery, slow      *)
(* clients) and the browser's chat controller (cursor, buffer, snapshots,  *)
(* resync, reconnection and history retries).                              *)
(*                                                                         *)
(* An event is its sequence number. The journal's rows are an interval:    *)
(* they are appended one by one, and retention deletes the oldest first.   *)
(***************************************************************************)
EXTENDS Naturals, Sequences, FiniteSets

CONSTANTS Window,        \* rows a replay may hold (200 in the code)
          Retries,       \* history reads retried after a failure (3 in the code)
          Rejected,      \* sequences whose event type the controller does not accept
          MaxEvents,     \* bound: events the session publishes
          MaxPrunes,     \* budget of deletions by retention
          MaxDrops,      \* budget of lost connections and failed upgrades
          MaxFails,      \* budget of failed history reads
          MaxVisits      \* budget of refreshes and reselections by the user

ASSUME StreamAssumption ==
    /\ Window \in Nat /\ Retries \in Nat /\ MaxEvents \in Nat /\ MaxPrunes \in Nat
    /\ MaxDrops \in Nat /\ MaxFails \in Nat /\ MaxVisits \in Nat
    /\ Rejected \subseteq Nat

Sequence == 1..MaxEvents
Msg == [kind : {"event", "resync", "close"}, seq : Nat]
Event(s) == [kind |-> "event", seq |-> s]
Resync(s) == [kind |-> "resync", seq |-> s]
Close == [kind |-> "close", seq |-> 0]

VARIABLES
    next,      \* relay_sessions.next_sequence
    first,     \* oldest retained sequence; first = next when no row is left
    closed,    \* retention may delete the session's rows
    conn,      \* the endpoint's connection: open, and lastSentSequence
    wire,      \* messages on their way to the browser
    cl,        \* the chat controller of the selected session
    generation, \* selections the user has made
    left,      \* what remains of the environment's budgets
    emptied    \* ghost: retention once deleted every row

vars == <<next, first, closed, conn, wire, cl, generation, left, emptied>>

NoSnap == [phase |-> "none", base |-> 0, recovering |-> FALSE]
NoSocket == [state |-> "none", after |-> 0, refresh |-> FALSE]
NoConn == [on |-> FALSE, sent |-> 0]

(* ------------------------------ the journal ---------------------------- *)
\* faulty variant of CurrentSequence: the next sequence, not the last row's
NextSequence == next

CurrentSequence == IF first = next THEN 0 ELSE next - 1

(* ---------------------------- the chat controller ---------------------- *)
Opening(c, refresh) ==
    [c EXCEPT !.socket = [state |-> "opening", after |-> c.cursor, refresh |-> refresh],
              !.reconnect = FALSE]

\* one history read at a time: later calls join the one in flight
TakeSnapshot(c) ==
    IF c.snap.phase # "none" THEN c
    ELSE [c EXCEPT !.snapshotting = TRUE,
                   !.snap = [phase |-> "asked", base |-> 0,
                             recovering |-> c.snapshotting /\ c.buffered # {}]]

\* ghost: runs counts how often an event was applied since the snapshot at cut
Apply(c, s) == [c EXCEPT !.cursor = s, !.runs[s] = @ + 1]

\* faulty variant of ApplyEvent: an event at or below the cursor is not dropped
ApplyEventAgain(c, s) ==
    IF c.snapshotting \/ s > c.cursor + 1
    THEN [c EXCEPT !.snapshotting = TRUE, !.buffered = @ \cup {s}]
    ELSE Apply(c, s)

ApplyEvent(c, s) ==
    IF s <= c.cursor THEN c
    ELSE IF c.snapshotting \/ s > c.cursor + 1
    THEN [c EXCEPT !.snapshotting = TRUE, !.buffered = @ \cup {s}]
    ELSE Apply(c, s)

Receive(c, s) ==
    IF s \in Rejected THEN c
    ELSE LET d == ApplyEvent(c, s) IN IF d.snapshotting THEN TakeSnapshot(d) ELSE d

\* replayBuffered() applies the buffered events that follow the cursor, up to n
Follows(c, n) ==
    n >= c.cursor /\ (c.cursor + 1 .. n) \subseteq c.buffered /\ n + 1 \notin c.buffered

ReplayBuffered(c, n) ==
    LET rest == c.buffered \ (c.cursor + 1 .. n)
    IN  [c EXCEPT !.cursor = n, !.buffered = rest, !.snapshotting = rest # {},
                  !.runs = [s \in Sequence |-> IF s \in c.cursor + 1 .. n THEN c.runs[s] + 1
                                               ELSE c.runs[s]]]

\* faulty variant of AcceptCut: a snapshot older than the cursor is accepted too
AcceptOldCut(c) ==
    [c EXCEPT !.cursor = c.snap.base, !.cut = c.snap.base, !.runs = [s \in Sequence |-> 0],
              !.buffered = {s \in @ : s > c.snap.base}]

AcceptCut(c) ==
    IF c.snap.base < c.cursor THEN c
    ELSE [c EXCEPT !.cursor = c.snap.base, !.cut = c.snap.base, !.runs = [s \in Sequence |-> 0],
                   !.buffered = {s \in @ : s > c.snap.base}]

\* a socket lost to resync or to a recovering snapshot is replaced
Replaces(c) == c.snap.recovering \/ c.resync

Recovered(c) ==
    IF Replaces(c) THEN Opening([c EXCEPT !.resync = FALSE, !.resyncSequence = 0], FALSE) ELSE c

\* faulty variant of Settled: a snapshot that left a gap is not repeated
SettledOnce(c) == [c EXCEPT !.snap = NoSnap]

Settled(c) ==
    LET d == [c EXCEPT !.snap = NoSnap] IN IF d.snapshotting THEN TakeSnapshot(d) ELSE d

Succeeded(c) == [c EXCEPT !.failures = 0, !.retry = FALSE]

\* faulty variant of Failed: the history read is not retried
FailedForGood(c) ==
    Settled([c EXCEPT !.snapshotting = FALSE,
                      !.failures = IF @ < Retries + 1 THEN @ + 1 ELSE @])

Failed(c) ==
    Settled([c EXCEPT !.snapshotting = FALSE,
                      !.failures = IF @ < Retries + 1 THEN @ + 1 ELSE @,
                      !.retry = c.failures < Retries \/ @])

Behind(c) == c.resyncSequence # 0 /\ c.snap.base < c.resyncSequence

\* select(): a fresh projection, one history read and one socket from the start
Selected ==
    [cursor |-> 0, snapshotting |-> TRUE, buffered |-> {}, resync |-> FALSE,
     resyncSequence |-> 0, failures |-> 0, retry |-> FALSE, reconnect |-> FALSE,
     snap |-> [phase |-> "asked", base |-> 0, recovering |-> FALSE],
     socket |-> [state |-> "opening", after |-> 0, refresh |-> FALSE],
     cut |-> 0, runs |-> [s \in Sequence |-> 0]]

OnClose(c) ==
    LET d == [c EXCEPT !.socket = NoSocket]
    IN  IF c.resync THEN TakeSnapshot(d) ELSE [d EXCEPT !.reconnect = TRUE]

(* --------------------------- journal and endpoint ---------------------- *)
\* faulty variant of Sends: no high-water mark
SendsAgain(s) == conn.on

Sends(s) == conn.on /\ s > conn.sent

\* the endpoint's send(): a slow client is closed after the mark was raised
Deliver(s) ==
    IF ~Sends(s) THEN UNCHANGED <<conn, wire>>
    ELSE \/ conn' = [conn EXCEPT !.sent = s] /\ wire' = Append(wire, Event(s))
         \/ conn' = NoConn /\ wire' = Append(wire, Close)

\* events.publish(journal.append()): the row is committed, then sent
Publish ==
    /\ next \in Sequence
    /\ next' = next + 1
    /\ closed' \in BOOLEAN
    /\ Deliver(next)
    /\ UNCHANGED <<generation, first, cl, left, emptied>>

\* a re-flushed outbox event comes back with the sequence of its row
Republish ==
    /\ \E s \in first .. next - 1 : Deliver(s)
    /\ UNCHANGED <<generation, next, first, closed, cl, left, emptied>>

\* 48 hours are longer than anything under way, a sleeping browser excepted
Prune ==
    /\ closed /\ left.prunes > 0
    /\ cl.snap.phase = "none" /\ ~cl.retry /\ cl.socket.state \in {"none", "open"}
    /\ \A i \in DOMAIN wire : wire[i] = Close
    /\ first' \in first + 1 .. next
    /\ left' = [left EXCEPT !.prunes = @ - 1]
    /\ emptied' = (emptied \/ first' = next)
    /\ UNCHANGED <<generation, next, closed, conn, wire, cl>>

\* the rows after the cursor: from the first of them or the first retained one
ReplayFrom(after) == IF first > after + 1 THEN first ELSE after + 1

MustResync(after) ==
    /\ ReplayFrom(after) < next
    /\ next - ReplayFrom(after) > Window \/ ReplayFrom(after) # after + 1

\* the endpoint answers an upgrade: a replay (also refused when it is too
\* large), or a resync instruction and a close
Upgrade ==
    /\ cl.socket.state = "opening"
    /\ LET after == cl.socket.after
           from == ReplayFrom(after)
           rows == IF from >= next THEN <<>> ELSE [i \in 1 .. next - from |-> Event(from - 1 + i)]
       IN  \/ /\ MustResync(after) \/ rows # <<>>
              /\ conn' = NoConn /\ wire' = <<Resync(CurrentSequence), Close>>
           \/ /\ ~MustResync(after)
              /\ conn' = [on |-> TRUE, sent |-> IF rows = <<>> THEN after ELSE next - 1]
              /\ wire' = rows
    /\ cl' = [cl EXCEPT !.socket.state = "accepted"]
    /\ UNCHANGED <<generation, next, first, closed, left, emptied>>

\* a lost connection or a relay restart: a prefix arrives, then the close
Drop ==
    /\ left.drops > 0 /\ cl.socket.state \in {"accepted", "open"}
    /\ \E k \in 0 .. Len(wire) :
          /\ \A i \in 1..k : wire[i] # Close
          /\ wire' = Append(SubSeq(wire, 1, k), Close)
    /\ conn' = NoConn
    /\ left' = [left EXCEPT !.drops = @ - 1]
    /\ UNCHANGED <<generation, next, first, closed, cl, emptied>>

UpgradeFails ==
    /\ left.drops > 0 /\ cl.socket.state = "opening"
    /\ cl' = OnClose(cl)
    /\ left' = [left EXCEPT !.drops = @ - 1]
    /\ UNCHANGED <<generation, next, first, closed, conn, wire, emptied>>

(* ------------------------------- the browser --------------------------- *)
Opens ==
    /\ cl.socket.state = "accepted"
    /\ LET c == [cl EXCEPT !.socket.state = "open"]
       IN  cl' = IF cl.socket.refresh THEN TakeSnapshot(c) ELSE c
    /\ UNCHANGED <<generation, next, first, closed, conn, wire, left, emptied>>

Receives ==
    /\ cl.socket.state = "open" /\ wire # <<>>
    /\ wire' = Tail(wire)
    /\ LET m == Head(wire)
       IN  cl' = CASE m.kind = "event" -> Receive(cl, m.seq)
                   [] m.kind = "resync" ->
                        TakeSnapshot([cl EXCEPT !.resync = TRUE,
                                                !.resyncSequence = IF @ > m.seq THEN @ ELSE m.seq])
                   [] m.kind = "close" -> OnClose(cl)
    /\ UNCHANGED <<generation, next, first, closed, conn, left, emptied>>

\* the relay samples baseSequence before it awaits the provider's history
HistorySampled ==
    /\ cl.snap.phase = "asked"
    /\ cl' = [cl EXCEPT !.snap.phase = "read", !.snap.base = CurrentSequence]
    /\ UNCHANGED <<generation, next, first, closed, conn, wire, left, emptied>>

HistoryAnswers ==
    /\ cl.snap.phase = "read"
    /\ IF Behind(cl)
       THEN cl' = Failed(cl) /\ UNCHANGED <<conn, wire>>
       ELSE /\ LET c == AcceptCut(Succeeded(cl))
               IN  \E n \in c.cursor .. MaxEvents :
                      Follows(c, n) /\ cl' = Settled(Recovered(ReplayBuffered(c, n)))
            /\ conn' = IF Replaces(cl) THEN NoConn ELSE conn
            /\ wire' = IF Replaces(cl) THEN <<>> ELSE wire
    /\ UNCHANGED <<generation, next, first, closed, left, emptied>>

HistoryFails ==
    /\ cl.snap.phase # "none" /\ left.fails > 0
    /\ cl' = Failed(cl)
    /\ left' = [left EXCEPT !.fails = @ - 1]
    /\ UNCHANGED <<generation, next, first, closed, conn, wire, emptied>>

RetryFires ==
    /\ cl.retry
    /\ cl' = TakeSnapshot([cl EXCEPT !.retry = FALSE])
    /\ UNCHANGED <<generation, next, first, closed, conn, wire, left, emptied>>

ReconnectFires ==
    /\ cl.reconnect
    /\ cl' = IF cl.socket.state = "none" THEN Opening(cl, TRUE)
             ELSE [cl EXCEPT !.reconnect = FALSE]
    /\ UNCHANGED <<generation, next, first, closed, conn, wire, left, emptied>>

\* the page comes to the foreground or is asked to refresh
Foreground ==
    /\ left.visits > 0
    /\ cl' = TakeSnapshot(cl)
    /\ left' = [left EXCEPT !.visits = @ - 1]
    /\ UNCHANGED <<generation, next, first, closed, conn, wire, emptied>>

\* another session is selected, then this one again
Reselect ==
    /\ left.visits > 0
    /\ generation' = generation + 1
    /\ cl' = Selected /\ conn' = NoConn /\ wire' = <<>>
    /\ left' = [left EXCEPT !.visits = @ - 1]
    /\ UNCHANGED <<next, first, closed, emptied>>

-----------------------------------------------------------------------------
Init ==
    /\ next = 1 /\ first = 1 /\ closed = FALSE /\ emptied = FALSE
    /\ conn = NoConn /\ wire = <<>> /\ cl = Selected /\ generation = 1
    /\ left = [prunes |-> MaxPrunes, drops |-> MaxDrops, fails |-> MaxFails,
               visits |-> MaxVisits]

Relay == Publish \/ Republish \/ Prune \/ Upgrade
History == HistorySampled \/ HistoryAnswers \/ HistoryFails
Browser == Opens \/ Receives \/ RetryFires \/ ReconnectFires
Environment == Drop \/ UpgradeFails \/ Foreground \/ Reselect

Next == Relay \/ History \/ Browser \/ Environment

Spec == Init /\ [][Next]_vars

(* The relay answers upgrades, messages on an open socket arrive, history  *)
(* reads end and timers fire; nothing obliges anybody to publish, to       *)
(* refresh or to reselect.                                                 *)
Fairness ==
    /\ WF_vars(Upgrade) /\ WF_vars(Opens) /\ WF_vars(Receives)
    /\ WF_vars(HistorySampled) /\ WF_vars(HistoryAnswers)
    /\ WF_vars(RetryFires) /\ WF_vars(ReconnectFires)

FairSpec == Spec /\ Fairness

-----------------------------------------------------------------------------
(* Types of every variable; no sequence runs ahead of the journal.         *)
Client ==
    [cursor : Nat, snapshotting : BOOLEAN, buffered : SUBSET Sequence, resync : BOOLEAN,
     resyncSequence : Nat, failures : 0 .. Retries + 1, retry : BOOLEAN, reconnect : BOOLEAN,
     snap : [phase : {"none", "asked", "read"}, base : Nat, recovering : BOOLEAN],
     socket : [state : {"none", "opening", "accepted", "open"}, after : Nat, refresh : BOOLEAN],
     cut : Nat, runs : [Sequence -> Nat]]

TypeOK ==
    /\ next \in 1 .. MaxEvents + 1 /\ first \in 1 .. next
    /\ closed \in BOOLEAN /\ emptied \in BOOLEAN /\ generation \in Nat
    /\ conn \in [on : BOOLEAN, sent : Nat]
    /\ wire \in Seq(Msg) /\ \A i \in DOMAIN wire : wire[i].seq < next
    /\ cl \in Client
    /\ cl.cut <= cl.cursor /\ cl.cursor < next /\ cl.snap.base < next
    /\ \A s \in cl.buffered : s < next
    /\ left \in [prunes : Nat, drops : Nat, fails : Nat, visits : Nat]

(* The conversation the browser shows is a snapshot and every later event  *)
(* up to its cursor, each applied once: no replay overlap, re-published    *)
(* row, leftover buffer or late snapshot applies one twice, skips one or   *)
(* takes one back.                                                         *)
InOrderOnce ==
    \A s \in Sequence : cl.runs[s] = IF cl.cut < s /\ s <= cl.cursor THEN 1 ELSE 0

(* What the endpoint has sent on one connection is gapless: live delivery  *)
(* continues the replay, and nothing is sent twice.                        *)
WireContiguous ==
    \A i \in DOMAIN wire : i + 1 \in DOMAIN wire /\ wire[i].kind = "event"
        /\ wire[i + 1].kind = "event" => wire[i + 1].seq = wire[i].seq + 1

(* A browser that holds events back is waiting for a history read that is  *)
(* really under way, so the held events are not held for ever.             *)
HeldIsAwaited == cl.snapshotting => cl.snap.phase # "none"

(* A browser without a socket has a timer or a history read that leads to  *)
(* one, unless every retry of the history has failed.                      *)
NeverStranded ==
    cl.socket.state = "none" =>
        cl.reconnect \/ cl.retry \/ cl.snap.phase # "none" \/ cl.failures > Retries

(* A browser with nothing to wait for is up to date: connected, with no    *)
(* message under way, no read and no retry, it has every event it accepts. *)
QuietIsCurrent ==
    /\ ~emptied /\ conn.on /\ cl.socket.state = "open" /\ wire = <<>>
    /\ cl.snap.phase = "none" /\ cl.failures = 0
    => cl.cursor + 1 .. next - 1 \subseteq Rejected

(* The inductive strengthening: a browser without a socket is about to     *)
(* reconnect or recovers from a resync, and a recovery is never idle       *)
(* before the retries of its history read are spent.                       *)
RecoveryOK ==
    /\ cl.socket.state = "none" => cl.reconnect \/ cl.resync
    /\ cl.resync => cl.snap.phase # "none" \/ cl.retry \/ cl.failures > Retries

IInv == TypeOK /\ InOrderOnce /\ HeldIsAwaited /\ RecoveryOK

(* What the browser shows follows what was published.                      *)
Feed == INSTANCE EventFeed WITH last <- next - 1, cut <- cl.cut, seen <- cl.cursor,
                               visit <- generation

FeedSpec == Feed!Spec
=============================================================================
