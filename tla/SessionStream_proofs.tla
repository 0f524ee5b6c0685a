------------------------ MODULE SessionStream_proofs ------------------------
(***************************************************************************)
(* Proofs about SessionStream. The controller's operators are functions on *)
(* its record, so each keeps the parts of the invariant by a lemma of its  *)
(* own, and a step of the specification is a composition of them. The      *)
(* second half is about the connection: what is on the wire, and that the  *)
(* browser has or awaits everything that came before it.                   *)
(***************************************************************************)
EXTENDS SessionStream, TLAPS

-----------------------------------------------------------------------------
(* The parts of the invariant about the controller, for any record c       *)
Fits(c) ==
    /\ c \in Client
    /\ c.cut <= c.cursor /\ c.cursor < next /\ c.snap.base < next
    /\ \A s \in c.buffered : s < next

Exact(c) == \A s \in Sequence : c.runs[s] = IF c.cut < s /\ s <= c.cursor THEN 1 ELSE 0

Held(c) == c.snapshotting => c.snap.phase # "none"

Attached(c) == c.socket.state = "none" => c.reconnect \/ c.resync

Recovering(c) == c.resync => c.snap.phase # "none" \/ c.retry \/ c.failures > Retries

Sound(c) == Fits(c) /\ Exact(c) /\ Held(c) /\ Attached(c) /\ Recovering(c)

Journal ==
    /\ next \in 1 .. MaxEvents + 1 /\ first \in 1 .. next
    /\ closed \in BOOLEAN /\ emptied \in BOOLEAN /\ generation \in Nat
    /\ left \in [prunes : Nat, drops : Nat, fails : Nat, visits : Nat]

Traffic ==
    /\ conn \in [on : BOOLEAN, sent : Nat]
    /\ wire \in Seq(Msg) /\ \A i \in DOMAIN wire : wire[i].seq < next

LEMMA Parts == IInv <=> Journal /\ Traffic /\ Sound(cl)
BY DEF IInv, TypeOK, InOrderOnce, HeldIsAwaited, RecoveryOK, Journal, Traffic, Sound, Fits,
       Exact, Held, Attached, Recovering

-----------------------------------------------------------------------------
(* The controller's operators                                              *)

(* A history read begins: what was held is awaited, a resync is in hand.   *)
LEMMA Snapshot ==
    ASSUME NEW c, Fits(c), Exact(c), Attached(c), next \in Nat \ {0}
    PROVE  Sound(TakeSnapshot(c))
<1> DEFINE d == TakeSnapshot(c)
<1>1. c \in Client
  BY DEF Fits
<1>2. CASE c.snap.phase # "none"
  BY <1>2 DEF Sound, TakeSnapshot, Held, Recovering
<1>3. CASE c.snap.phase = "none"
  <2>1. d \in Client
    BY <1>1, <1>3 DEF TakeSnapshot, Client
  <2>2. /\ d.cut = c.cut /\ d.cursor = c.cursor /\ d.buffered = c.buffered /\ d.runs = c.runs
        /\ d.snap.base = 0 /\ d.snap.phase = "asked" /\ d.socket = c.socket
        /\ d.reconnect = c.reconnect /\ d.resync = c.resync
    BY <1>1, <1>3 DEF TakeSnapshot, Client
  <2>3. Fits(d) /\ Exact(d)
    BY <2>1, <2>2 DEF Fits, Exact
  <2>4. Held(d) /\ Attached(d) /\ Recovering(d)
    BY <2>2 DEF Held, Attached, Recovering
  <2> QED BY <2>3, <2>4 DEF Sound
<1> QED BY <1>2, <1>3

(* A history read shows nothing by itself.                                 *)
LEMMA Reads ==
    ASSUME NEW c, c \in Client
    PROVE  TakeSnapshot(c).cut = c.cut /\ TakeSnapshot(c).cursor = c.cursor
BY DEF TakeSnapshot, Client

(* An event is applied, held or dropped; nothing else of the record moves. *)
LEMMA Applied ==
    ASSUME NEW c, NEW s \in Nat, Fits(c), Exact(c), s < next, next \in 1 .. MaxEvents + 1
    PROVE  LET d == ApplyEvent(c, s)
           IN  /\ Fits(d) /\ Exact(d)
               /\ d.snap = c.snap /\ d.socket = c.socket /\ d.reconnect = c.reconnect
               /\ d.resync = c.resync /\ d.retry = c.retry /\ d.failures = c.failures
               /\ d.cut = c.cut /\ d.cursor \in {c.cursor, c.cursor + 1}
<1> DEFINE d == ApplyEvent(c, s)
<1>1. c \in Client /\ c.cursor \in Nat /\ c.cut \in Nat /\ MaxEvents \in Nat
  BY StreamAssumption DEF Fits, Client
<1>2. CASE s <= c.cursor
  BY <1>2 DEF ApplyEvent
<1>3. CASE s > c.cursor /\ (c.snapshotting \/ s > c.cursor + 1)
  <2>1. d = [c EXCEPT !.snapshotting = TRUE, !.buffered = c.buffered \cup {s}]
    BY <1>1, <1>3 DEF ApplyEvent
  <2>2. c.buffered \cup {s} \in SUBSET Sequence
    <3>1. s \in Sequence
      BY <1>1, <1>3 DEF Sequence
    <3>2. c.buffered \in SUBSET Sequence
      BY <1>1 DEF Client
    <3> QED BY <3>1, <3>2
  <2>3. d \in Client
    BY <1>1, <2>1, <2>2, ZenonT(60) DEF Client
  <2>4. /\ d.cut = c.cut /\ d.cursor = c.cursor /\ d.buffered = c.buffered \cup {s}
        /\ d.runs = c.runs /\ d.snap = c.snap /\ d.socket = c.socket
        /\ d.reconnect = c.reconnect /\ d.resync = c.resync /\ d.retry = c.retry
        /\ d.failures = c.failures
    BY <1>1, <2>1 DEF Client
  <2> HIDE DEF d
  <2>5. Fits(d) /\ Exact(d)
    BY <2>3, <2>4 DEF Fits, Exact
  <2> QED BY <2>4, <2>5 DEF d
<1>4. CASE s = c.cursor + 1 /\ ~c.snapshotting
  <2>1. d = [c EXCEPT !.cursor = s, !.runs = [c.runs EXCEPT ![s] = @ + 1]]
    BY <1>1, <1>4 DEF ApplyEvent, Apply
  <2>2. [c.runs EXCEPT ![s] = @ + 1] \in [Sequence -> Nat]
    <3>1. s \in Sequence
      BY <1>1, <1>4 DEF Sequence
    <3>2. c.runs \in [Sequence -> Nat]
      BY <1>1 DEF Client
    <3> QED BY <3>1, <3>2
  <2>3. d \in Client
    BY <1>1, <2>1, <2>2, ZenonT(60) DEF Client
  <2>4. /\ d.cut = c.cut /\ d.cursor = s /\ d.buffered = c.buffered
        /\ d.runs = [c.runs EXCEPT ![s] = @ + 1] /\ d.snap = c.snap /\ d.socket = c.socket
        /\ d.reconnect = c.reconnect /\ d.resync = c.resync /\ d.retry = c.retry
        /\ d.failures = c.failures
    BY <1>1, <2>1 DEF Client
  <2> HIDE DEF d
  <2>5. c.runs \in [Sequence -> Nat]
    BY <1>1 DEF Client
  <2>6. Exact(d)
    <3>1. ASSUME NEW q \in Sequence
          PROVE  d.runs[q] = IF d.cut < q /\ q <= d.cursor THEN 1 ELSE 0
      <4>1. c.runs[q] = IF c.cut < q /\ q <= c.cursor THEN 1 ELSE 0
        BY DEF Exact
      <4>2. q \in Nat /\ c.cut <= c.cursor
        BY DEF Sequence, Fits
      <4> QED BY <1>1, <1>4, <2>4, <2>5, <4>1, <4>2
    <3> QED BY <3>1 DEF Exact
  <2>7. Fits(d)
    BY <1>1, <1>4, <2>3, <2>4 DEF Fits
  <2> QED BY <1>4, <2>4, <2>6, <2>7 DEF d
<1> QED BY <1>1, <1>2, <1>3, <1>4

(* receive(): an event that must wait asks for a history read.             *)
LEMMA Received ==
    ASSUME NEW c, NEW s \in Nat, Sound(c), s < next, next \in 1 .. MaxEvents + 1
    PROVE  LET d == Receive(c, s)
           IN  /\ Sound(d) /\ d.cut = c.cut /\ d.cursor \in {c.cursor, c.cursor + 1}
               /\ d.cursor < next
<1> DEFINE e == ApplyEvent(c, s)
<1>1. /\ Fits(e) /\ Exact(e)
      /\ e.snap = c.snap /\ e.socket = c.socket /\ e.reconnect = c.reconnect
      /\ e.resync = c.resync /\ e.retry = c.retry /\ e.failures = c.failures
      /\ e.cut = c.cut /\ e.cursor \in {c.cursor, c.cursor + 1}
  BY Applied DEF Sound
<1> HIDE DEF e
<1>2. Attached(e) /\ Recovering(e)
  BY <1>1 DEF Sound, Attached, Recovering
<1>3. Sound(TakeSnapshot(e)) /\ TakeSnapshot(e).cut = e.cut /\ TakeSnapshot(e).cursor = e.cursor
  BY <1>1, <1>2, Snapshot, Reads DEF Fits
<1>4. ~e.snapshotting => Sound(e)
  BY <1>1, <1>2 DEF Sound, Held
<1>5. Receive(c, s) = IF s \in Rejected THEN c
                      ELSE IF e.snapshotting THEN TakeSnapshot(e) ELSE e
  BY DEF Receive, e
<1>6. e.cursor < next /\ c.cursor < next
  BY <1>1 DEF Sound, Fits
<1> QED BY <1>1, <1>3, <1>4, <1>5, <1>6

(* replayBuffered() applies the events that follow the cursor, each once.  *)
LEMMA Replayed ==
    ASSUME NEW c, NEW n \in Nat, Fits(c), Exact(c), Attached(c), Follows(c, n),
           next \in 1 .. MaxEvents + 1
    PROVE  LET d == ReplayBuffered(c, n)
           IN  /\ Fits(d) /\ Exact(d) /\ Attached(d)
               /\ d.cut = c.cut /\ c.cursor <= d.cursor /\ d.resync = c.resync
               /\ d.snap = c.snap
<1> DEFINE d == ReplayBuffered(c, n)
           added == c.cursor + 1 .. n
           runs == [s \in Sequence |-> IF s \in added THEN c.runs[s] + 1 ELSE c.runs[s]]
<1>1. /\ c \in Client /\ c.cursor \in Nat /\ c.cut \in Nat /\ MaxEvents \in Nat
      /\ c.buffered \in SUBSET Sequence /\ c.runs \in [Sequence -> Nat]
  BY StreamAssumption DEF Fits, Client
<1>2. d = [c EXCEPT !.cursor = n, !.buffered = c.buffered \ added,
                    !.snapshotting = (c.buffered \ added # {}), !.runs = runs]
  BY DEF ReplayBuffered
<1>3. runs \in [Sequence -> Nat]
  BY <1>1
<1>4. c.buffered \ added \in SUBSET Sequence
  BY <1>1
<1> HIDE DEF runs, added
<1>5. d \in Client
  BY <1>1, <1>2, <1>3, <1>4, ZenonT(60) DEF Client
<1>6. /\ d.cut = c.cut /\ d.cursor = n /\ d.buffered = c.buffered \ added
      /\ d.runs = runs /\ d.snap = c.snap /\ d.socket = c.socket
      /\ d.reconnect = c.reconnect /\ d.resync = c.resync
  BY <1>1, <1>2 DEF Client
<1> HIDE DEF d
<1>7. c.cursor <= n /\ n < next
  <2>1. CASE n = c.cursor
    BY <2>1, <1>1 DEF Fits
  <2>2. CASE n > c.cursor
    BY <2>2, <1>1 DEF Fits, Follows
  <2> QED BY <1>1, <2>1, <2>2 DEF Follows
<1>8. Fits(d)
  BY <1>1, <1>5, <1>6, <1>7 DEF Fits
<1>9. Exact(d)
  <2>1. ASSUME NEW q \in Sequence
        PROVE  d.runs[q] = IF d.cut < q /\ q <= d.cursor THEN 1 ELSE 0
    <3>1. c.runs[q] = IF c.cut < q /\ q <= c.cursor THEN 1 ELSE 0
      BY DEF Exact
    <3>2. q \in Nat /\ c.cut <= c.cursor
      BY DEF Sequence, Fits
    <3>3. runs[q] = IF q \in added THEN c.runs[q] + 1 ELSE c.runs[q]
      BY DEF runs
    <3>4. q \in added <=> c.cursor < q /\ q <= n
      BY <1>1, <3>2 DEF added
    <3> QED BY <1>1, <1>6, <1>7, <3>1, <3>2, <3>3, <3>4
  <2> QED BY <2>1 DEF Exact
<1> QED BY <1>6, <1>7, <1>8, <1>9 DEF Attached, d

(* A snapshot at or after the cursor restarts the count; an older one is   *)
(* not taken.                                                              *)
LEMMA Accepted ==
    ASSUME NEW c, Sound(c), next \in 1 .. MaxEvents + 1
    PROVE  LET d == AcceptCut(Succeeded(c))
           IN  /\ Fits(d) /\ Exact(d) /\ Attached(d)
               /\ d.resync = c.resync /\ d.snap = c.snap
               /\ d.cut = c.cut \/ c.cursor <= d.cut
               /\ c.cursor <= d.cursor
<1> DEFINE e == Succeeded(c)
           d == AcceptCut(e)
           zero == [s \in Sequence |-> 0]
           later == {s \in c.buffered : s > c.snap.base}
<1>1. /\ c \in Client /\ c.cursor \in Nat /\ c.cut \in Nat /\ c.snap.base \in Nat
      /\ c.buffered \in SUBSET Sequence /\ Retries \in Nat
  BY StreamAssumption DEF Sound, Fits, Client
<1>2. e \in Client
  <2>1. 0 \in 0 .. Retries + 1
    BY <1>1
  <2> QED BY <1>1, <2>1 DEF Succeeded, Client
<1>3. /\ e.cut = c.cut /\ e.cursor = c.cursor /\ e.buffered = c.buffered /\ e.runs = c.runs
      /\ e.snap = c.snap /\ e.socket = c.socket /\ e.reconnect = c.reconnect
      /\ e.resync = c.resync
  BY <1>1 DEF Succeeded, Client
<1> HIDE DEF e
<1>4. CASE c.snap.base < c.cursor
  <2>1. d = e
    BY <1>3, <1>4 DEF AcceptCut
  <2>2. Fits(e) /\ Exact(e) /\ Attached(e)
    BY <1>2, <1>3 DEF Sound, Fits, Exact, Attached
  <2> QED BY <1>1, <1>3, <2>1, <2>2 DEF e
<1>5. CASE c.cursor <= c.snap.base
  <2>1. d = [e EXCEPT !.cursor = c.snap.base, !.cut = c.snap.base, !.runs = zero,
                      !.buffered = later]
    BY <1>1, <1>3, <1>5 DEF AcceptCut
  <2>2. zero \in [Sequence -> Nat] /\ later \in SUBSET Sequence
    BY <1>1
  <2>3. \A s \in later : s < next
    BY DEF Sound, Fits
  <2>4. \A q \in Sequence : zero[q] = 0
    OBVIOUS
  <2> HIDE DEF zero, later
  <2>5. d \in Client
    BY <1>1, <1>2, <2>1, <2>2, ZenonT(60) DEF Client
  <2>6. /\ d.cut = c.snap.base /\ d.cursor = c.snap.base /\ d.buffered = later
        /\ d.runs = zero /\ d.snap = c.snap /\ d.socket = c.socket
        /\ d.reconnect = c.reconnect /\ d.resync = c.resync
    BY <1>2, <1>3, <2>1 DEF Client
  <2> HIDE DEF d
  <2>7. Fits(d)
    BY <1>1, <2>3, <2>5, <2>6 DEF Sound, Fits
  <2>8. Exact(d)
    BY <1>1, <2>4, <2>6 DEF Exact, Sequence
  <2>9. Attached(d)
    BY <2>6 DEF Sound, Attached
  <2> QED BY <1>5, <2>6, <2>7, <2>8, <2>9 DEF d, e
<1> QED BY <1>1, <1>4, <1>5

(* The socket is replaced when a resync or a held gap asked for it.        *)
LEMMA Reopened ==
    ASSUME NEW c, Fits(c), Exact(c), Attached(c), next \in 1 .. MaxEvents + 1
    PROVE  LET d == Recovered(c)
           IN  /\ Fits(d) /\ Exact(d) /\ Attached(d) /\ ~d.resync
               /\ d.cut = c.cut /\ d.cursor = c.cursor
<1> DEFINE d == Recovered(c)
<1>1. c \in Client /\ c.cursor \in Nat
  BY DEF Fits, Client
<1>2. CASE ~Replaces(c)
  BY <1>2 DEF Recovered, Replaces
<1>3. CASE Replaces(c)
  <2> DEFINE opening == [state |-> "opening", after |-> c.cursor, refresh |-> FALSE]
  <2>1. d = [c EXCEPT !.resync = FALSE, !.resyncSequence = 0, !.socket = opening,
                      !.reconnect = FALSE]
    BY <1>1, <1>3 DEF Recovered, Opening, Client
  <2>2. opening \in [state : {"none", "opening", "accepted", "open"}, after : Nat,
                     refresh : BOOLEAN] /\ opening.state = "opening"
    BY <1>1
  <2> HIDE DEF opening
  <2>3. d \in Client
    <3> DEFINE e == [c EXCEPT !.resync = FALSE, !.resyncSequence = 0]
    <3>1. e \in Client
      BY <1>1 DEF Client
    <3>2. d = [e EXCEPT !.socket = opening, !.reconnect = FALSE]
      BY <1>1, <2>1 DEF Client
    <3> HIDE DEF e
    <3> QED BY <2>2, <3>1, <3>2, ZenonT(60) DEF Client
  <2>4. /\ d.cut = c.cut /\ d.cursor = c.cursor /\ d.buffered = c.buffered /\ d.runs = c.runs
        /\ d.snap = c.snap /\ d.socket = opening /\ d.resync = FALSE
    BY <1>1, <2>1 DEF Client
  <2> HIDE DEF d
  <2>5. Fits(d) /\ Exact(d) /\ Attached(d)
    BY <2>2, <2>3, <2>4 DEF Fits, Exact, Attached
  <2> QED BY <2>4, <2>5 DEF d
<1> QED BY <1>2, <1>3

(* A history read ends; a gap it left behind asks for the next one.        *)
LEMMA Ended ==
    ASSUME NEW c, Fits(c), Exact(c), Attached(c), next \in 1 .. MaxEvents + 1,
           c.resync => c.retry \/ c.failures > Retries
    PROVE  Sound(Settled(c)) /\ Settled(c).cut = c.cut /\ Settled(c).cursor = c.cursor
<1> DEFINE d == [c EXCEPT !.snap = NoSnap]
<1>1. c \in Client /\ MaxEvents \in Nat
  BY StreamAssumption DEF Fits
<1>2. d \in Client
  BY <1>1 DEF Client, NoSnap
<1>3. /\ d.cut = c.cut /\ d.cursor = c.cursor /\ d.buffered = c.buffered /\ d.runs = c.runs
      /\ d.snap = NoSnap /\ d.socket = c.socket /\ d.reconnect = c.reconnect
      /\ d.resync = c.resync /\ d.retry = c.retry /\ d.failures = c.failures
  BY <1>1 DEF Client
<1>4. Settled(c) = IF d.snapshotting THEN TakeSnapshot(d) ELSE d
  BY DEF Settled
<1> HIDE DEF d
<1>5. Fits(d) /\ Exact(d) /\ Attached(d)
  BY <1>1, <1>2, <1>3 DEF Fits, Exact, Attached, NoSnap
<1>6. Recovering(d)
  BY <1>3 DEF Recovering
<1>7. ~d.snapshotting => Sound(d)
  BY <1>5, <1>6 DEF Sound, Held
<1>8. Sound(TakeSnapshot(d)) /\ TakeSnapshot(d).cut = d.cut /\ TakeSnapshot(d).cursor = d.cursor
  BY <1>1, <1>2, <1>5, Snapshot, Reads
<1> QED BY <1>3, <1>4, <1>7, <1>8

(* A failed history read shows nothing, and its retry is scheduled unless  *)
(* the retries are spent.                                                  *)
LEMMA ReadFailed ==
    ASSUME NEW c, Sound(c), next \in 1 .. MaxEvents + 1
    PROVE  Sound(Failed(c)) /\ Failed(c).cut = c.cut /\ Failed(c).cursor = c.cursor
<1> DEFINE count == IF c.failures < Retries + 1 THEN c.failures + 1 ELSE c.failures
           again == c.failures < Retries \/ c.retry
           d == [c EXCEPT !.snapshotting = FALSE, !.failures = count, !.retry = again]
<1>1. c \in Client /\ Retries \in Nat /\ c.failures \in 0 .. Retries + 1 /\ c.retry \in BOOLEAN
  BY StreamAssumption DEF Sound, Fits, Client
<1>2. Failed(c) = Settled(d)
  BY DEF Failed
<1>3. count \in 0 .. Retries + 1 /\ (c.failures >= Retries => count = Retries + 1)
  BY <1>1
<1>4. again \in BOOLEAN /\ (c.failures < Retries => again)
  BY <1>1
<1> HIDE DEF count, again
<1>5. d \in Client
  BY <1>1, <1>3, <1>4 DEF Client
<1>6. /\ d.cut = c.cut /\ d.cursor = c.cursor /\ d.buffered = c.buffered /\ d.runs = c.runs
      /\ d.snap = c.snap /\ d.socket = c.socket /\ d.reconnect = c.reconnect
      /\ d.resync = c.resync /\ d.retry = again /\ d.failures = count
  BY <1>1 DEF Client
<1> HIDE DEF d
<1>7. Fits(d) /\ Exact(d) /\ Attached(d)
  BY <1>5, <1>6 DEF Sound, Fits, Exact, Attached
<1>8. d.retry \/ d.failures > Retries
  BY <1>1, <1>3, <1>4, <1>6
<1> QED BY <1>2, <1>6, <1>7, <1>8, Ended

(* An answered history read: the snapshot is taken or refused, what was    *)
(* held is applied, the socket is replaced when that was asked for.        *)
LEMMA Answered ==
    ASSUME NEW c, NEW n \in Nat, Sound(c), Follows(AcceptCut(Succeeded(c)), n),
           next \in 1 .. MaxEvents + 1
    PROVE  LET d == Settled(Recovered(ReplayBuffered(AcceptCut(Succeeded(c)), n)))
           IN  /\ Sound(d) /\ (d.cut = c.cut \/ c.cursor <= d.cut)
               /\ c.cursor <= d.cursor
<1> DEFINE a == AcceptCut(Succeeded(c))
           b == ReplayBuffered(a, n)
           e == Recovered(b)
           d == Settled(e)
<1>1. /\ Fits(a) /\ Exact(a) /\ Attached(a)
      /\ a.cut = c.cut \/ c.cursor <= a.cut
      /\ c.cursor <= a.cursor
  BY Accepted
<1>2. Follows(a, n)
  OBVIOUS
<1> HIDE DEF a
<1>3. /\ Fits(b) /\ Exact(b) /\ Attached(b) /\ b.cut = a.cut /\ a.cursor <= b.cursor
  BY <1>1, <1>2, Replayed
<1> HIDE DEF b
<1>4. /\ Fits(e) /\ Exact(e) /\ Attached(e) /\ ~e.resync /\ e.cut = b.cut /\ e.cursor = b.cursor
  BY <1>3, Reopened
<1> HIDE DEF e
<1>5. Sound(d) /\ d.cut = e.cut /\ d.cursor = e.cursor
  BY <1>4, Ended
<1>6. c.cursor \in Nat /\ a.cursor \in Nat /\ b.cursor \in Nat
  BY <1>1, <1>3 DEF Sound, Fits, Client
<1> HIDE DEF d
<1>7. Sound(d) /\ (d.cut = c.cut \/ c.cursor <= d.cut) /\ c.cursor <= d.cursor
  BY <1>1, <1>3, <1>4, <1>5, <1>6
<1> QED BY <1>7 DEF a, b, d, e

(* A closed socket leaves a reconnection timer, or a history read when a   *)
(* resync closed it.                                                       *)
LEMMA SocketClosed ==
    ASSUME NEW c, Sound(c), next \in 1 .. MaxEvents + 1
    PROVE  Sound(OnClose(c)) /\ OnClose(c).cut = c.cut /\ OnClose(c).cursor = c.cursor
<1> DEFINE d == [c EXCEPT !.socket = NoSocket]
           e == [d EXCEPT !.reconnect = TRUE]
<1>1. c \in Client
  BY DEF Sound, Fits
<1>2. d \in Client /\ e \in Client
  BY <1>1 DEF Client, NoSocket
<1>3. /\ d.cut = c.cut /\ d.cursor = c.cursor /\ d.buffered = c.buffered /\ d.runs = c.runs
      /\ d.snap = c.snap /\ d.resync = c.resync /\ d.retry = c.retry
      /\ d.failures = c.failures /\ d.snapshotting = c.snapshotting
  BY <1>1 DEF Client
<1>4. /\ e.cut = c.cut /\ e.cursor = c.cursor /\ e.buffered = c.buffered /\ e.runs = c.runs
      /\ e.snap = c.snap /\ e.resync = c.resync /\ e.retry = c.retry
      /\ e.failures = c.failures /\ e.snapshotting = c.snapshotting /\ e.reconnect = TRUE
  BY <1>1 DEF Client
<1>5. OnClose(c) = IF c.resync THEN TakeSnapshot(d) ELSE e
  BY DEF OnClose
<1> HIDE DEF d, e
<1>6. Fits(d) /\ Exact(d) /\ Fits(e) /\ Exact(e)
  BY <1>2, <1>3, <1>4 DEF Sound, Fits, Exact
<1>7. CASE c.resync
  <2>1. Attached(d)
    BY <1>3, <1>7 DEF Attached
  <2> QED BY <1>2, <1>3, <1>5, <1>6, <1>7, <2>1, Snapshot, Reads
<1>8. CASE ~c.resync
  <2>1. Held(e) /\ Attached(e) /\ Recovering(e)
    BY <1>4, <1>8 DEF Sound, Held, Attached, Recovering
  <2> QED BY <1>4, <1>5, <1>6, <1>8, <2>1 DEF Sound
<1> QED BY <1>7, <1>8

-----------------------------------------------------------------------------
(* The steps                                                               *)

(* What a step may do to what the browser shows, within one selection.     *)
Shows ==
    /\ generation' = generation
    /\ (cl'.cut = cl.cut \/ cl.cursor <= cl'.cut) /\ cl.cursor <= cl'.cursor

(* The controller's record moved to a sound one.                           *)
LEMMA Kept ==
    ASSUME NEW c, Sound(c), cl' = c, next \in Nat, next' \in {next, next + 1}
    PROVE  Sound(cl)'
<1>1. Fits(c) /\ c.cursor \in Nat /\ c.snap.base \in Nat /\ c.buffered \subseteq Nat
  BY DEF Sound, Fits, Client, Sequence
<1>2. Fits(cl)'
  BY <1>1 DEF Fits, Client, Sequence
<1> QED BY <1>2 DEF Sound, Exact, Held, Attached, Recovering, Sequence

(* Sending one event: it is published, and so is what was already sent.    *)
LEMMA Delivered ==
    ASSUME Traffic, NEW s \in Nat, Deliver(s), next \in Nat, next' \in {next, next + 1},
           s < next'
    PROVE  Traffic'
<1>1. conn \in [on : BOOLEAN, sent : Nat] /\ wire \in Seq(Msg)
      /\ \A i \in DOMAIN wire : wire[i].seq < next
  BY DEF Traffic
<1>2. \A i \in DOMAIN wire : wire[i] \in Msg
  BY <1>1
<1>3. \A i \in DOMAIN wire : wire[i].seq < next'
  BY <1>1, <1>2 DEF Msg
<1>4. CASE UNCHANGED <<conn, wire>>
  BY <1>1, <1>3, <1>4 DEF Traffic
<1>5. ASSUME NEW m \in Msg, m.seq < next', wire' = Append(wire, m)
      PROVE  wire' \in Seq(Msg) /\ \A i \in DOMAIN wire' : wire'[i].seq < next'
  <2>1. wire' \in Seq(Msg) /\ DOMAIN wire' = 1 .. Len(wire) + 1
    BY <1>1, <1>5
  <2>2. ASSUME NEW i \in DOMAIN wire'
        PROVE  wire'[i].seq < next'
    <3>1. CASE i = Len(wire) + 1
      BY <1>1, <1>5, <3>1
    <3>2. CASE i \in 1 .. Len(wire)
      BY <1>1, <1>3, <1>5, <3>2
    <3> QED BY <1>1, <2>1, <2>2, <3>1, <3>2
  <2> QED BY <2>1, <2>2
<1>6. Event(s) \in Msg /\ Event(s).seq = s /\ Close \in Msg /\ Close.seq = 0
  BY DEF Event, Close, Msg
<1>7. CASE conn' = [conn EXCEPT !.sent = s] /\ wire' = Append(wire, Event(s))
  <2>1. conn' \in [on : BOOLEAN, sent : Nat]
    BY <1>1, <1>7
  <2> QED BY <1>5, <1>6, <1>7, <2>1 DEF Traffic
<1>8. CASE conn' = NoConn /\ wire' = Append(wire, Close)
  <2>1. conn' \in [on : BOOLEAN, sent : Nat]
    BY <1>8 DEF NoConn
  <2> QED BY <1>5, <1>6, <1>8, <2>1 DEF Traffic
<1> QED BY <1>4, <1>7, <1>8 DEF Deliver

(* No message under way, or those that were there before.                  *)
LEMMA Undelivered ==
    ASSUME Traffic, next' = next, conn' = conn \/ conn' = NoConn,
           wire' = wire \/ wire' = <<>> \/ (wire # <<>> /\ wire' = Tail(wire))
    PROVE  Traffic'
<1>1. conn' \in [on : BOOLEAN, sent : Nat]
  <2>1. conn \in [on : BOOLEAN, sent : Nat] /\ NoConn \in [on : BOOLEAN, sent : Nat]
    BY DEF Traffic, NoConn
  <2> QED BY <2>1
<1>2. CASE wire' = wire
  BY <1>1, <1>2 DEF Traffic
<1>3. CASE wire' = <<>>
  BY <1>1, <1>3 DEF Traffic
<1>4. CASE wire # <<>> /\ wire' = Tail(wire)
  BY <1>1, <1>4 DEF Traffic
<1> QED BY <1>2, <1>3, <1>4

(* The parts of the invariant after a step.                                *)
LEMMA PartsNext == Journal' /\ Traffic' /\ Sound(cl)' => IInv'
BY DEF IInv, TypeOK, InOrderOnce, HeldIsAwaited, RecoveryOK, Journal, Traffic, Sound, Fits,
       Exact, Held, Attached, Recovering

(* What the steps that leave the journal alone have in common.             *)
LEMMA Stays ==
    ASSUME Journal, next' = next, first' = first, closed' = closed, emptied' = emptied,
           generation' \in Nat, left' \in [prunes : Nat, drops : Nat, fails : Nat, visits : Nat]
    PROVE  Journal'
BY DEF Journal

(* A positive budget may be spent.                                         *)
LEMMA Spent ==
    ASSUME Journal
    PROVE  /\ left.prunes > 0 =>
                [left EXCEPT !.prunes = @ - 1] \in [prunes : Nat, drops : Nat, fails : Nat, visits : Nat]
           /\ left.drops > 0 =>
                [left EXCEPT !.drops = @ - 1] \in [prunes : Nat, drops : Nat, fails : Nat, visits : Nat]
           /\ left.fails > 0 =>
                [left EXCEPT !.fails = @ - 1] \in [prunes : Nat, drops : Nat, fails : Nat, visits : Nat]
           /\ left.visits > 0 =>
                [left EXCEPT !.visits = @ - 1] \in [prunes : Nat, drops : Nat, fails : Nat, visits : Nat]
BY DEF Journal

(* The sequence numbers in use are naturals.                               *)
LEMMA Numbers ==
    ASSUME Journal
    PROVE  /\ next \in Nat \ {0} /\ first \in Nat \ {0} /\ first <= next /\ MaxEvents \in Nat
           /\ next \in 1 .. MaxEvents + 1
BY StreamAssumption DEF Journal

LEMMA PublishStep ==
    ASSUME IInv, Publish
    PROVE  IInv' /\ UNCHANGED <<generation, cl>> /\ next' = next + 1
<1>1. Journal /\ Traffic /\ Sound(cl)
  BY Parts
<1>2. next' = next + 1 /\ next \in Nat \ {0} /\ next' \in 1 .. MaxEvents + 1 /\ first \in 1 .. next'
  BY <1>1, Numbers DEF Publish, Sequence, Journal
<1>3. Journal'
  BY <1>1, <1>2 DEF Publish, Journal
<1>4. Traffic'
  BY <1>1, <1>2, Delivered DEF Publish
<1>5. Sound(cl)'
  BY <1>1, <1>2, Kept DEF Publish
<1> QED BY <1>2, <1>3, <1>4, <1>5, PartsNext DEF Publish

LEMMA RepublishStep ==
    ASSUME IInv, Republish
    PROVE  IInv' /\ UNCHANGED <<generation, cl, next>>
<1>1. Journal /\ Traffic /\ Sound(cl) /\ next' = next /\ next \in Nat \ {0}
  BY Parts, Numbers DEF Republish
<1>2. PICK s \in first .. next - 1 : Deliver(s)
  BY DEF Republish
<1>3. s \in Nat /\ s < next
  BY <1>1, Numbers
<1>4. Traffic'
  BY <1>1, <1>2, <1>3, Delivered
<1>5. Journal'
  BY <1>1 DEF Republish, Journal
<1>6. Sound(cl)'
  BY <1>1, Kept DEF Republish
<1> QED BY <1>4, <1>5, <1>6, PartsNext DEF Republish

LEMMA PruneStep ==
    ASSUME IInv, Prune
    PROVE  IInv' /\ UNCHANGED <<generation, cl, next>>
<1>1. Journal /\ Traffic /\ Sound(cl) /\ next' = next /\ next \in Nat \ {0}
  BY Parts, Numbers DEF Prune
<1>2. Traffic'
  BY <1>1, Undelivered DEF Prune
<1>3. Journal'
  <2>1. first' \in 1 .. next'
    BY <1>1, Numbers DEF Prune
  <2>2. left' \in [prunes : Nat, drops : Nat, fails : Nat, visits : Nat]
    BY <1>1, Spent DEF Prune
  <2>3. emptied' \in BOOLEAN
    BY <1>1 DEF Prune, Journal
  <2> QED BY <1>1, <2>1, <2>2, <2>3 DEF Prune, Journal
<1>4. Sound(cl)'
  BY <1>1, Kept DEF Prune
<1> QED BY <1>2, <1>3, <1>4, PartsNext DEF Prune

LEMMA UpgradeStep ==
    ASSUME IInv, Upgrade
    PROVE  IInv' /\ next' = next /\ Shows
<1> DEFINE after == cl.socket.after
           from == ReplayFrom(after)
           rows == IF from >= next THEN <<>> ELSE [i \in 1 .. next - from |-> Event(from - 1 + i)]
           c == [cl EXCEPT !.socket.state = "accepted"]
<1>1. Journal /\ Traffic /\ Sound(cl) /\ next' = next /\ next \in Nat \ {0}
  BY Parts, Numbers DEF Upgrade
<1>2. cl \in Client /\ after \in Nat /\ from \in Nat \ {0}
  BY <1>1, Numbers DEF Sound, Fits, Client, ReplayFrom
<1>3. Journal'
  BY <1>1, Stays DEF Upgrade, Journal
<1>4. Traffic'
  <2>1. CASE conn' = NoConn /\ wire' = <<Resync(CurrentSequence), Close>>
    <3>1. CurrentSequence \in Nat /\ CurrentSequence < next
      BY <1>1 DEF CurrentSequence
    <3>2. Resync(CurrentSequence) \in Msg /\ Close \in Msg
      BY <3>1 DEF Resync, Close, Msg
    <3>3. wire' \in Seq(Msg)
      BY <2>1, <3>2
    <3>4. \A i \in DOMAIN wire' : wire'[i].seq < next'
      BY <1>1, <2>1, <3>1 DEF Resync, Close
    <3> QED BY <2>1, <3>3, <3>4 DEF Traffic, NoConn
  <2>2. CASE /\ conn' = [on |-> TRUE, sent |-> IF rows = <<>> THEN after ELSE next - 1]
             /\ wire' = rows
    <3> HIDE DEF from, after
    <3>1. conn' \in [on : BOOLEAN, sent : Nat]
      <4>1. (IF rows = <<>> THEN after ELSE next - 1) \in Nat
        BY <1>1, <1>2
      <4> HIDE DEF rows
      <4> QED BY <2>2, <4>1
    <3>2. CASE from >= next
      <4>1. wire' = <<>>
        BY <2>2, <3>2
      <4> QED BY <3>1, <4>1 DEF Traffic
    <3>3. CASE ~(from >= next)
      <4>1. next - from \in Nat
        BY <1>1, <1>2, <3>3
      <4>2. \A i \in 1 .. next - from : from - 1 + i \in Nat /\ from - 1 + i < next
        BY <1>1, <1>2, <3>3
      <4>3. \A i \in 1 .. next - from : Event(from - 1 + i) \in Msg
        BY <4>2 DEF Event, Msg
      <4>4. wire' = [i \in 1 .. next - from |-> Event(from - 1 + i)]
        BY <2>2, <3>3
      <4>5. wire' \in Seq(Msg)
        BY <4>1, <4>3, <4>4
      <4>6. \A i \in DOMAIN wire' : wire'[i].seq < next'
        BY <1>1, <4>2, <4>4 DEF Event
      <4> QED BY <3>1, <4>5, <4>6 DEF Traffic
    <3> QED BY <3>2, <3>3
  <2> QED BY <2>1, <2>2 DEF Upgrade
<1>5. Sound(c) /\ c.cut = cl.cut /\ c.cursor = cl.cursor
  <2>1. c \in Client
    BY <1>2 DEF Client
  <2>2. /\ c.cut = cl.cut /\ c.cursor = cl.cursor /\ c.buffered = cl.buffered /\ c.runs = cl.runs
        /\ c.snap = cl.snap /\ c.resync = cl.resync /\ c.retry = cl.retry
        /\ c.reconnect = cl.reconnect /\ c.failures = cl.failures
        /\ c.snapshotting = cl.snapshotting /\ c.socket.state = "accepted"
    BY <1>2 DEF Client
  <2> HIDE DEF c
  <2> QED BY <1>1, <2>1, <2>2 DEF Sound, Fits, Exact, Held, Attached, Recovering
<1>6. cl' = c /\ generation' = generation
  BY DEF Upgrade
<1>7. Sound(cl)'
  <2> HIDE DEF c
  <2> QED BY <1>1, <1>5, <1>6, Kept
<1>8. Shows
  BY <1>2, <1>5, <1>6 DEF Shows, Client
<1> QED BY <1>1, <1>3, <1>4, <1>7, <1>8, PartsNext

(* A step of the controller: its record is sound and shows no less.        *)
LEMMA ControllerMoves ==
    ASSUME IInv, NEW c, Sound(c), cl' = c, c.cut = cl.cut \/ cl.cursor <= c.cut,
           cl.cursor <= c.cursor, next' = next, first' = first, closed' = closed,
           emptied' = emptied, generation' = generation,
           left' \in [prunes : Nat, drops : Nat, fails : Nat, visits : Nat],
           conn' = conn \/ conn' = NoConn,
           wire' = wire \/ wire' = <<>> \/ (wire # <<>> /\ wire' = Tail(wire))
    PROVE  IInv' /\ Shows
<1>1. Journal /\ Traffic /\ Sound(cl) /\ next \in Nat \ {0}
  BY Parts, Numbers
<1>2. Traffic'
  BY <1>1, Undelivered
<1>3. Journal'
  BY <1>1, Stays DEF Journal
<1>4. Sound(cl)'
  BY <1>1, Kept
<1>5. Shows
  BY DEF Shows
<1> QED BY <1>2, <1>3, <1>4, <1>5, PartsNext

(* What a sound record is: facts every step of the controller starts from. *)
LEMMA Starts ==
    ASSUME IInv
    PROVE  /\ Journal /\ Traffic /\ Sound(cl) /\ Fits(cl) /\ Exact(cl) /\ Attached(cl)
           /\ cl \in Client /\ cl.cursor \in Nat /\ next \in Nat \ {0}
           /\ next \in 1 .. MaxEvents + 1
           /\ left \in [prunes : Nat, drops : Nat, fails : Nat, visits : Nat]
<1>1. Journal /\ Traffic /\ Sound(cl)
  BY Parts
<1> QED BY <1>1, Numbers DEF Sound, Fits, Client, Journal

LEMMA DropStep ==
    ASSUME IInv, Drop
    PROVE  IInv' /\ UNCHANGED <<generation, cl, next>>
<1>1. Journal /\ Traffic /\ Sound(cl) /\ next' = next /\ next \in Nat \ {0}
  BY Parts, Numbers DEF Drop
<1>2. PICK k \in 0 .. Len(wire) : wire' = Append(SubSeq(wire, 1, k), Close)
  BY DEF Drop
<1>3. wire \in Seq(Msg) /\ \A i \in DOMAIN wire : wire[i].seq < next
  BY <1>1 DEF Traffic
<1>4. Close \in Msg /\ Close.seq = 0
  BY DEF Close, Msg
<1>5. /\ SubSeq(wire, 1, k) \in Seq(Msg) /\ Len(SubSeq(wire, 1, k)) = k
      /\ \A i \in 1..k : SubSeq(wire, 1, k)[i] = wire[i] /\ i \in DOMAIN wire
  BY <1>2, <1>3
<1>6. Traffic'
  <2> DEFINE sent == SubSeq(wire, 1, k)
  <2>1. /\ sent \in Seq(Msg) /\ Len(sent) = k /\ k \in Nat /\ wire' = Append(sent, Close)
        /\ \A i \in 1..k : sent[i] = wire[i] /\ i \in DOMAIN wire
    BY <1>2, <1>3, <1>5
  <2> HIDE DEF sent
  <2>2. wire' \in Seq(Msg) /\ DOMAIN wire' = 1 .. k + 1
    BY <1>4, <2>1
  <2>3. ASSUME NEW i \in DOMAIN wire'
        PROVE  wire'[i].seq < next'
    <3>1. CASE i = k + 1
      BY <1>1, <1>4, <2>1, <3>1
    <3>2. CASE i \in 1..k
      BY <1>1, <1>3, <2>1, <3>2
    <3> QED BY <2>1, <2>2, <2>3, <3>1, <3>2
  <2>4. NoConn \in [on : BOOLEAN, sent : Nat]
    BY DEF NoConn
  <2> QED BY <2>2, <2>3, <2>4 DEF Traffic, Drop
<1>7. Journal'
  BY <1>1, Spent, Stays DEF Drop, Journal
<1>8. Sound(cl)'
  BY <1>1, Kept DEF Drop
<1> QED BY <1>6, <1>7, <1>8, PartsNext DEF Drop

LEMMA UpgradeFailsStep ==
    ASSUME IInv, UpgradeFails
    PROVE  IInv' /\ next' = next /\ Shows
<1>1. Sound(OnClose(cl)) /\ OnClose(cl).cut = cl.cut /\ OnClose(cl).cursor = cl.cursor
  BY Starts, SocketClosed
<1>2. left' \in [prunes : Nat, drops : Nat, fails : Nat, visits : Nat]
  BY Starts, Spent DEF UpgradeFails
<1>3. cl.cursor <= OnClose(cl).cursor
  BY <1>1, Starts
<1> QED BY <1>1, <1>2, <1>3, ControllerMoves DEF UpgradeFails

LEMMA OpensStep ==
    ASSUME IInv, Opens
    PROVE  IInv' /\ next' = next /\ Shows
<1> DEFINE c == [cl EXCEPT !.socket.state = "open"]
           d == IF cl.socket.refresh THEN TakeSnapshot(c) ELSE c
<1>1. c \in Client
  BY Starts DEF Client
<1>2. /\ c.cut = cl.cut /\ c.cursor = cl.cursor /\ c.buffered = cl.buffered /\ c.runs = cl.runs
      /\ c.snap = cl.snap /\ c.resync = cl.resync /\ c.retry = cl.retry
      /\ c.reconnect = cl.reconnect /\ c.failures = cl.failures
      /\ c.snapshotting = cl.snapshotting /\ c.socket.state = "open"
  BY Starts DEF Client
<1>3. cl' = d
  BY DEF Opens
<1> HIDE DEF c
<1>4. Sound(c)
  BY Starts, <1>1, <1>2 DEF Sound, Fits, Exact, Held, Attached, Recovering
<1>5. Sound(d) /\ d.cut = cl.cut /\ d.cursor = cl.cursor
  BY Starts, <1>1, <1>2, <1>4, Snapshot, Reads DEF Sound
<1> HIDE DEF d
<1>6. cl.cursor <= d.cursor
  BY <1>5, Starts
<1> QED BY <1>3, <1>5, <1>6, Starts, ControllerMoves DEF Opens

LEMMA ReceivesStep ==
    ASSUME IInv, Receives
    PROVE  /\ IInv' /\ next' = next /\ Shows
           /\ cl'.cut = cl.cut /\ cl'.cursor \in {cl.cursor, cl.cursor + 1}
<1> DEFINE m == Head(wire)
<1>1. m.kind \in {"event", "resync", "close"} /\ m.seq \in Nat /\ m.seq < next
  <2>1. wire \in Seq(Msg) /\ wire # <<>> /\ \A i \in DOMAIN wire : wire[i].seq < next
    BY Starts DEF Traffic, Receives
  <2>2. Head(wire) = wire[1] /\ 1 \in DOMAIN wire /\ wire[1] \in Msg
    BY <2>1
  <2> QED BY <2>1, <2>2 DEF Msg
<1>2. ASSUME NEW c, Sound(c), cl' = c, c.cut = cl.cut, c.cursor \in {cl.cursor, cl.cursor + 1}
      PROVE  /\ IInv' /\ next' = next /\ Shows
             /\ cl'.cut = cl.cut /\ cl'.cursor \in {cl.cursor, cl.cursor + 1}
  <2>1. cl.cursor <= c.cursor
    BY <1>2, Starts
  <2>2. left' \in [prunes : Nat, drops : Nat, fails : Nat, visits : Nat]
    BY Starts DEF Receives
  <2> QED BY <1>2, <2>1, <2>2, ControllerMoves DEF Receives
<1>3. CASE m.kind = "event"
  <2>1. cl' = Receive(cl, m.seq)
    BY <1>3 DEF Receives
  <2>2. /\ Sound(Receive(cl, m.seq)) /\ Receive(cl, m.seq).cut = cl.cut
        /\ Receive(cl, m.seq).cursor \in {cl.cursor, cl.cursor + 1}
    <3> HIDE DEF m
    <3> QED BY <1>1, Starts, Received
  <2> QED BY <1>2, <2>1, <2>2
<1>4. CASE m.kind = "resync"
  <2> DEFINE target == IF cl.resyncSequence > m.seq THEN cl.resyncSequence ELSE m.seq
             c == [cl EXCEPT !.resync = TRUE, !.resyncSequence = target]
  <2>1. cl' = TakeSnapshot(c)
    BY <1>4 DEF Receives
  <2>2. target \in Nat
    BY <1>1, Starts DEF Client
  <2> HIDE DEF target, m
  <2>3. c \in Client
    BY <2>2, Starts DEF Client
  <2>4. /\ c.cut = cl.cut /\ c.cursor = cl.cursor /\ c.buffered = cl.buffered
        /\ c.runs = cl.runs /\ c.snap = cl.snap /\ c.resync = TRUE
    BY Starts DEF Client
  <2> HIDE DEF c
  <2>5. Fits(c) /\ Exact(c) /\ Attached(c)
    BY <2>3, <2>4, Starts DEF Fits, Exact, Attached
  <2>6. /\ Sound(TakeSnapshot(c)) /\ TakeSnapshot(c).cut = cl.cut
        /\ TakeSnapshot(c).cursor = cl.cursor
    BY <2>3, <2>4, <2>5, Starts, Snapshot, Reads
  <2> QED BY <1>2, <2>1, <2>6
<1>5. CASE m.kind = "close"
  <2>1. cl' = OnClose(cl)
    BY <1>5 DEF Receives
  <2>2. Sound(OnClose(cl)) /\ OnClose(cl).cut = cl.cut /\ OnClose(cl).cursor = cl.cursor
    BY Starts, SocketClosed
  <2> QED BY <1>2, <2>1, <2>2
<1> QED BY <1>1, <1>3, <1>4, <1>5

LEMMA HistorySampledStep ==
    ASSUME IInv, HistorySampled
    PROVE  IInv' /\ next' = next /\ Shows
<1> DEFINE c == [cl EXCEPT !.snap.phase = "read", !.snap.base = CurrentSequence]
<1>1. CurrentSequence \in Nat /\ CurrentSequence < next
  BY Starts DEF CurrentSequence
<1>2. c \in Client
  BY <1>1, Starts DEF Client
<1>3. /\ c.cut = cl.cut /\ c.cursor = cl.cursor /\ c.buffered = cl.buffered /\ c.runs = cl.runs
      /\ c.snap.phase = "read" /\ c.snap.base = CurrentSequence /\ c.socket = cl.socket
      /\ c.resync = cl.resync /\ c.reconnect = cl.reconnect
  BY Starts DEF Client
<1>4. cl' = c
  BY DEF HistorySampled
<1> HIDE DEF c
<1>5. Fits(c) /\ Exact(c) /\ Attached(c)
  BY <1>1, <1>2, <1>3, Starts DEF Fits, Exact, Attached
<1>6. Held(c) /\ Recovering(c)
  BY <1>3 DEF Held, Recovering
<1>7. cl.cursor <= c.cursor
  BY <1>3, Starts
<1> QED BY <1>3, <1>4, <1>5, <1>6, <1>7, Starts, ControllerMoves DEF Sound, HistorySampled

LEMMA HistoryAnswersStep ==
    ASSUME IInv, HistoryAnswers
    PROVE  IInv' /\ next' = next /\ Shows
<1>1. CASE Behind(cl)
  <2>1. Sound(Failed(cl)) /\ Failed(cl).cut = cl.cut /\ Failed(cl).cursor = cl.cursor
    BY Starts, ReadFailed
  <2>2. cl.cursor <= Failed(cl).cursor
    BY <2>1, Starts
  <2> QED BY <1>1, <2>1, <2>2, Starts, ControllerMoves DEF HistoryAnswers
<1>2. CASE ~Behind(cl)
  <2> DEFINE a == AcceptCut(Succeeded(cl))
  <2>1. PICK n \in a.cursor .. MaxEvents :
           Follows(a, n) /\ cl' = Settled(Recovered(ReplayBuffered(a, n)))
    BY <1>2 DEF HistoryAnswers
  <2>2. n \in Nat
    <3>1. Fits(a)
      BY Starts, Accepted
    <3> QED BY <2>1, <3>1, Starts, StreamAssumption DEF Fits, Client
  <2> DEFINE d == Settled(Recovered(ReplayBuffered(AcceptCut(Succeeded(cl)), n)))
  <2>3. Sound(d) /\ (d.cut = cl.cut \/ cl.cursor <= d.cut) /\ cl.cursor <= d.cursor
    BY <2>1, <2>2, Starts, Answered
  <2>4. cl' = d
    BY <2>1
  <2> HIDE DEF d
  <2> QED BY <1>2, <2>3, <2>4, Starts, ControllerMoves DEF HistoryAnswers
<1> QED BY <1>1, <1>2

LEMMA HistoryFailsStep ==
    ASSUME IInv, HistoryFails
    PROVE  IInv' /\ next' = next /\ Shows
<1>1. Sound(Failed(cl)) /\ Failed(cl).cut = cl.cut /\ Failed(cl).cursor = cl.cursor
  BY Starts, ReadFailed
<1>2. cl.cursor <= Failed(cl).cursor
  BY <1>1, Starts
<1>3. left' \in [prunes : Nat, drops : Nat, fails : Nat, visits : Nat]
  BY Starts, Spent DEF HistoryFails
<1> QED BY <1>1, <1>2, <1>3, ControllerMoves DEF HistoryFails

LEMMA RetryFiresStep ==
    ASSUME IInv, RetryFires
    PROVE  IInv' /\ next' = next /\ Shows
<1> DEFINE c == [cl EXCEPT !.retry = FALSE]
<1>1. c \in Client
  BY Starts DEF Client
<1>2. /\ c.cut = cl.cut /\ c.cursor = cl.cursor /\ c.buffered = cl.buffered /\ c.runs = cl.runs
      /\ c.snap = cl.snap /\ c.socket = cl.socket /\ c.resync = cl.resync
      /\ c.reconnect = cl.reconnect
  BY Starts DEF Client
<1>3. cl' = TakeSnapshot(c)
  BY DEF RetryFires
<1> HIDE DEF c
<1>4. Fits(c) /\ Exact(c) /\ Attached(c)
  BY <1>1, <1>2, Starts DEF Fits, Exact, Attached
<1>5. Sound(TakeSnapshot(c)) /\ TakeSnapshot(c).cut = cl.cut /\ TakeSnapshot(c).cursor = cl.cursor
  BY <1>1, <1>2, <1>4, Starts, Snapshot, Reads
<1>6. cl.cursor <= TakeSnapshot(c).cursor
  BY <1>5, Starts
<1> QED BY <1>3, <1>5, <1>6, Starts, ControllerMoves DEF RetryFires

LEMMA ReconnectFiresStep ==
    ASSUME IInv, ReconnectFires
    PROVE  IInv' /\ next' = next /\ Shows
<1> DEFINE c == IF cl.socket.state = "none" THEN Opening(cl, TRUE)
                ELSE [cl EXCEPT !.reconnect = FALSE]
<1>1. c \in Client
  BY Starts, ZenonT(60) DEF Client, Opening
<1>2. /\ c.cut = cl.cut /\ c.cursor = cl.cursor /\ c.buffered = cl.buffered /\ c.runs = cl.runs
      /\ c.snap = cl.snap /\ c.resync = cl.resync /\ c.retry = cl.retry
      /\ c.failures = cl.failures /\ c.snapshotting = cl.snapshotting
      /\ c.socket.state # "none"
  BY Starts DEF Client, Opening
<1>3. cl' = c
  BY DEF ReconnectFires
<1> HIDE DEF c
<1>4. Sound(c)
  BY <1>1, <1>2, Starts DEF Sound, Fits, Exact, Held, Attached, Recovering
<1>5. cl.cursor <= c.cursor
  BY <1>2, Starts
<1> QED BY <1>2, <1>3, <1>4, <1>5, Starts, ControllerMoves DEF ReconnectFires

LEMMA ForegroundStep ==
    ASSUME IInv, Foreground
    PROVE  IInv' /\ next' = next /\ Shows
<1>1. Sound(TakeSnapshot(cl)) /\ TakeSnapshot(cl).cut = cl.cut
      /\ TakeSnapshot(cl).cursor = cl.cursor
  BY Starts, Snapshot, Reads
<1>2. cl.cursor <= TakeSnapshot(cl).cursor
  BY <1>1, Starts
<1>3. left' \in [prunes : Nat, drops : Nat, fails : Nat, visits : Nat]
  BY Starts, Spent DEF Foreground
<1> QED BY <1>1, <1>2, <1>3, ControllerMoves DEF Foreground

(* The record of a fresh selection is sound.                               *)
LEMMA SelectedSound ==
    ASSUME next \in Nat \ {0}
    PROVE  Sound(Selected) /\ Selected.cut = 0 /\ Selected.cursor = 0
<1>1. [s \in Sequence |-> 0] \in [Sequence -> Nat]
  OBVIOUS
<1>2. 0 \in 0 .. Retries + 1
  BY StreamAssumption
<1>3. Selected \in Client
  BY <1>1, <1>2 DEF Selected, Client
<1>4. Exact(Selected)
  BY DEF Exact, Selected, Sequence
<1>5. Fits(Selected)
  BY <1>3 DEF Fits, Selected
<1> QED BY <1>4, <1>5 DEF Sound, Held, Attached, Recovering, Selected

LEMMA ReselectStep ==
    ASSUME IInv, Reselect
    PROVE  /\ IInv' /\ next' = next /\ generation' = generation + 1
           /\ cl'.cut = 0 /\ cl'.cursor = 0
<1>1. Sound(Selected) /\ Selected.cut = 0 /\ Selected.cursor = 0
  BY Starts, SelectedSound
<1>2. Sound(cl)'
  BY <1>1, Starts, Kept DEF Reselect
<1>3. Journal'
  BY Starts, Spent, Stays, SMTT(40) DEF Reselect, Journal
<1>4. Traffic'
  BY Starts, Undelivered DEF Reselect
<1> QED BY <1>1, <1>2, <1>3, <1>4, PartsNext DEF Reselect

-----------------------------------------------------------------------------
(* The theorems                                                            *)

LEMMA Initially == Init => IInv
<1> SUFFICES ASSUME Init PROVE IInv
  OBVIOUS
<1>1. next = 1 /\ cl = Selected /\ conn = NoConn /\ wire = <<>>
  BY DEF Init
<1>2. Sound(cl)
  BY <1>1, SelectedSound
<1>3. Journal
  <2>1. next \in 1 .. MaxEvents + 1 /\ first \in 1 .. next /\ generation \in Nat
    BY StreamAssumption DEF Init
  <2>2. left \in [prunes : Nat, drops : Nat, fails : Nat, visits : Nat]
    BY StreamAssumption DEF Init
  <2>3. closed \in BOOLEAN /\ emptied \in BOOLEAN
    BY DEF Init
  <2> QED BY <2>1, <2>2, <2>3 DEF Journal
<1>4. Traffic
  BY <1>1 DEF Traffic, NoConn
<1> QED BY <1>2, <1>3, <1>4, Parts

LEMMA StutterStep ==
    ASSUME IInv, UNCHANGED vars
    PROVE  IInv'
BY SMTT(40) DEF vars, IInv, TypeOK, InOrderOnce, HeldIsAwaited, RecoveryOK, Client, Sequence, Msg

(* The inductive step: every action of the relay, of the history reads, of *)
(* the browser and of its environment keeps the invariant.                 *)
LEMMA Inductive == IInv /\ [Next]_vars => IInv'
<1> SUFFICES ASSUME IInv, [Next]_vars PROVE IInv'
  OBVIOUS
<1>1. CASE Publish        BY <1>1, PublishStep
<1>2. CASE Republish      BY <1>2, RepublishStep
<1>3. CASE Prune          BY <1>3, PruneStep
<1>4. CASE Upgrade        BY <1>4, UpgradeStep
<1>5. CASE HistorySampled BY <1>5, HistorySampledStep
<1>6. CASE HistoryAnswers BY <1>6, HistoryAnswersStep
<1>7. CASE HistoryFails   BY <1>7, HistoryFailsStep
<1>8. CASE Opens          BY <1>8, OpensStep
<1>9. CASE Receives       BY <1>9, ReceivesStep
<1>10. CASE RetryFires    BY <1>10, RetryFiresStep
<1>11. CASE ReconnectFires BY <1>11, ReconnectFiresStep
<1>12. CASE Drop          BY <1>12, DropStep
<1>13. CASE UpgradeFails  BY <1>13, UpgradeFailsStep
<1>14. CASE Foreground    BY <1>14, ForegroundStep
<1>15. CASE Reselect      BY <1>15, ReselectStep
<1>16. CASE UNCHANGED vars BY <1>16, StutterStep
<1> QED BY <1>1, <1>2, <1>3, <1>4, <1>5, <1>6, <1>7, <1>8, <1>9, <1>10, <1>11, <1>12, <1>13,
           <1>14, <1>15, <1>16 DEF Next, Relay, History, Browser, Environment

(* Whatever is lost, repeated, pruned or refused, the inductive invariant  *)
(* of relay and browser holds: types, exact application, held events that  *)
(* a read will release, and a way back to a socket.                        *)
THEOREM StreamInvariance == Spec => []IInv
BY Initially, Inductive, PTL DEF Spec

(* Types, and no number the browser holds runs ahead of the journal.       *)
THEOREM StreamTypes == Spec => []TypeOK
<1>1. IInv => TypeOK
  BY DEF IInv
<1> QED BY <1>1, StreamInvariance, PTL

(* The browser shows a snapshot and every later event up to its cursor     *)
(* exactly once, for every window, retry count and event type refused.     *)
THEOREM InOrder == Spec => []InOrderOnce
<1>1. IInv => InOrderOnce
  BY DEF IInv
<1> QED BY <1>1, StreamInvariance, PTL

(* Events are held back only while a history read is under way.            *)
THEOREM HeldAwaited == Spec => []HeldIsAwaited
<1>1. IInv => HeldIsAwaited
  BY DEF IInv
<1> QED BY <1>1, StreamInvariance, PTL

(* A browser without a socket has something under way that leads to one,   *)
(* unless the retries of its history are spent.                            *)
THEOREM NotStranded == Spec => []NeverStranded
<1>1. IInv => NeverStranded
  BY DEF IInv, RecoveryOK, NeverStranded
<1> QED BY <1>1, StreamInvariance, PTL

(* One step of the stream is a step of the abstract feed, or shows nothing. *)
LEMMA FeedStep ==
    ASSUME IInv, IInv', [Next]_vars
    PROVE  [Feed!Next]_<<next - 1, cl.cut, cl.cursor, generation>>
<1>1. /\ cl.cut \in Nat /\ cl.cursor \in Nat /\ next \in Nat \ {0} /\ generation \in Nat
      /\ cl.cut <= cl.cursor /\ cl.cursor < next
  BY Starts DEF Fits, Client, Journal
<1>2. /\ cl'.cut \in Nat /\ cl'.cursor \in Nat /\ next' \in Nat
      /\ cl'.cut <= cl'.cursor /\ cl'.cursor < next'
  BY DEF IInv, TypeOK, Client
<1>3. ASSUME next' = next, Shows PROVE Feed!Refresh
  BY <1>1, <1>2, <1>3 DEF Feed!Refresh, Shows
<1>4. CASE Publish
  <2>1. Feed!Publish
    BY <1>1, <1>4, PublishStep DEF Feed!Publish
  <2> QED BY <2>1 DEF Feed!Next
<1>5. CASE Republish \/ Prune \/ Drop
  <2>1. UNCHANGED <<generation, cl, next>>
    BY <1>5, RepublishStep, PruneStep, DropStep
  <2> QED BY <2>1
<1>6. CASE \/ Upgrade \/ Opens \/ HistorySampled \/ HistoryAnswers \/ HistoryFails
           \/ RetryFires \/ ReconnectFires \/ UpgradeFails \/ Foreground
  <2>1. next' = next /\ Shows
    BY <1>6, UpgradeStep, OpensStep, HistorySampledStep, HistoryAnswersStep, HistoryFailsStep,
       RetryFiresStep, ReconnectFiresStep, UpgradeFailsStep, ForegroundStep
  <2> QED BY <1>3, <2>1 DEF Feed!Next
<1>7. CASE Receives
  <2>1. /\ next' = next /\ generation' = generation
        /\ cl'.cut = cl.cut /\ cl'.cursor \in {cl.cursor, cl.cursor + 1}
    BY <1>7, ReceivesStep DEF Shows
  <2>2. CASE cl'.cursor = cl.cursor
    BY <2>1, <2>2
  <2>3. CASE cl'.cursor = cl.cursor + 1
    <3>1. Feed!Show
      BY <1>1, <1>2, <2>1, <2>3 DEF Feed!Show
    <3> QED BY <3>1 DEF Feed!Next
  <2> QED BY <2>1, <2>2, <2>3
<1>8. CASE Reselect
  <2>1. Feed!Leave
    BY <1>8, ReselectStep DEF Feed!Leave
  <2> QED BY <2>1 DEF Feed!Next
<1>9. CASE UNCHANGED vars
  BY <1>9 DEF vars
<1> QED BY <1>4, <1>5, <1>6, <1>7, <1>8, <1>9 DEF Next, Relay, History, Browser, Environment

(* Journal, endpoint, sockets, buffers and retries together implement the  *)
(* abstract feed: what is shown only grows, along what was published,      *)
(* until the user leaves the session.                                      *)
THEOREM ImplementsFeed == Spec => FeedSpec
<1>1. Init => Feed!Init
  BY DEF Init, Feed!Init, Selected
<1>2. IInv /\ IInv' /\ [Next]_vars => [Feed!Next]_<<next - 1, cl.cut, cl.cursor, generation>>
  BY FeedStep
<1> QED BY <1>1, <1>2, StreamInvariance, PTL DEF Spec, FeedSpec, Feed!Spec

-----------------------------------------------------------------------------
(* What is on the wire                                                     *)

(* An open connection carries events only, up to its high-water mark, and  *)
(* the mark is the newest row - or the journal was empty and nothing has   *)
(* been sent.                                                              *)
LineOK ==
    conn.on =>
        /\ conn.sent < next
        /\ conn.sent = next - 1 \/ (first = next /\ wire = <<>>)
        /\ wire # <<>> => wire[Len(wire)].seq = conn.sent
        /\ \A i \in DOMAIN wire : wire[i].kind = "event"

(* A journal without rows is new, or retention emptied it.                 *)
EmptyOK == first = next => next = 1 \/ emptied

LineInv == WireContiguous /\ LineOK /\ EmptyOK

(* A socket asked for the events after a cursor the browser has reached.  *)
Asked(c) == c.socket.after <= c.cursor

LineState == <<next, first, conn, wire, emptied>>

LEMMA LineUnmoved ==
    ASSUME LineInv, UNCHANGED LineState
    PROVE  LineInv'
BY DEF LineState, LineInv, WireContiguous, LineOK, EmptyOK

(* The line as sequences and numbers.                                      *)
LEMMA LineFacts ==
    ASSUME IInv
    PROVE  /\ next \in Nat \ {0} /\ first \in Nat \ {0} /\ first <= next
           /\ wire \in Seq(Msg) /\ Len(wire) \in Nat /\ DOMAIN wire = 1 .. Len(wire)
           /\ conn.on \in BOOLEAN /\ conn.sent \in Nat /\ conn \in [on : BOOLEAN, sent : Nat]
           /\ \A i \in DOMAIN wire : wire[i].seq \in Nat
<1>1. Journal /\ Traffic
  BY Parts
<1>2. wire \in Seq(Msg) /\ conn \in [on : BOOLEAN, sent : Nat]
  BY <1>1 DEF Traffic
<1>3. \A i \in DOMAIN wire : wire[i] \in Msg
  BY <1>2
<1> QED BY <1>1, <1>2, <1>3, Numbers DEF Msg

(* A connection is not open, and what it carried arrived or was cut off.   *)
LEMMA LineClosed ==
    ASSUME IInv, LineInv, conn' = NoConn, UNCHANGED <<next, first, emptied>>, WireContiguous'
    PROVE  LineInv'
BY DEF LineInv, LineOK, EmptyOK, NoConn

(* A message behind those on the wire keeps them contiguous when it is no  *)
(* event, or the event that follows the last one.                          *)
LEMMA AppendedContiguous ==
    ASSUME NEW w \in Seq(Msg), NEW m \in Msg, wire' = Append(w, m),
           \A i \in 1 .. Len(w) - 1 :
               w[i].kind = "event" /\ w[i + 1].kind = "event" => w[i + 1].seq = w[i].seq + 1,
           m.kind = "event" /\ w # <<>> /\ w[Len(w)].kind = "event" =>
               m.seq = w[Len(w)].seq + 1
    PROVE  WireContiguous'
<1>1. /\ DOMAIN wire' = 1 .. Len(w) + 1 /\ wire'[Len(w) + 1] = m /\ Len(w) \in Nat
      /\ \A i \in 1 .. Len(w) : wire'[i] = w[i]
  OBVIOUS
<1> SUFFICES ASSUME NEW i \in DOMAIN wire', i + 1 \in DOMAIN wire',
                    wire'[i].kind = "event", wire'[i + 1].kind = "event"
             PROVE  wire'[i + 1].seq = wire'[i].seq + 1
  BY DEF WireContiguous
<1>2. CASE i = Len(w)
  BY <1>1, <1>2
<1>3. CASE i \in 1 .. Len(w) - 1
  BY <1>1, <1>3
<1> QED BY <1>1, <1>2, <1>3

LEMMA CloseIsMsg == Close \in Msg /\ Close.kind = "close"
BY DEF Close, Msg

LEMMA WireRuns ==
    ASSUME IInv, WireContiguous
    PROVE  \A i \in 1 .. Len(wire) - 1 :
               wire[i].kind = "event" /\ wire[i + 1].kind = "event" =>
                   wire[i + 1].seq = wire[i].seq + 1
<1> SUFFICES ASSUME NEW i \in 1 .. Len(wire) - 1
             PROVE  wire[i].kind = "event" /\ wire[i + 1].kind = "event" =>
                        wire[i + 1].seq = wire[i].seq + 1
  OBVIOUS
<1>1. i \in DOMAIN wire /\ i + 1 \in DOMAIN wire
  BY LineFacts
<1> QED BY <1>1 DEF WireContiguous

(* A new row follows the newest one: it is sent on every open connection.  *)
LEMMA PublishLine ==
    ASSUME IInv, LineInv, Publish
    PROVE  /\ LineInv'
           /\ conn'.on => conn.on /\ wire' = Append(wire, Event(next))
<1>1. /\ next' = next + 1 /\ first' = first /\ emptied' = emptied /\ Deliver(next)
      /\ next \in Nat \ {0} /\ first <= next /\ first \in Nat
  BY LineFacts DEF Publish
<1>2. EmptyOK'
  BY <1>1 DEF EmptyOK
<1>3. Event(next) \in Msg /\ Event(next).seq = next /\ Event(next).kind = "event"
  BY <1>1 DEF Event, Msg
<1>4. CASE UNCHANGED <<conn, wire>> /\ ~Sends(next)
  <2>1. ~conn.on
    BY <1>1, <1>4, LineFacts DEF Sends, LineInv, LineOK
  <2> QED BY <1>2, <1>4, <2>1 DEF LineInv, LineOK, WireContiguous
<1>5. CASE conn' = NoConn /\ wire' = Append(wire, Close)
  <2>1. WireContiguous'
    BY <1>5, LineFacts, WireRuns, CloseIsMsg, AppendedContiguous DEF LineInv
  <2>2. ~conn'.on
    BY <1>5 DEF NoConn
  <2> QED BY <1>2, <2>1, <2>2 DEF LineInv, LineOK
<1>6. CASE Sends(next) /\ conn' = [conn EXCEPT !.sent = next] /\ wire' = Append(wire, Event(next))
  <2>1. conn.on /\ conn'.on /\ conn'.sent = next
    BY <1>6, LineFacts DEF Sends
  <2>2. wire # <<>> => wire[Len(wire)].seq = next - 1
    BY <2>1 DEF LineInv, LineOK
  <2>3. WireContiguous'
    <3>1. wire # <<>> => Event(next).seq = wire[Len(wire)].seq + 1
      BY <1>1, <1>3, <2>2
    <3>2. WireContiguous /\ wire \in Seq(Msg) /\ wire' = Append(wire, Event(next))
      BY <1>6, LineFacts DEF LineInv
    <3> QED BY <1>3, <3>1, <3>2, WireRuns, AppendedContiguous
  <2>4. wire'[Len(wire')] = Event(next) /\ wire' # <<>> /\ Len(wire') = Len(wire) + 1
    BY <1>3, <1>6, LineFacts
  <2>5. \A i \in DOMAIN wire' : wire'[i].kind = "event"
    <3>1. \A i \in DOMAIN wire : wire[i].kind = "event"
      BY <2>1 DEF LineInv, LineOK
    <3> QED BY <1>3, <1>6, <3>1, LineFacts
  <2>6. LineOK'
    BY <1>1, <1>3, <2>1, <2>4, <2>5 DEF LineOK
  <2> QED BY <1>2, <1>6, <2>1, <2>3, <2>6 DEF LineInv
<1> QED BY <1>1, <1>4, <1>5, <1>6 DEF Deliver

(* A row that comes back is at or below the mark of an open connection.    *)
LEMMA RepublishLine ==
    ASSUME IInv, LineInv, Republish
    PROVE  UNCHANGED LineState
<1>1. PICK s \in first .. next - 1 : Deliver(s)
  BY DEF Republish
<1>2. ~Sends(s)
  BY <1>1, LineFacts DEF Sends, LineInv, LineOK
<1> QED BY <1>1, <1>2 DEF Deliver, LineState, Republish

LEMMA PruneLine ==
    ASSUME IInv, LineInv, Prune
    PROVE  LineInv' /\ UNCHANGED <<next, conn, wire>> /\ (emptied => emptied')
<1>1. /\ UNCHANGED <<next, conn, wire>> /\ first' \in first + 1 .. next
      /\ emptied' = (emptied \/ first' = next)
  BY DEF Prune
<1>2. EmptyOK'
  BY <1>1, LineFacts DEF EmptyOK
<1>3. first < next
  BY <1>1, LineFacts
<1>4. LineOK'
  BY <1>1, <1>3, LineFacts DEF LineInv, LineOK
<1>5. WireContiguous'
  BY <1>1 DEF LineInv, WireContiguous
<1> QED BY <1>1, <1>2, <1>4, <1>5 DEF LineInv

(* An accepted upgrade replays the rows after the browser's cursor, all of *)
(* them and from the first; without rows there is nothing to replay.       *)
LEMMA UpgradeLine ==
    ASSUME IInv, LineInv, Asked(cl), Upgrade
    PROVE  /\ LineInv' /\ UNCHANGED <<next, emptied>>
           /\ conn'.on /\ ~emptied =>
                 \/ wire' = <<>> /\ cl.socket.after + 1 = next
                 \/ wire' # <<>> /\ wire'[1].seq = cl.socket.after + 1
<1> DEFINE after == cl.socket.after
           from == ReplayFrom(after)
           rows == IF from >= next THEN <<>> ELSE [i \in 1 .. next - from |-> Event(from - 1 + i)]
<1>1. /\ UNCHANGED <<next, first, emptied>> /\ next \in Nat \ {0} /\ first \in Nat \ {0}
      /\ first <= next /\ after \in Nat /\ from \in Nat \ {0} /\ after < next
  BY LineFacts, Starts, SMTT(40) DEF Upgrade, Client, ReplayFrom, Fits, Asked
<1>2. EmptyOK'
  BY <1>1 DEF LineInv, EmptyOK
<1>3. CASE conn' = NoConn /\ wire' = <<Resync(CurrentSequence), Close>>
  <2>1. ~conn'.on
    BY <1>3 DEF NoConn
  <2>2. \A i \in DOMAIN wire' : wire'[i].kind # "event"
    BY <1>3 DEF Resync, Close
  <2> QED BY <1>1, <1>2, <2>1, <2>2 DEF LineInv, LineOK, WireContiguous
<1>4. CASE /\ ~MustResync(after) /\ wire' = rows
           /\ conn' = [on |-> TRUE, sent |-> IF rows = <<>> THEN after ELSE next - 1]
  <2>1. CASE from >= next
    <3>1. wire' = <<>> /\ conn'.sent = after /\ conn'.on
      BY <1>4, <2>1
    <3>2. after + 1 = next \/ (first = next /\ after + 1 < next)
      BY <1>1, <2>1 DEF ReplayFrom
    <3>3. WireContiguous'
      BY <3>1 DEF WireContiguous
    <3>4. LineOK'
      BY <1>1, <3>1, <3>2 DEF LineOK
    <3>5. ~emptied => after + 1 = next
      BY <1>1, <3>2 DEF LineInv, EmptyOK
    <3> QED BY <1>1, <1>2, <3>1, <3>3, <3>4, <3>5 DEF LineInv
  <2>2. CASE ~(from >= next)
    <3>1. from = after + 1
      BY <1>1, <1>4, <2>2 DEF MustResync
    <3>2. next - from \in Nat \ {0}
      BY <1>1, <2>2
    <3>3. wire' = [i \in 1 .. next - from |-> Event(from - 1 + i)]
      BY <1>4, <2>2
    <3> DEFINE w == [i \in 1 .. next - from |-> Event(from - 1 + i)]
    <3>4. /\ Len(w) = next - from /\ w # <<>> /\ DOMAIN w = 1 .. next - from
          /\ \A i \in 1 .. next - from : w[i].seq = from - 1 + i /\ w[i].kind = "event"
      BY <3>2 DEF Event
    <3>5. wire' = w
      BY <3>3
    <3> HIDE DEF w, from
    <3>6. conn'.on /\ conn'.sent = next - 1
      <4>1. rows # <<>>
        BY <1>4, <3>4, <3>5
      <4> QED BY <1>4, <4>1
    <3>7. WireContiguous'
      BY <1>1, <3>2, <3>4, <3>5 DEF WireContiguous
    <3>8. LineOK'
      BY <1>1, <3>2, <3>4, <3>5, <3>6 DEF LineOK
    <3>9. wire'[1].seq = after + 1
      BY <1>1, <3>1, <3>2, <3>4, <3>5, SMTT(40)
    <3> QED BY <1>1, <1>2, <3>4, <3>5, <3>7, <3>8, <3>9 DEF LineInv
  <2> QED BY <2>1, <2>2
<1> QED BY <1>3, <1>4 DEF Upgrade

(* A connection that breaks delivers a part of what it carried.            *)
LEMMA DropLine ==
    ASSUME IInv, LineInv, Drop
    PROVE  LineInv' /\ ~conn'.on
<1>1. PICK k \in 0 .. Len(wire) : wire' = Append(SubSeq(wire, 1, k), Close)
  BY DEF Drop
<1>2. /\ SubSeq(wire, 1, k) \in Seq(Msg) /\ Len(SubSeq(wire, 1, k)) = k
      /\ \A i \in 1..k : SubSeq(wire, 1, k)[i] = wire[i]
  BY <1>1, LineFacts
<1> DEFINE w == SubSeq(wire, 1, k)
<1>3. \A i \in 1 .. Len(w) - 1 :
          w[i].kind = "event" /\ w[i + 1].kind = "event" => w[i + 1].seq = w[i].seq + 1
  BY <1>2, WireRuns, LineFacts DEF LineInv
<1> HIDE DEF w
<1>4. WireContiguous'
  BY <1>1, <1>2, <1>3, CloseIsMsg, AppendedContiguous DEF w
<1> QED BY <1>4, LineClosed DEF Drop, NoConn

(* What arrives leaves the wire from the front.                            *)
LEMMA ReceivesLine ==
    ASSUME IInv, LineInv, Receives
    PROVE  /\ LineInv' /\ UNCHANGED <<next, conn, emptied>>
           /\ conn.on => /\ wire # <<>> /\ Head(wire) = wire[1] /\ wire[1].kind = "event"
                         /\ wire' = <<>> => wire[1].seq = next - 1
                         /\ wire' # <<>> => wire'[1].seq = wire[1].seq + 1
<1>1. UNCHANGED <<next, first, conn, emptied>> /\ wire # <<>> /\ wire' = Tail(wire)
  BY DEF Receives
<1>2. /\ wire' \in Seq(Msg) /\ Len(wire') = Len(wire) - 1 /\ Len(wire) >= 1
      /\ \A i \in 1 .. Len(wire') : wire'[i] = wire[i + 1]
  BY <1>1, LineFacts
<1>3. DOMAIN wire' = 1 .. Len(wire') /\ Len(wire') \in Nat
  BY <1>2
<1>4. WireContiguous'
  <2> SUFFICES ASSUME NEW i \in DOMAIN wire', i + 1 \in DOMAIN wire',
                      wire'[i].kind = "event", wire'[i + 1].kind = "event"
               PROVE  wire'[i + 1].seq = wire'[i].seq + 1
    BY DEF WireContiguous
  <2>1. i + 1 \in DOMAIN wire /\ i + 1 + 1 \in DOMAIN wire
    BY <1>2, <1>3, LineFacts
  <2>2. wire'[i] = wire[i + 1] /\ wire'[i + 1] = wire[i + 1 + 1]
    BY <1>2, <1>3
  <2> QED BY <2>1, <2>2 DEF LineInv, WireContiguous
<1>5. ASSUME conn.on
      PROVE  /\ \A i \in DOMAIN wire' : wire'[i].kind = "event"
             /\ wire' # <<>> => wire'[Len(wire')].seq = conn.sent
             /\ conn.sent = next - 1 /\ wire[Len(wire)].seq = next - 1
  <2>1. /\ \A i \in DOMAIN wire : wire[i].kind = "event"
        /\ wire[Len(wire)].seq = conn.sent /\ conn.sent = next - 1
    BY <1>1, <1>5 DEF LineInv, LineOK
  <2>2. \A i \in DOMAIN wire' : wire'[i].kind = "event"
    BY <1>2, <1>3, <2>1, LineFacts, SMTT(40)
  <2>3. wire' # <<>> => wire'[Len(wire')] = wire[Len(wire)]
    BY <1>2, <1>3, LineFacts
  <2> QED BY <2>1, <2>2, <2>3
<1>6. LineOK' /\ EmptyOK'
  BY <1>1, <1>5 DEF LineInv, LineOK, EmptyOK
<1>7. Head(wire) = wire[1] /\ 1 \in DOMAIN wire
  BY <1>1, <1>2, LineFacts
<1>8. ASSUME conn.on
      PROVE  /\ wire[1].kind = "event" /\ (wire' = <<>> => wire[1].seq = next - 1)
             /\ wire' # <<>> => wire'[1].seq = wire[1].seq + 1
  <2>1. wire[1].kind = "event"
    BY <1>7, <1>8 DEF LineInv, LineOK
  <2>2. wire' = <<>> => Len(wire) = 1
    BY <1>2, LineFacts
  <2>3. ASSUME wire' # <<>>
        PROVE  wire'[1].seq = wire[1].seq + 1
    <3>1. 1 + 1 \in DOMAIN wire /\ wire'[1] = wire[1 + 1]
      BY <1>2, <1>3, <2>3, LineFacts
    <3>2. wire[1 + 1].kind = "event"
      BY <1>8, <3>1 DEF LineInv, LineOK
    <3> QED BY <1>7, <2>1, <3>1, <3>2 DEF LineInv, WireContiguous
  <2> QED BY <1>5, <1>8, <2>1, <2>2, <2>3
<1> QED BY <1>1, <1>4, <1>6, <1>7, <1>8 DEF LineInv

-----------------------------------------------------------------------------
(* What the browser has                                                    *)

(* Events held back are awaited by a history read, or a read has failed.   *)
Backed(c) == c.buffered # {} => c.snap.phase # "none" \/ c.failures > 0

(* The browser shows, holds or refuses every event before p.               *)
Upto(c, p) == \A s \in c.cursor + 1 .. p - 1 : s \in Rejected \/ s \in c.buffered

(* The first event the connection has still to bring.                      *)
Position == IF wire = <<>> THEN next ELSE wire[1].seq

Upgraded == conn.on /\ cl.socket.state \in {"accepted", "open"}

CatchUp ==
    /\ Asked(cl) /\ Backed(cl)
    /\ Upgraded /\ ~emptied => Upto(cl, Position)

(* The controller moves on without losing an event.                        *)
Advances(c, d) ==
    /\ c.cursor <= d.cursor
    /\ \A s \in c.buffered : s <= d.cursor \/ s \in d.buffered

LEMMA AdvanceUpto ==
    ASSUME NEW c \in Client, NEW d \in Client, Advances(c, d), NEW p \in Nat, Upto(c, p)
    PROVE  Upto(d, p)
<1>1. c.cursor \in Nat /\ d.cursor \in Nat
  BY DEF Client
<1>2. ASSUME NEW s \in d.cursor + 1 .. p - 1
      PROVE  s \in Rejected \/ s \in d.buffered
  <2>1. s \in c.cursor + 1 .. p - 1 /\ ~(s <= d.cursor)
    BY <1>1, <1>2 DEF Advances
  <2> QED BY <2>1 DEF Upto, Advances
<1> QED BY <1>2 DEF Upto

LEMMA AdvancesTransitive ==
    ASSUME NEW c \in Client, NEW d \in Client, NEW e \in Client, Advances(c, d), Advances(d, e)
    PROVE  Advances(c, e)
<1>1. c.cursor \in Nat /\ d.cursor \in Nat /\ e.cursor \in Nat /\ c.buffered \subseteq Nat
  BY SMTT(40) DEF Client, Sequence
<1> QED BY <1>1 DEF Advances

(* A history read in hand backs whatever is held.                          *)
LEMMA SnapshotBacks ==
    ASSUME NEW c \in Client
    PROVE  /\ TakeSnapshot(c) \in Client /\ Backed(TakeSnapshot(c))
           /\ TakeSnapshot(c).cursor = c.cursor /\ TakeSnapshot(c).buffered = c.buffered
           /\ TakeSnapshot(c).socket = c.socket /\ TakeSnapshot(c).snap.phase # "none"
<1>1. CASE c.snap.phase # "none"
  BY <1>1 DEF TakeSnapshot, Backed
<1>2. CASE c.snap.phase = "none"
  BY <1>2 DEF TakeSnapshot, Client, Backed
<1> QED BY <1>1, <1>2

(* receive(): the event at the position is shown, held, refused or known.  *)
LEMMA ReceivedCatchesUp ==
    ASSUME NEW c, Fits(c), Exact(c), Asked(c), Backed(c), NEW s \in Nat, s < next,
           next \in 1 .. MaxEvents + 1
    PROVE  /\ Asked(Receive(c, s)) /\ Backed(Receive(c, s))
           /\ Receive(c, s).socket = c.socket
           /\ Upto(c, s) => Upto(Receive(c, s), s + 1)
<1> DEFINE e == ApplyEvent(c, s)
<1>1. c \in Client /\ c.cursor \in Nat /\ c.socket.after \in Nat /\ MaxEvents \in Nat
  BY StreamAssumption DEF Fits, Client
<1>2. /\ e \in Client /\ e.snap = c.snap /\ e.socket = c.socket /\ e.failures = c.failures
      /\ e.cursor \in {c.cursor, c.cursor + 1}
  BY Applied DEF Fits
<1>3. CASE s \in Rejected
  <2>1. Receive(c, s) = c
    BY <1>3 DEF Receive
  <2>2. Upto(c, s) => Upto(c, s + 1)
    BY <1>1, <1>3 DEF Upto
  <2> QED BY <2>1, <2>2
<1>4. CASE s \notin Rejected
  <2>1. e.buffered # {} /\ ~e.snapshotting => c.buffered # {}
    BY <1>1 DEF ApplyEvent, Apply, Client
  <2>2. Upto(c, s) => Upto(e, s + 1)
    <3>1. CASE s <= c.cursor
      <4>1. e = c
        BY <3>1 DEF ApplyEvent
      <4> QED BY <1>1, <3>1, <4>1 DEF Upto
    <3>2. CASE s > c.cursor /\ (c.snapshotting \/ s > c.cursor + 1)
      <4>1. e.cursor = c.cursor /\ e.buffered = c.buffered \cup {s}
        BY <1>1, <3>2 DEF ApplyEvent, Client
      <4> HIDE DEF e
      <4> QED BY <1>1, <4>1 DEF Upto
    <3>3. CASE s = c.cursor + 1 /\ ~c.snapshotting
      <4>1. e.cursor = s /\ e.buffered = c.buffered
        BY <1>1, <3>3 DEF ApplyEvent, Apply, Client
      <4> HIDE DEF e
      <4> QED BY <1>1, <3>3, <4>1 DEF Upto
    <3> QED BY <1>1, <3>1, <3>2, <3>3
  <2>3. Receive(c, s) = IF e.snapshotting THEN TakeSnapshot(e) ELSE e
    BY <1>4 DEF Receive
  <2> HIDE DEF e
  <2>4. Asked(e)
    BY <1>1, <1>2 DEF Asked
  <2>5. CASE e.snapshotting
    <3>1. /\ Backed(TakeSnapshot(e)) /\ TakeSnapshot(e).cursor = e.cursor
          /\ TakeSnapshot(e).buffered = e.buffered /\ TakeSnapshot(e).socket = e.socket
      BY <1>2, SnapshotBacks
    <3> QED BY <1>2, <2>2, <2>3, <2>4, <2>5, <3>1 DEF Asked, Upto
  <2>6. CASE ~e.snapshotting
    <3>1. Backed(e)
      BY <1>2, <2>1, <2>6 DEF Backed
    <3> QED BY <1>2, <2>2, <2>3, <2>4, <2>6, <3>1
  <2> QED BY <2>5, <2>6
<1> QED BY <1>3, <1>4

(* A history read ends: a gap asks for the next one, else nothing is held  *)
(* that was not already held after a failure.                              *)
LEMMA SettledBacks ==
    ASSUME NEW c \in Client, c.buffered # {} => c.snapshotting \/ c.failures > 0
    PROVE  /\ Settled(c) \in Client /\ Backed(Settled(c)) /\ Settled(c).socket = c.socket
           /\ Settled(c).cursor = c.cursor /\ Settled(c).buffered = c.buffered
<1> DEFINE d == [c EXCEPT !.snap = NoSnap]
<1>1. d \in Client
  BY DEF Client, NoSnap
<1>2. /\ d.cursor = c.cursor /\ d.buffered = c.buffered /\ d.socket = c.socket
      /\ d.failures = c.failures /\ d.snapshotting = c.snapshotting
  BY DEF Client
<1>3. Settled(c) = IF d.snapshotting THEN TakeSnapshot(d) ELSE d
  BY DEF Settled
<1> HIDE DEF d
<1>4. CASE d.snapshotting
  BY <1>1, <1>2, <1>3, <1>4, SnapshotBacks
<1>5. CASE ~d.snapshotting
  <2>1. Backed(d)
    BY <1>2, <1>5 DEF Backed
  <2> QED BY <1>1, <1>2, <1>3, <1>5, <2>1
<1> QED BY <1>4, <1>5

LEMMA FailedBacks ==
    ASSUME NEW c \in Client
    PROVE  /\ Failed(c) \in Client /\ Backed(Failed(c)) /\ Failed(c).socket = c.socket
           /\ Failed(c).cursor = c.cursor /\ Failed(c).buffered = c.buffered
<1> DEFINE count == IF c.failures < Retries + 1 THEN c.failures + 1 ELSE c.failures
           again == c.failures < Retries \/ c.retry
           d == [c EXCEPT !.snapshotting = FALSE, !.failures = count, !.retry = again]
<1>1. Retries \in Nat /\ c.failures \in 0 .. Retries + 1 /\ c.retry \in BOOLEAN
  BY StreamAssumption DEF Client
<1>2. Failed(c) = Settled(d)
  BY DEF Failed
<1>3. count \in 0 .. Retries + 1 /\ count > 0
  BY <1>1
<1>4. again \in BOOLEAN
  BY <1>1
<1> HIDE DEF count, again
<1>5. d \in Client
  BY <1>3, <1>4 DEF Client
<1>6. d.cursor = c.cursor /\ d.buffered = c.buffered /\ d.socket = c.socket /\ d.failures = count
  BY DEF Client
<1> HIDE DEF d
<1> QED BY <1>2, <1>3, <1>5, <1>6, SettledBacks

(* An answered history read leaves nothing behind the snapshot's cut or    *)
(* the events applied from the buffer, and backs what it leaves ahead.     *)
LEMMA AnsweredBacks ==
    ASSUME NEW c, NEW n \in Nat, Sound(c), Follows(AcceptCut(Succeeded(c)), n),
           next \in 1 .. MaxEvents + 1, Asked(c)
    PROVE  LET d == Settled(Recovered(ReplayBuffered(AcceptCut(Succeeded(c)), n)))
           IN  /\ d \in Client /\ Asked(d) /\ Backed(d) /\ Advances(c, d)
               /\ Replaces(c) \/ d.socket = c.socket
<1> DEFINE u == Succeeded(c)
           a == AcceptCut(u)
           b == ReplayBuffered(a, n)
           e == Recovered(b)
           d == Settled(e)
<1>1. c \in Client /\ c.cursor \in Nat /\ c.snap.base \in Nat /\ Retries \in Nat
      /\ c.buffered \in SUBSET Sequence /\ c.socket.after \in Nat
  BY StreamAssumption DEF Sound, Fits, Client
<1>2. u \in Client /\ u.cursor = c.cursor /\ u.buffered = c.buffered /\ u.socket = c.socket
      /\ u.snap = c.snap /\ u.resync = c.resync
  <2>1. 0 \in 0 .. Retries + 1
    BY <1>1
  <2> QED BY <1>1, <2>1 DEF Succeeded, Client
<1>3. Fits(a) /\ Exact(a) /\ Attached(a) /\ c.cursor <= a.cursor
  BY Accepted
<1>4. a.socket = u.socket /\ a.snap = u.snap /\ a.resync = u.resync
      /\ \A s \in u.buffered : s <= a.cursor \/ s \in a.buffered
  <2> HIDE DEF u
  <2>1. u.cursor \in Nat /\ u.snap.base \in Nat /\ u.buffered \in SUBSET Sequence
        /\ \A s \in u.buffered : s \in Nat
    BY <1>2 DEF Client, Sequence
  <2> QED BY <1>2, <2>1 DEF AcceptCut, Client
<1>5. Follows(a, n)
  OBVIOUS
<1> HIDE DEF u
<1>6. Advances(c, a)
  BY <1>2, <1>3, <1>4 DEF Advances
<1> HIDE DEF a
<1>7. Fits(b) /\ Exact(b) /\ Attached(b) /\ a.cursor <= b.cursor
  BY <1>3, <1>5, Replayed
<1>8. /\ b.cursor = n /\ b.buffered = a.buffered \ (a.cursor + 1 .. n) /\ b.socket = a.socket
      /\ b.snap = a.snap /\ b.resync = a.resync /\ b.snapshotting = (b.buffered # {})
  BY <1>3 DEF ReplayBuffered, Fits, Client
<1>9. Advances(a, b)
  <2>1. a.cursor \in Nat /\ \A s \in a.buffered : s \in Nat
    BY <1>3 DEF Fits, Client, Sequence
  <2> QED BY <1>7, <1>8, <2>1 DEF Advances
<1> HIDE DEF b
<1>10. Fits(e) /\ e.cursor = b.cursor
  BY <1>7, Reopened
<1>11. /\ e.buffered = b.buffered /\ e.snapshotting = b.snapshotting
       /\ e.socket = IF Replaces(b)
                     THEN [state |-> "opening", after |-> b.cursor, refresh |-> FALSE]
                     ELSE b.socket
  BY <1>7 DEF Recovered, Opening, Fits, Client
<1>12. Replaces(b) <=> Replaces(c)
  BY <1>2, <1>4, <1>8 DEF Replaces
<1> HIDE DEF e
<1>13. /\ d \in Client /\ Backed(d) /\ d.socket = e.socket /\ d.cursor = e.cursor
       /\ d.buffered = e.buffered
  BY <1>8, <1>10, <1>11, SettledBacks DEF Fits
<1>14. Advances(c, b)
  BY <1>1, <1>3, <1>6, <1>7, <1>9, AdvancesTransitive DEF Fits
<1> HIDE DEF d
<1>15. Advances(c, d)
  BY <1>10, <1>11, <1>13, <1>14 DEF Advances
<1>16. b.cursor \in Nat /\ c.cursor <= b.cursor
  BY <1>7, <1>14 DEF Advances, Fits, Client
<1>17. Asked(d)
  <2>1. CASE Replaces(b)
    BY <1>10, <1>11, <1>13, <1>16, <2>1 DEF Asked
  <2>2. CASE ~Replaces(b)
    BY <1>1, <1>2, <1>4, <1>8, <1>10, <1>11, <1>13, <1>16, <2>2 DEF Asked
  <2> QED BY <2>1, <2>2
<1>18. Replaces(c) \/ d.socket = c.socket
  BY <1>2, <1>4, <1>8, <1>11, <1>12, <1>13
<1> QED BY <1>13, <1>15, <1>17, <1>18 DEF u, a, b, e, d

-----------------------------------------------------------------------------
(* The steps                                                               *)

(* A browser without a connection owes nothing to the line.                *)
LEMMA CatchUpUnconnected ==
    ASSUME NEW d, cl' = d, Asked(d), Backed(d), ~Upgraded'
    PROVE  CatchUp'
BY DEF CatchUp, Asked, Backed

(* The controller moves on while the line stays as it is.                  *)
LEMMA LineRests ==
    ASSUME IInv, LineInv, CatchUp, UNCHANGED LineState, NEW d \in Client, cl' = d,
           Asked(d), Backed(d), Advances(cl, d),
           d.socket.state \in {"accepted", "open"} => cl.socket.state \in {"accepted", "open"}
    PROVE  LineInv' /\ CatchUp'
<1>1. LineInv'
  BY LineUnmoved
<1>2. Position' = Position /\ Position \in Nat /\ emptied' = emptied /\ conn' = conn
  <2>1. wire # <<>> => 1 \in DOMAIN wire
    BY LineFacts
  <2> QED BY <2>1, LineFacts DEF Position, LineState
<1>3. ASSUME Upgraded', ~emptied'
      PROVE  Upto(cl, Position)'
  <2>1. Upto(cl, Position)
    BY <1>2, <1>3 DEF CatchUp, Upgraded
  <2>2. Upto(d, Position)
    BY <1>2, <2>1, Starts, AdvanceUpto
  <2> QED BY <1>2, <2>2 DEF Upto
<1> QED BY <1>1, <1>3 DEF CatchUp, Asked, Backed

(* A history read begins, and nothing else that the line depends on moves. *)
LEMMA LineReads ==
    ASSUME IInv, LineInv, CatchUp, UNCHANGED LineState, NEW c \in Client,
           cl' = TakeSnapshot(c), c.cursor = cl.cursor, c.buffered = cl.buffered,
           c.socket.after = cl.socket.after,
           c.socket.state \in {"accepted", "open"} => cl.socket.state \in {"accepted", "open"}
    PROVE  LineInv' /\ CatchUp'
<1>1. /\ TakeSnapshot(c) \in Client /\ Backed(TakeSnapshot(c))
      /\ TakeSnapshot(c).cursor = c.cursor /\ TakeSnapshot(c).buffered = c.buffered
      /\ TakeSnapshot(c).socket = c.socket
  BY SnapshotBacks
<1>2. Asked(TakeSnapshot(c)) /\ Advances(cl, TakeSnapshot(c))
  BY <1>1, Starts DEF CatchUp, Asked, Advances
<1> QED BY <1>1, <1>2, LineRests

LEMMA SocketClosedBacks ==
    ASSUME NEW c \in Client, Backed(c)
    PROVE  Asked(OnClose(c)) /\ Backed(OnClose(c)) /\ OnClose(c).socket.state = "none"
<1> DEFINE d == [c EXCEPT !.socket = NoSocket]
           e == [d EXCEPT !.reconnect = TRUE]
<1>1. /\ d \in Client /\ d.socket = NoSocket /\ d.cursor \in Nat
      /\ d.buffered = c.buffered /\ d.snap = c.snap /\ d.failures = c.failures
  BY DEF Client, NoSocket
<1>2. /\ e.socket = NoSocket /\ e.cursor \in Nat
      /\ e.buffered = c.buffered /\ e.snap = c.snap /\ e.failures = c.failures
  BY DEF Client, NoSocket
<1>3. OnClose(c) = IF c.resync THEN TakeSnapshot(d) ELSE e
  BY DEF OnClose
<1> HIDE DEF d, e
<1>4. NoSocket.after = 0 /\ NoSocket.state = "none"
  BY DEF NoSocket
<1>5. CASE c.resync
  BY <1>1, <1>3, <1>4, <1>5, SnapshotBacks DEF Asked
<1>6. CASE ~c.resync
  BY <1>2, <1>3, <1>4, <1>6 DEF Asked, Backed
<1> QED BY <1>5, <1>6

LEMMA PublishCatchesUp ==
    ASSUME IInv, LineInv, CatchUp, Publish
    PROVE  LineInv' /\ CatchUp'
<1>1. LineInv' /\ (conn'.on => conn.on /\ wire' = Append(wire, Event(next)))
  BY PublishLine
<1>2. UNCHANGED <<cl, emptied>>
  BY DEF Publish
<1>3. ASSUME Upgraded'
      PROVE  Upgraded /\ Position' = Position
  <2>1. conn.on /\ wire' = Append(wire, Event(next)) /\ Upgraded
    BY <1>1, <1>2, <1>3 DEF Upgraded
  <2>2. Event(next) \in Msg /\ Event(next).seq = next
    BY LineFacts DEF Event, Msg
  <2>3. wire' # <<>> /\ Position' = wire'[1].seq
    BY <2>1, <2>2, LineFacts DEF Position
  <2>4. CASE wire = <<>>
    BY <2>1, <2>2, <2>3, <2>4 DEF Position
  <2>5. CASE wire # <<>>
    <3>1. wire'[1] = wire[1]
      BY <2>1, <2>2, <2>5, LineFacts
    <3> QED BY <2>1, <2>3, <2>5, <3>1 DEF Position
  <2> QED BY <2>1, <2>4, <2>5
<1>4. ASSUME Upgraded', ~emptied'
      PROVE  Upto(cl, Position)'
  <2>1. Upto(cl, Position) /\ Position' = Position
    BY <1>2, <1>3, <1>4 DEF CatchUp
  <2> QED BY <1>2, <2>1 DEF Upto
<1> QED BY <1>1, <1>2, <1>4 DEF CatchUp, Asked, Backed

LEMMA RepublishCatchesUp ==
    ASSUME IInv, LineInv, CatchUp, Republish
    PROVE  LineInv' /\ CatchUp'
<1>1. UNCHANGED LineState /\ cl' = cl
  BY RepublishLine DEF Republish
<1>2. Advances(cl, cl)
  BY Starts DEF Advances
<1> QED BY <1>1, <1>2, Starts, LineRests DEF CatchUp

LEMMA PruneCatchesUp ==
    ASSUME IInv, LineInv, CatchUp, Prune
    PROVE  LineInv' /\ CatchUp'
<1>1. LineInv' /\ UNCHANGED <<next, conn, wire>> /\ (emptied => emptied') /\ cl' = cl
  BY PruneLine DEF Prune
<1>2. Position' = Position /\ (Upgraded' => Upgraded)
  BY <1>1 DEF Position, Upgraded
<1> QED BY <1>1, <1>2 DEF CatchUp, Asked, Backed, Upto

LEMMA UpgradeCatchesUp ==
    ASSUME IInv, LineInv, CatchUp, Upgrade
    PROVE  LineInv' /\ CatchUp'
<1>1. /\ LineInv' /\ UNCHANGED <<next, emptied>>
      /\ conn'.on /\ ~emptied =>
            \/ wire' = <<>> /\ cl.socket.after + 1 = next
            \/ wire' # <<>> /\ wire'[1].seq = cl.socket.after + 1
  BY UpgradeLine DEF CatchUp
<1> DEFINE d == [cl EXCEPT !.socket.state = "accepted"]
<1>2. cl' = d
  BY DEF Upgrade
<1>3. /\ d.cursor = cl.cursor /\ d.buffered = cl.buffered /\ d.socket.after = cl.socket.after
      /\ d.snap = cl.snap /\ d.failures = cl.failures
  BY Starts DEF Client
<1> HIDE DEF d
<1>4. Asked(d) /\ Backed(d)
  BY <1>3 DEF CatchUp, Asked, Backed
<1>5. ASSUME conn'.on, ~emptied'
      PROVE  Upto(cl, Position)'
  <2>1. Position' = cl.socket.after + 1
    BY <1>1, <1>5 DEF Position
  <2>2. cl.socket.after <= cl.cursor /\ cl.socket.after \in Nat /\ cl.cursor \in Nat
    BY Starts DEF CatchUp, Asked, Client
  <2>3. Upto(d, cl.socket.after + 1)
    BY <1>3, <2>2 DEF Upto
  <2> QED BY <1>2, <2>1, <2>3 DEF Upto
<1> QED BY <1>1, <1>2, <1>4, <1>5 DEF CatchUp, Upgraded, Asked, Backed

LEMMA DropCatchesUp ==
    ASSUME IInv, LineInv, CatchUp, Drop
    PROVE  LineInv' /\ CatchUp'
<1>1. LineInv' /\ ~conn'.on /\ cl' = cl
  BY DropLine DEF Drop
<1> QED BY <1>1 DEF CatchUp, Upgraded, Asked, Backed

LEMMA UpgradeFailsCatchesUp ==
    ASSUME IInv, LineInv, CatchUp, UpgradeFails
    PROVE  LineInv' /\ CatchUp'
<1>1. UNCHANGED LineState /\ cl' = OnClose(cl)
  BY DEF UpgradeFails, LineState
<1>2. Asked(OnClose(cl)) /\ Backed(OnClose(cl)) /\ OnClose(cl).socket.state = "none"
  BY Starts, SocketClosedBacks DEF CatchUp
<1>3. ~Upgraded'
  BY <1>1, <1>2 DEF Upgraded
<1> QED BY <1>1, <1>2, <1>3, LineUnmoved, CatchUpUnconnected

LEMMA OpensCatchesUp ==
    ASSUME IInv, LineInv, CatchUp, Opens
    PROVE  LineInv' /\ CatchUp'
<1> DEFINE c == [cl EXCEPT !.socket.state = "open"]
<1>1. /\ UNCHANGED LineState /\ cl.socket.state = "accepted"
      /\ cl' = TakeSnapshot(c) \/ cl' = c
  BY DEF Opens, LineState
<1>2. /\ c \in Client /\ c.cursor = cl.cursor /\ c.buffered = cl.buffered
      /\ c.socket.after = cl.socket.after /\ c.snap = cl.snap /\ c.failures = cl.failures
  BY Starts DEF Client
<1> HIDE DEF c
<1>3. CASE cl' = TakeSnapshot(c)
  BY <1>1, <1>2, <1>3, LineReads
<1>4. CASE cl' = c
  <2>1. Asked(c) /\ Backed(c) /\ Advances(cl, c)
    BY <1>2, Starts DEF CatchUp, Asked, Backed, Advances
  <2> QED BY <1>1, <1>2, <1>4, <2>1, LineRests
<1> QED BY <1>1, <1>3, <1>4

(* What arrives on an open connection is the event at the position; on a   *)
(* closed one nothing counts but that what is held is awaited.             *)
LEMMA ReceivesCatchesUp ==
    ASSUME IInv, LineInv, CatchUp, Receives
    PROVE  LineInv' /\ CatchUp'
<1> DEFINE m == Head(wire)
<1>1. /\ LineInv' /\ UNCHANGED <<next, conn, emptied>>
      /\ conn.on => /\ wire # <<>> /\ m = wire[1] /\ wire[1].kind = "event"
                    /\ (wire' = <<>> => wire[1].seq = next - 1)
                    /\ wire' # <<>> => wire'[1].seq = wire[1].seq + 1
  BY ReceivesLine
<1>2. m.kind \in {"event", "resync", "close"} /\ m.seq \in Nat /\ m.seq < next
  <2>1. wire \in Seq(Msg) /\ wire # <<>> /\ \A i \in DOMAIN wire : wire[i].seq < next
    BY Starts DEF Traffic, Receives
  <2>2. Head(wire) = wire[1] /\ 1 \in DOMAIN wire /\ wire[1] \in Msg
    BY <2>1
  <2> QED BY <2>1, <2>2 DEF Msg
<1>3. cl.socket.state = "open" /\ wire # <<>>
  BY DEF Receives
<1>4. CASE m.kind = "event"
  <2>1. cl' = Receive(cl, m.seq)
    BY <1>4 DEF Receives
  <2> DEFINE d == Receive(cl, m.seq)
  <2>2. Asked(d) /\ Backed(d) /\ (Upto(cl, m.seq) => Upto(d, m.seq + 1))
    <3> HIDE DEF m
    <3> QED BY <1>2, Starts, ReceivedCatchesUp DEF CatchUp
  <2>3. ASSUME Upgraded', ~emptied'
        PROVE  Upto(cl, Position)'
    <3>1. conn.on /\ ~emptied /\ Upgraded
      BY <1>1, <1>3, <2>3 DEF Upgraded
    <3>2. Position = m.seq /\ Position' = m.seq + 1
      BY <1>1, <1>2, <1>3, <3>1, LineFacts DEF Position
    <3>3. Upto(d, m.seq + 1)
      BY <2>2, <3>1, <3>2 DEF CatchUp
    <3> HIDE DEF d, m
    <3> QED BY <2>1, <3>2, <3>3 DEF Upto, d
  <2> HIDE DEF m
  <2> QED BY <1>1, <2>1, <2>2, <2>3 DEF CatchUp, Asked, Backed
<1>5. CASE m.kind # "event"
  <2>1. ~Upgraded'
    BY <1>1, <1>5 DEF Upgraded
  <2>2. CASE m.kind = "resync"
    <3> DEFINE target == IF cl.resyncSequence > m.seq THEN cl.resyncSequence ELSE m.seq
               c == [cl EXCEPT !.resync = TRUE, !.resyncSequence = target]
    <3>1. cl' = TakeSnapshot(c)
      BY <2>2 DEF Receives
    <3>2. target \in Nat
      BY <1>2, Starts DEF Client
    <3> HIDE DEF target, m
    <3>3. c \in Client /\ c.cursor = cl.cursor /\ c.socket = cl.socket
      BY <3>2, Starts DEF Client
    <3> HIDE DEF c
    <3>4. Backed(TakeSnapshot(c)) /\ Asked(TakeSnapshot(c))
      BY <3>3, SnapshotBacks DEF CatchUp, Asked
    <3> QED BY <1>1, <2>1, <3>1, <3>4, CatchUpUnconnected
  <2>3. CASE m.kind = "close"
    <3>1. cl' = OnClose(cl)
      BY <2>3 DEF Receives
    <3>2. Asked(OnClose(cl)) /\ Backed(OnClose(cl))
      BY Starts, SocketClosedBacks DEF CatchUp
    <3> QED BY <1>1, <2>1, <3>1, <3>2, CatchUpUnconnected
  <2> QED BY <1>2, <1>5, <2>2, <2>3
<1> QED BY <1>4, <1>5

LEMMA HistorySampledCatchesUp ==
    ASSUME IInv, LineInv, CatchUp, HistorySampled
    PROVE  LineInv' /\ CatchUp'
<1> DEFINE c == [cl EXCEPT !.snap.phase = "read", !.snap.base = CurrentSequence]
<1>1. CurrentSequence \in Nat
  BY Starts DEF CurrentSequence
<1>2. c \in Client
  BY <1>1, Starts DEF Client
<1>3. /\ c.cursor = cl.cursor /\ c.buffered = cl.buffered /\ c.snap.phase = "read"
      /\ c.socket = cl.socket
  BY Starts DEF Client
<1>4. cl' = c /\ UNCHANGED LineState
  BY DEF HistorySampled, LineState
<1> HIDE DEF c
<1>5. Asked(c) /\ Backed(c) /\ Advances(cl, c)
  BY <1>3, Starts DEF CatchUp, Asked, Backed, Advances
<1> QED BY <1>2, <1>3, <1>4, <1>5, LineRests

(* A failed history read keeps what is held, and counts.                   *)
LEMMA LineFails ==
    ASSUME IInv, LineInv, CatchUp, UNCHANGED LineState, cl' = Failed(cl)
    PROVE  LineInv' /\ CatchUp'
<1>1. /\ Failed(cl) \in Client /\ Backed(Failed(cl)) /\ Failed(cl).socket = cl.socket
      /\ Failed(cl).cursor = cl.cursor /\ Failed(cl).buffered = cl.buffered
  BY Starts, FailedBacks
<1>2. Asked(Failed(cl)) /\ Advances(cl, Failed(cl))
  BY <1>1, Starts DEF CatchUp, Asked, Advances
<1> QED BY <1>1, <1>2, LineRests

LEMMA HistoryAnswersCatchesUp ==
    ASSUME IInv, LineInv, CatchUp, HistoryAnswers
    PROVE  LineInv' /\ CatchUp'
<1>1. UNCHANGED <<next, first, emptied>>
  BY DEF HistoryAnswers
<1>2. CASE Behind(cl)
  BY <1>2, LineFails DEF HistoryAnswers, LineState
<1>3. CASE ~Behind(cl)
  <2> DEFINE a == AcceptCut(Succeeded(cl))
  <2>1. PICK n \in a.cursor .. MaxEvents :
           Follows(a, n) /\ cl' = Settled(Recovered(ReplayBuffered(a, n)))
    BY <1>3 DEF HistoryAnswers
  <2>2. n \in Nat
    <3>1. Fits(a)
      BY Starts, Accepted
    <3> QED BY <2>1, <3>1, Starts, StreamAssumption DEF Fits, Client
  <2> DEFINE d == Settled(Recovered(ReplayBuffered(AcceptCut(Succeeded(cl)), n)))
  <2>3. /\ d \in Client /\ Asked(d) /\ Backed(d) /\ Advances(cl, d)
        /\ Replaces(cl) \/ d.socket = cl.socket
    BY <2>1, <2>2, Starts, AnsweredBacks DEF CatchUp
  <2>4. cl' = d
    BY <2>1
  <2> HIDE DEF d
  <2>5. CASE Replaces(cl)
    <3>1. conn' = NoConn /\ wire' = <<>>
      BY <1>3, <2>5 DEF HistoryAnswers
    <3>2. WireContiguous'
      BY <3>1 DEF WireContiguous
    <3>3. ~Upgraded'
      BY <3>1 DEF Upgraded, NoConn
    <3> QED BY <1>1, <2>3, <2>4, <3>1, <3>2, <3>3, LineClosed, CatchUpUnconnected
  <2>6. CASE ~Replaces(cl)
    <3>1. UNCHANGED LineState
      BY <1>1, <1>3, <2>6 DEF HistoryAnswers, LineState
    <3> QED BY <2>3, <2>4, <2>6, <3>1, LineRests
  <2> QED BY <2>5, <2>6
<1> QED BY <1>2, <1>3

LEMMA HistoryFailsCatchesUp ==
    ASSUME IInv, LineInv, CatchUp, HistoryFails
    PROVE  LineInv' /\ CatchUp'
BY LineFails DEF HistoryFails, LineState

LEMMA RetryFiresCatchesUp ==
    ASSUME IInv, LineInv, CatchUp, RetryFires
    PROVE  LineInv' /\ CatchUp'
<1> DEFINE c == [cl EXCEPT !.retry = FALSE]
<1>1. /\ c \in Client /\ c.cursor = cl.cursor /\ c.buffered = cl.buffered
      /\ c.socket = cl.socket
  BY Starts DEF Client
<1>2. cl' = TakeSnapshot(c) /\ UNCHANGED LineState
  BY DEF RetryFires, LineState
<1> HIDE DEF c
<1> QED BY <1>1, <1>2, LineReads

(* A new socket asks for what follows the cursor; the line is not yet its. *)
LEMMA ReconnectFiresCatchesUp ==
    ASSUME IInv, LineInv, CatchUp, ReconnectFires
    PROVE  LineInv' /\ CatchUp'
<1>1. UNCHANGED LineState
  BY DEF ReconnectFires, LineState
<1>2. CASE cl.socket.state = "none"
  <2> DEFINE d == Opening(cl, TRUE)
  <2>1. /\ d.cursor = cl.cursor /\ d.buffered = cl.buffered /\ d.snap = cl.snap
        /\ d.failures = cl.failures /\ d.socket.after = cl.cursor
        /\ d.socket.state = "opening"
    BY Starts DEF Client, Opening
  <2>2. cl' = d
    BY <1>2 DEF ReconnectFires
  <2> HIDE DEF d
  <2>3. Asked(d) /\ Backed(d) /\ ~Upgraded'
    BY <2>1, <2>2, Starts DEF CatchUp, Asked, Backed, Upgraded
  <2> QED BY <1>1, <2>2, <2>3, LineUnmoved, CatchUpUnconnected
<1>3. CASE cl.socket.state # "none"
  <2> DEFINE d == [cl EXCEPT !.reconnect = FALSE]
  <2>1. /\ d \in Client /\ d.cursor = cl.cursor /\ d.buffered = cl.buffered
        /\ d.snap = cl.snap /\ d.failures = cl.failures /\ d.socket = cl.socket
    BY Starts DEF Client
  <2>2. cl' = d
    BY <1>3 DEF ReconnectFires
  <2> HIDE DEF d
  <2>3. Asked(d) /\ Backed(d) /\ Advances(cl, d)
    BY <2>1, Starts DEF CatchUp, Asked, Backed, Advances
  <2> QED BY <1>1, <2>1, <2>2, <2>3, LineRests
<1> QED BY <1>2, <1>3

LEMMA ForegroundCatchesUp ==
    ASSUME IInv, LineInv, CatchUp, Foreground
    PROVE  LineInv' /\ CatchUp'
BY Starts, LineReads DEF Foreground, LineState

LEMMA ReselectCatchesUp ==
    ASSUME IInv, LineInv, CatchUp, Reselect
    PROVE  LineInv' /\ CatchUp'
<1>1. cl' = Selected /\ conn' = NoConn /\ wire' = <<>> /\ UNCHANGED <<next, first, emptied>>
  BY DEF Reselect
<1>2. WireContiguous' /\ ~Upgraded'
  BY <1>1 DEF WireContiguous, Upgraded, NoConn
<1>3. Asked(Selected) /\ Backed(Selected)
  BY DEF Asked, Backed, Selected
<1> QED BY <1>1, <1>2, <1>3, LineClosed, CatchUpUnconnected

LEMMA CatchUpInitially == Init => LineInv /\ CatchUp
<1> SUFFICES ASSUME Init
             PROVE  LineInv /\ CatchUp
  OBVIOUS
<1>1. wire = <<>> /\ ~conn.on /\ next = 1 /\ cl = Selected
  BY DEF Init, NoConn
<1>2. LineInv
  BY <1>1 DEF LineInv, WireContiguous, LineOK, EmptyOK
<1>3. CatchUp
  BY <1>1 DEF CatchUp, Asked, Backed, Upgraded, Selected
<1> QED BY <1>2, <1>3

LEMMA CatchUpInductive == IInv /\ LineInv /\ CatchUp /\ [Next]_vars => LineInv' /\ CatchUp'
<1> SUFFICES ASSUME IInv, LineInv, CatchUp, [Next]_vars
             PROVE  LineInv' /\ CatchUp'
  OBVIOUS
<1>1. CASE Relay
  BY <1>1, PublishCatchesUp, RepublishCatchesUp, PruneCatchesUp, UpgradeCatchesUp DEF Relay
<1>2. CASE History
  BY <1>2, HistorySampledCatchesUp, HistoryAnswersCatchesUp, HistoryFailsCatchesUp DEF History
<1>3. CASE Browser
  BY <1>3, OpensCatchesUp, ReceivesCatchesUp, RetryFiresCatchesUp, ReconnectFiresCatchesUp
     DEF Browser
<1>4. CASE Environment
  BY <1>4, DropCatchesUp, UpgradeFailsCatchesUp, ForegroundCatchesUp, ReselectCatchesUp
     DEF Environment
<1>5. CASE UNCHANGED vars
  <2>1. UNCHANGED LineState /\ cl' = cl
    BY <1>5 DEF vars, LineState
  <2>2. Advances(cl, cl)
    BY Starts DEF Advances
  <2> QED BY <2>1, <2>2, Starts, LineRests DEF CatchUp
<1> QED BY <1>1, <1>2, <1>3, <1>4, <1>5 DEF Next

(* On every connection the replay and the live delivery that follows it    *)
(* are gapless and send nothing twice, and the browser has or awaits       *)
(* whatever came before the message it receives next.                      *)
THEOREM LineInvariance == Spec => [](LineInv /\ CatchUp)
BY CatchUpInitially, CatchUpInductive, StreamInvariance, PTL DEF Spec

(* What the endpoint has sent on one connection is gapless, whatever is    *)
(* published, pruned or re-published while it replays.                     *)
THEOREM WireGapless == Spec => []WireContiguous
<1>1. LineInv => WireContiguous
  BY DEF LineInv
<1> QED BY <1>1, LineInvariance, PTL

(* A connected browser with nothing under way, no read and no failed read  *)
(* has every event it accepts.                                             *)
THEOREM QuietCurrent == Spec => []QuietIsCurrent
<1>1. IInv /\ LineInv /\ CatchUp => QuietIsCurrent
  <2> SUFFICES ASSUME IInv, LineInv, CatchUp, ~emptied, conn.on, cl.socket.state = "open",
                      wire = <<>>, cl.snap.phase = "none", cl.failures = 0
               PROVE  cl.cursor + 1 .. next - 1 \subseteq Rejected
    BY DEF QuietIsCurrent
  <2>1. cl.buffered = {}
    BY DEF CatchUp, Backed
  <2>2. Upto(cl, next)
    BY DEF CatchUp, Upgraded, Position
  <2> QED BY <2>1, <2>2 DEF Upto
<1> QED BY <1>1, StreamInvariance, LineInvariance, PTL
=============================================================================
