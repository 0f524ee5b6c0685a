----------------------------- MODULE EventFeed -----------------------------
(***************************************************************************)
(* What a reader of one session's events is promised, without journals,    *)
(* sockets, buffers or retries: the reader shows a snapshot up to a cut    *)
(* and every later event in order, never shows what was not published, and *)
(* never goes back unless it leaves the session.                           *)
(***************************************************************************)
EXTENDS Naturals

VARIABLES last,   \* sequence of the last published event
          cut,    \* events the reader took from a snapshot
          seen,   \* the last event the reader has shown
    visit   \* how often the reader has entered the session

Init == last = 0 /\ cut = 0 /\ seen = 0 /\ visit = 1

Publish == last' = last + 1 /\ UNCHANGED <<cut, seen, visit>>

Show == seen < last /\ seen' = seen + 1 /\ UNCHANGED <<last, cut, visit>>

\* a snapshot, and the events after its cut that were waiting for it
Refresh ==
    /\ cut' \in Nat /\ seen' \in Nat
    /\ cut' = cut \/ seen <= cut'
    /\ seen <= seen' /\ cut' <= seen' /\ seen' <= last
    /\ UNCHANGED <<last, visit>>

Leave == visit' = visit + 1 /\ cut' = 0 /\ seen' = 0 /\ UNCHANGED last

Next == Publish \/ Show \/ Refresh \/ Leave

Spec == Init /\ [][Next]_<<last, cut, seen, visit>>
=============================================================================
