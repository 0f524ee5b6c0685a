------------------------- MODULE AttentionDecision -------------------------
(***************************************************************************)
(* What the relay promises about a question a supervisor puts to the       *)
(* human, without writers, timers, retries or crashes: the first operation *)
(* key to claim it owns it, it is closed once and stays closed, only its   *)
(* owner's answer closes it as answered, and an answer is carried out at   *)
(* most once and never for a question that was lost.                       *)
(***************************************************************************)
CONSTANTS Request, Key, NoKey

VARIABLE asked   \* of each request id: [state, owner, done]

Unasked == [state |-> "unasked", owner |-> NoKey, done |-> FALSE]

Init == asked = [r \in Request |-> Unasked]

Becomes(r, state, owner, done) ==
    asked' = [asked EXCEPT ![r] = [state |-> state, owner |-> owner, done |-> done]]

MayOwn(r, k) == asked[r].state = "open" /\ asked[r].owner \in {NoKey, k}

Ask(r) == asked[r] = Unasked /\ Becomes(r, "open", NoKey, FALSE)

Claim(r, k) == MayOwn(r, k) /\ Becomes(r, "open", k, FALSE)

\* a crash may fall between the answer and what the answer asks for
Answer(r, k) == MayOwn(r, k) /\ \E done \in BOOLEAN : Becomes(r, "answered", k, done)

\* an attempt of its owner finds the question gone
Lose(r, k) == MayOwn(r, k) /\ Becomes(r, "lost", k, FALSE)

\* one event of the relay may lose several questions
LoseMany ==
    \E lost \in SUBSET {r \in Request : asked[r].state = "open"} :
        asked' = [r \in Request |-> IF r \in lost THEN [asked[r] EXCEPT !.state = "lost"]
                                                  ELSE asked[r]]

Next == \/ \E r \in Request : Ask(r) \/ \E k \in Key : Claim(r, k) \/ Answer(r, k) \/ Lose(r, k)
        \/ LoseMany

Spec == Init /\ [][Next]_asked
=============================================================================
